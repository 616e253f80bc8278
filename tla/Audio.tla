-------------------------------- MODULE Audio --------------------------------
(***************************************************************************)
(* AudioPlayer over AudioChannel (audio/): a sound that begins, goes on in *)
(* a loop and ends, which the program starts and stops, while the player   *)
(* follows what the channel of the provider has come to.                   *)
(***************************************************************************)
EXTENDS Integers

CONSTANTS Volume,        \* volumes the program sets
          Distance,      \* distances it sets
          m_minDistance, \* where a sound is as loud as it gets,
          m_maxDistance  \* and from where on it is not heard

ASSUME AudioAssumption ==
  /\ Volume \subseteq Nat /\ Distance \subseteq Nat
  /\ m_minDistance \in Nat /\ m_maxDistance \in Nat /\ m_minDistance < m_maxDistance

VARIABLES m_state,           \* of the player
          m_waitStopPlaing,
          samples,           \* the samples the player has, by the state they
                             \* are for
          m_volume,          \* of the player's AudioChannel
          m_distance_volume, \* out of m_maxDistance - m_minDistance
          channel            \* the provider's: is it valid, the sample that
                             \* sounds, and how loud

audioVars == <<m_state, m_waitStopPlaing, samples, m_volume, m_distance_volume,
               channel>>

Sample == {"Beginning", "Loop", "Ending"}
Silence == "none"

InitAudio ==
  /\ m_state = "Idle"
  /\ m_waitStopPlaing = FALSE
  /\ samples \in SUBSET Sample
  /\ m_volume = 1
  /\ m_distance_volume = m_maxDistance - m_minDistance
  /\ channel \in [valid : BOOLEAN, sounding : {Silence}, volume : {1}]

-----------------------------------------------------------------------------
\* AudioChannel::play: the volume is set in any case, and the sample before it
\* goes on if the new one is not to be heard or not there.
playing(sample) ==
  LET v == m_volume * m_distance_volume
  IN IF ~channel.valid THEN channel
     ELSE [channel EXCEPT !.volume = v,
             !.sounding = IF v > 0 /\ sample \in samples THEN sample ELSE @]

isPlaying == channel.sounding # Silence

\* AudioPlayer::play
play ==
  /\ m_state = "Idle" \/ ~m_waitStopPlaing
  /\ m_state' = "Beginning"
  /\ channel' = playing("Beginning")
  /\ UNCHANGED <<m_waitStopPlaing, samples, m_volume, m_distance_volume>>

\* AudioPlayer::stop
stop ==
  /\ m_state \in {"Beginning", "Loop"}
  /\ m_state' = "Ending"
  /\ channel' = playing("Ending")
  /\ UNCHANGED <<m_waitStopPlaing, samples, m_volume, m_distance_volume>>

\* Slip: the end of what sounds is not waited for.
proceedPlayer_early ==
  /\ m_state \in {"Beginning", "Ending"}
  /\ LET looped == m_state = "Beginning" /\ "Loop" \in samples
     IN /\ m_state' = IF looped THEN "Loop" ELSE "Idle"
        /\ channel' = IF looped THEN playing("Loop") ELSE channel
  /\ UNCHANGED <<m_waitStopPlaing, samples, m_volume, m_distance_volume>>

\* AudioPlayer::proceed
proceedPlayer ==
  /\ m_state \in {"Beginning", "Ending"}
  /\ ~isPlaying
  /\ LET looped == m_state = "Beginning" /\ "Loop" \in samples
     IN /\ m_state' = IF looped THEN "Loop" ELSE "Idle"
        /\ channel' = IF looped THEN playing("Loop") ELSE channel
  /\ UNCHANGED <<m_waitStopPlaing, samples, m_volume, m_distance_volume>>

\* Volume, distance and waiting count from the next play on.
setVolume(v) ==
  /\ m_volume' = v
  /\ UNCHANGED <<m_state, m_waitStopPlaing, samples, m_distance_volume, channel>>

setDistance(d) ==
  LET distance == IF d < m_minDistance THEN m_minDistance
                  ELSE IF d > m_maxDistance THEN m_maxDistance ELSE d
  IN /\ m_distance_volume' = m_maxDistance - distance
     /\ UNCHANGED <<m_state, m_waitStopPlaing, samples, m_volume, channel>>

setWaitStopPlaing(wait) ==
  /\ m_waitStopPlaing' = wait
  /\ UNCHANGED <<m_state, samples, m_volume, m_distance_volume, channel>>

\* What the provider plays once comes to its end.
SampleEnds ==
  /\ channel.sounding \in {"Beginning", "Ending"}
  /\ channel' = [channel EXCEPT !.sounding = Silence]
  /\ UNCHANGED <<m_state, m_waitStopPlaing, samples, m_volume, m_distance_volume>>

NextAudio ==
  \/ play
  \/ stop
  \/ proceedPlayer
  \/ \E v \in Volume : setVolume(v)
  \/ \E d \in Distance : setDistance(d)
  \/ \E wait \in BOOLEAN : setWaitStopPlaing(wait)
  \/ SampleEnds

SpecAudio == InitAudio /\ [][NextAudio]_audioVars

-----------------------------------------------------------------------------
(***************************************************************************)
(* What sounds is what the player's state says, whenever it was started,   *)
(* stopped or turned down: nothing when it is idle, the loop as long as it *)
(* loops.  The sound of an earlier state goes on only unheard, or because  *)
(* the player has no sample for the new one: without an ending one it      *)
(* cannot be stopped.                                                      *)
(***************************************************************************)
SoundsAsItsState ==
  /\ m_state = "Idle" => ~isPlaying
  /\ (m_state = "Loop" /\ channel.valid /\ channel.volume > 0)
        => channel.sounding = "Loop"
  /\ (isPlaying /\ channel.sounding # m_state)
        => channel.volume = 0 \/ m_state \notin samples
=============================================================================
