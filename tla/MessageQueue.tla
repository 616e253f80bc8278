---------------------------- MODULE MessageQueue ----------------------------
(***************************************************************************)
(* MessageQueue<IdType, ValueType> (messagequeue.h): messages wait by id   *)
(* until somebody pops that id or their life time is over, and the Promice *)
(* the emitter got tells which of the two it was.                          *)
(***************************************************************************)
EXTENDS Integers, Sequences, SequencesExt, Lists

CONSTANTS MessageId,    \* ids messages are emitted under
          MessageValue, \* what they carry
          MaxMessages   \* bound: messages emitted in all

ASSUME MessageQueueAssumption == MaxMessages \in Nat

VARIABLES m_data,   \* per id, the messages that wait
          emitted,  \* messages emitted so far; the n-th has promice n
          m_state,  \* per promice, its state
          outcome,  \* what that becomes when the callbacks under way return
          flushes   \* history: per promice, flushes its message has been in

messageVars == <<m_data, emitted, m_state, outcome, flushes>>

Promices == 1 .. MaxMessages

\* Slip: messages live until the next flush only.
m_messageLifeTime_none == 0

\* Context's constructor: setMessageLifeTime(1)
m_messageLifeTime == 1

InitMessages ==
  /\ m_data = [id \in MessageId |-> <<>>]
  /\ emitted = 0
  /\ m_state = [n \in Promices |-> "InProcess"]
  /\ outcome = m_state
  /\ flushes = [n \in Promices |-> 0]

\* seen is 1 when a flush under way still comes to the message.
emitMessage(id, v, seen) ==
  /\ emitted < MaxMessages
  /\ emitted' = emitted + 1
  /\ m_data' = [m_data EXCEPT ![id] = Append(@,
                  [value |-> v, loopCount |-> m_messageLifeTime - seen,
                   promice |-> emitted + 1])]
  /\ flushes' = [flushes EXCEPT ![emitted + 1] = seen]
  /\ UNCHANGED <<m_state, outcome>>

containsMessage(id) == m_data[id] # <<>>

\* The callbacks returned: popMessage and filterList tell the Promice only now.
settle ==
  /\ m_state' = outcome
  /\ UNCHANGED <<m_data, emitted, outcome, flushes>>

\* One turn of popMessage's loop, up to the callbacks the user gave popMessage
\* and the Promice; the caller adds what they do, and settles.
popOne(id) ==
  /\ containsMessage(id)
  /\ m_data' = [m_data EXCEPT ![id] = Tail(@)]
  /\ outcome' = [outcome EXCEPT ![Head(m_data[id]).promice] = "Done"]
  /\ UNCHANGED <<emitted, m_state, flushes>>

Waiting == UNION {Range(m_data[id]) : id \in MessageId}

\* Slip: the emitter of a flushed message is not told.
flushMessages_silent ==
  LET rest(id) == Select(m_data[id], {m \in Range(m_data[id]) : m.loopCount > 0})
  IN /\ m_data' = [id \in MessageId |->
          [i \in DOMAIN rest(id) |-> [rest(id)[i] EXCEPT !.loopCount = @ - 1]]]
     /\ UNCHANGED <<emitted, m_state, outcome, flushes>>

\* flushMessages: filterList on every queue; loopCount-- <= 0 ends a message.
\* The caller adds what the callbacks of the promices that fail do, and settles
\* them together.
flushMessages ==
  LET alive(m) == m.loopCount > 0
      aged(m) == [m EXCEPT !.loopCount = @ - 1]
      kept(s) == LET rest == Select(s, {m \in Range(s) : alive(m)})
                 IN [i \in DOMAIN rest |-> aged(rest[i])]
      waits(n) == \E m \in Waiting : m.promice = n
  IN /\ m_data' = [id \in MessageId |-> kept(m_data[id])]
     /\ outcome' = [n \in Promices |->
          IF \E m \in Waiting : m.promice = n /\ ~alive(m)
            THEN "Failed" ELSE outcome[n]]
     /\ flushes' = [n \in Promices |->
          IF waits(n) THEN flushes[n] + 1 ELSE flushes[n]]
     /\ UNCHANGED <<emitted, m_state>>
=============================================================================
