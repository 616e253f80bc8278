-------------------------- MODULE MemStream_proofs --------------------------
(***************************************************************************)
(* MemStream implements PackageChannel for every set of payloads and every *)
(* size of the ring, as long as every length fits the length field.        *)
(***************************************************************************)
EXTENDS MemStream, PackageStream_proofs

\* What lies behind the ring for the reader.
Behind == IF inUse THEN wire ELSE <<>>

StreamInv ==
  /\ Typed
  /\ Len(m_buf) <= RingRoom
  /\ inUse => Exact(m_buf \o Behind)
  /\ Ordered(pushed, pulled, m_buf \o Behind, inUse)

LEMMA BehindType ==
  ASSUME Typed
  PROVE  Behind \in Seq(Byte) /\ m_buf \o Behind \in Seq(Byte) /\ inUse \in BOOLEAN
<1>1. Behind \in Seq(Byte)
  BY ExactNothing DEF Behind, Typed
<1> QED
  BY <1>1, ConcatProperties DEF Typed, inUse

LEMMA MemStart ==
  ASSUME Init
  PROVE  StreamInv /\ inUse /\ Frames(m_buf \o Behind) = <<>> /\ pulled = <<>>
<1>1. wire = <<>> /\ m_buf = <<>> /\ pushed = <<>> /\ pulled = <<>> /\ inUse
  BY DEF Init, StreamInit, inUse
<1>2. Typed /\ Len(m_buf) <= RingRoom
  BY <1>1, StreamAssumption DEF Typed
<1>3. m_buf \o Behind = <<>>
  BY <1>1 DEF Behind
<1> QED
  BY <1>1, <1>2, <1>3, ExactNothing, OrderedStart DEF StreamInv

LEMMA MemPush ==
  ASSUME LengthsFit, StreamInv, NEW p \in Package, Push(p)
  PROVE  StreamInv' /\ Channel!Send(p)
<1>1. inUse /\ inUse' /\ push(p, Len(Encode(p)))
  BY DEF Push, inUse
<1>2. Behind = wire /\ Behind' = wire'
  BY <1>1 DEF Behind
<1>3. Exact(m_buf \o wire) /\ Ordered(pushed, pulled, m_buf \o wire, TRUE) /\ Typed
  BY <1>1, <1>2 DEF StreamInv
<1>4. /\ Typed'
      /\ Exact((m_buf \o wire)')
      /\ Ordered(pushed', pulled', (m_buf \o wire)', TRUE)
      /\ Frames((m_buf \o wire)') = Append(Frames(m_buf \o wire), p)
      /\ pulled' = pulled
  BY <1>1, <1>3, PushStep
<1>5. m_buf' = m_buf
  BY <1>1 DEF push
<1>6. StreamInv'
  BY <1>1, <1>2, <1>4, <1>5 DEF StreamInv
<1>7. Channel!Send(p)
  BY <1>1, <1>2, <1>4 DEF Channel!Send, Behind
<1> QED
  BY <1>6, <1>7

LEMMA MemPull ==
  ASSUME StreamInv, Pull
  PROVE  StreamInv' /\ (Channel!Receive \/ UNCHANGED Channel!vars)
<1> DEFINE k == IF inUse THEN IF Len(wire) <= Room THEN Len(wire) ELSE Room ELSE 0
           t == IF inUse THEN SubSeq(wire, k + 1, Len(wire)) ELSE <<>>
           b == m_buf \o Behind
<1>1. pull(k) /\ open' = open /\ inUse' = inUse
  BY DEF Pull, inUse
<1>2. Typed /\ Len(m_buf) \in Nat /\ Len(wire) \in Nat /\ RingRoom \in Nat
  BY StreamAssumption, LenProperties DEF StreamInv, Typed
<1>3. k \in 0 .. Len(wire) /\ Len(m_buf) + k <= RingRoom
  BY <1>2 DEF Room, StreamInv
<1> HIDE DEF k
<1>4. t \in Seq(Byte) /\ (m_buf \o SubSeq(wire, 1, k)) \o t = b
  <2>1. CASE inUse
    BY <1>2, <1>3, <2>1, PullView DEF Behind
  <2>2. CASE ~inUse
    <3>1. k = 0 /\ t = <<>> /\ Behind = <<>>
      BY <2>2 DEF k, Behind
    <3>2. SubSeq(wire, 1, 0) = <<>>
      BY SubSeqEmpty
    <3>3. m_buf \o <<>> = m_buf /\ t \in Seq(Byte)
      BY <1>2, <3>1, ExactNothing, ConcatEmptySeq DEF Typed
    <3> QED
      BY <3>1, <3>2, <3>3
  <2> QED
    BY <2>1, <2>2
<1>5. t = Behind'
  <2>1. inUse => wire' = SubSeq(wire, k + 1, Len(wire))
    BY <1>1 DEF pull
  <2> QED
    BY <1>1, <2>1 DEF Behind
<1>6. inUse \in BOOLEAN /\ (inUse => Exact(b)) /\ Ordered(pushed, pulled, b, inUse)
  BY <1>2, BehindType DEF StreamInv
<1> HIDE DEF t, b
<1>7. /\ Typed'
      /\ inUse => Exact(m_buf' \o t)
      /\ Ordered(pushed', pulled', m_buf' \o t, inUse)
      /\ \/ pulled' = pulled /\ Frames(m_buf' \o t) = Frames(b)
         \/ /\ Frames(b) # <<>>
            /\ pulled' = Append(pulled, Head(Frames(b)))
            /\ Frames(m_buf' \o t) = Tail(Frames(b))
      /\ Len(m_buf') <= Len(m_buf) + k
  BY <1>1, <1>2, <1>3, <1>4, <1>6, PullStep
<1>8. Len(m_buf') <= RingRoom
  <2>1. Len(m_buf') \in Nat
    BY <1>7, LenProperties DEF Typed
  <2> QED
    BY <1>2, <1>3, <1>7, <2>1
<1>9. StreamInv'
  BY <1>1, <1>5, <1>7, <1>8 DEF StreamInv
<1>10. Channel!Receive \/ UNCHANGED Channel!vars
  <2>1. (m_buf \o Behind)' = m_buf' \o t
    BY <1>5
  <2> QED
    BY <1>1, <1>7, <2>1 DEF Channel!Receive, Channel!vars, Behind, b
<1> QED
  BY <1>9, <1>10

LEMMA MemClose ==
  ASSUME StreamInv, NEW end \in Ends, Close(end)
  PROVE  StreamInv' /\ Channel!GoDown
<1> DEFINE b == m_buf \o Behind
<1>1. ~inUse' /\ wire' = wire /\ m_buf' = m_buf /\ pushed' = pushed /\ pulled' = pulled
  BY DEF Close, inUse, streamVars
<1>2. Typed /\ m_buf \in Seq(Byte) /\ Behind \in Seq(Byte) /\ b \in Seq(Byte)
  BY BehindType DEF StreamInv, Typed
<1>3. Behind' = <<>> /\ m_buf' \o Behind' = m_buf
  BY <1>1, <1>2, ConcatEmptySeq DEF Behind
<1>4. PICK n \in 0 .. Len(Frames(b)) : Frames(m_buf) = SubSeq(Frames(b), 1, n)
  BY <1>2, FramesOfPrefix
<1>5. Ordered(pushed, pulled, m_buf, FALSE)
  <2>1. Ordered(pushed, pulled, m_buf \o Behind, inUse)
    BY DEF StreamInv
  <2>2. pushed \in Seq(Cut) /\ pulled \in Seq(Cut)
    BY <1>2 DEF Typed
  <2> QED
    BY <1>2, <2>1, <2>2, OrderedLoss
<1>6. StreamInv'
  <2>1. inUse' = FALSE
    BY <1>1
  <2>2. Ordered(pushed', pulled', (m_buf \o Behind)', inUse')
    BY <1>1, <1>3, <1>5, <2>1
  <2>3. Typed' /\ (Len(m_buf) <= RingRoom)'
    BY <1>1, <1>2 DEF Typed, StreamInv
  <2> QED
    BY <2>1, <2>2, <2>3 DEF StreamInv
<1>7. Channel!GoDown
  BY <1>1, <1>3, <1>4 DEF Channel!GoDown, Behind
<1> QED
  BY <1>6, <1>7

LEMMA MemStep ==
  ASSUME LengthsFit, StreamInv, [Next]_vars
  PROVE  StreamInv' /\ [Channel!Next]_(Channel!vars)
<1>1. CASE UNCHANGED vars
  BY <1>1 DEF vars, streamVars, StreamInv, Typed, Behind, inUse, Channel!vars
<1>2. CASE \E p \in Package : Push(p)
  BY <1>2, MemPush DEF Channel!Next, Package
<1>3. CASE Pull
  BY <1>3, MemPull DEF Channel!Next
<1>4. CASE \E end \in Ends : Close(end)
  BY <1>4, MemClose DEF Channel!Next
<1> QED
  BY <1>1, <1>2, <1>3, <1>4 DEF Next

(***************************************************************************)
(* A socket in memory hands its bytes over so that whole packages arrive   *)
(* in the order they were pushed and a close loses only the youngest.      *)
(***************************************************************************)
THEOREM MemImplementsChannel ==
  ASSUME LengthsFit
  PROVE  Spec => ImplementsChannel
<1>1. Init => StreamInv /\ Channel!Init
  BY MemStart DEF Channel!Init, Behind
<1>2. StreamInv /\ [Next]_vars => StreamInv' /\ [Channel!Next]_(Channel!vars)
  BY MemStep
<1> QED
  BY <1>1, <1>2, PTL DEF Spec, ImplementsChannel, Channel!Spec

(***************************************************************************)
(* What the reader was given is what was pushed first, in that order.      *)
(***************************************************************************)
THEOREM MemInOrder ==
  ASSUME LengthsFit
  PROVE  Spec => []InOrder
<1>1. Init => StreamInv
  BY MemStart
<1>2. StreamInv /\ [Next]_vars => StreamInv'
  BY MemStep
<1>3. StreamInv => InOrder
  <2> SUFFICES ASSUME StreamInv
               PROVE  InOrder
    OBVIOUS
  <2>1. Typed /\ m_buf \o Behind \in Seq(Byte) /\ Ordered(pushed, pulled, m_buf \o Behind, inUse)
    BY BehindType DEF StreamInv
  <2> QED
    BY <2>1, OrderedPulled DEF InOrder, Typed
<1> QED
  BY <1>1, <1>2, <1>3, PTL DEF Spec
=============================================================================
