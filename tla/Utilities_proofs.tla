-------------------------- MODULE Utilities_proofs --------------------------
(***************************************************************************)
(* Proofs about the utilities, each of which stands alone: the ring        *)
(* buffer, the counted handles, the queue of procedures, the audio player, *)
(* the strategy, signals, the asset provider, the physical object and the  *)
(* parser of flags.                                                        *)
(***************************************************************************)
EXTENDS RingBuf, SharedContainer, PriorityProcedure, Audio, Strategy, Signals,
        Assets, Physics, FlagParser, Lists_proofs, FiniteSetTheorems, SequenceTheorems, TLAPS

-----------------------------------------------------------------------------
(* RingBuf: the cursors stay inside, and the buffer is a bounded queue *)

(***************************************************************************)
(* Wrapping by % CAPACITY, for sums below twice the capacity.              *)
(***************************************************************************)
LEMMA WrapOnce ==
  ASSUME NEW n \in Int, 0 <= n, n < 2 * CAPACITY
  PROVE  n % CAPACITY = IF n < CAPACITY THEN n ELSE n - CAPACITY
<1>1. CAPACITY \in Nat /\ CAPACITY > 0
  BY CapacityAssumption
<1>2. CASE n < CAPACITY
  BY <1>1, <1>2
<1>3. CASE n >= CAPACITY
  BY <1>1, <1>3
<1> QED
  BY <1>1, <1>2, <1>3

(***************************************************************************)
(* What push_ability computes from two cursors inside the array: what the  *)
(* distance between them round the ring leaves of the capacity.            *)
(***************************************************************************)
LEMMA RoomBetween ==
  ASSUME NEW b \in Slots, NEW e \in Slots
  PROVE  (CAPACITY + b - e - 1) % CAPACITY
            = IF b <= e THEN CAPACITY - 1 - (e - b) ELSE b - e - 1
<1>1. CAPACITY \in Nat /\ CAPACITY > 0
  BY CapacityAssumption
<1> DEFINE sum == CAPACITY + b - e - 1
<1>2. sum \in Int /\ 0 <= sum /\ sum < 2 * CAPACITY
  BY <1>1 DEF Slots
<1>3. sum % CAPACITY = IF sum < CAPACITY THEN sum ELSE sum - CAPACITY
  BY <1>2, WrapOnce
<1> QED
  BY <1>1, <1>3 DEF Slots

(***************************************************************************)
(* The same for the cursors of a state: len is the distance, and "full"    *)
(* and "empty" are the two ends of its range.                              *)
(***************************************************************************)
LEMMA LenIsDistance ==
  ASSUME TypeOK
  PROVE  /\ len = IF m_begin <= m_end THEN m_end - m_begin
                                      ELSE CAPACITY - m_begin + m_end
         /\ len \in 0 .. CAPACITY - 1
         /\ push_ability = CAPACITY - 1 - len
         /\ is_full <=> len = CAPACITY - 1
         /\ is_empty <=> len = 0
<1>1. CAPACITY \in Nat /\ CAPACITY > 0 /\ m_begin \in Slots /\ m_end \in Slots
  BY CapacityAssumption DEF TypeOK
<1>2. push_ability = IF m_begin <= m_end THEN CAPACITY - 1 - (m_end - m_begin)
                                         ELSE m_begin - m_end - 1
  BY <1>1, RoomBetween DEF push_ability
<1> QED
  BY <1>1, <1>2 DEF len, is_full, is_empty, Slots

(***************************************************************************)
(* Contents is a sequence of len elements.                                 *)
(***************************************************************************)
LEMMA ContentsIsSeq ==
  ASSUME TypeOK
  PROVE  Contents \in Seq(Elem) /\ Len(Contents) = len
<1>1. len \in Nat /\ CAPACITY \in Nat /\ CAPACITY > 0 /\ m_begin \in Nat
  BY LenIsDistance, CapacityAssumption DEF TypeOK, Slots
<1>2. \A i \in 1 .. len : m_buf[(m_begin + i - 1) % CAPACITY] \in Elem
  BY <1>1 DEF TypeOK, Slots
<1> QED
  BY <1>1, <1>2 DEF Contents

(***************************************************************************)
(* The cursors of the ring never leave the array, whatever is pushed,      *)
(* popped and peeked.                                                      *)
(***************************************************************************)
LEMMA CursorsStep ==
  ASSUME TypeOK, [Next]_vars
  PROVE  TypeOK'
<1>1. CAPACITY \in Nat /\ CAPACITY > 0
  BY CapacityAssumption
<1>2. CASE \E v \in Elem : push(v)
  <2>1. PICK v \in Elem : push(v)
    BY <1>2
  <2>2. CASE is_full
    BY <2>1, <2>2 DEF push, TypeOK
  <2>3. CASE ~is_full
    <3>1. /\ m_buf' = [m_buf EXCEPT ![m_end] = v]
          /\ m_end' = (m_end + 1) % CAPACITY
          /\ m_begin' = m_begin
      BY <2>1, <2>3 DEF push
    <3>2. m_end' \in Slots
      BY <1>1, <3>1 DEF TypeOK, Slots
    <3> QED
      BY <3>1, <3>2 DEF TypeOK
  <2> QED
    BY <2>2, <2>3
<1>3. CASE pop
  BY <1>1, <1>3 DEF TypeOK, Slots, pop
<1>4. CASE UNCHANGED <<m_buf, m_begin, m_end>>
  BY <1>4 DEF TypeOK
<1> QED
  BY <1>2, <1>3, <1>4 DEF Next, vars, top, peek, ask_len, ask_push_ability

THEOREM CursorsStayInside == Spec => []TypeOK
<1>1. Init => TypeOK
  BY CapacityAssumption DEF Init, TypeOK, Slots
<1> QED
  BY <1>1, CursorsStep, PTL DEF Spec

(***************************************************************************)
(* A push that finds room appends to the queue.                            *)
(***************************************************************************)
LEMMA PushAppends ==
  ASSUME TypeOK, TypeOK', NEW v \in Elem, push(v), ~is_full
  PROVE  Contents' = Append(Contents, v)
<1>1. /\ CAPACITY \in Nat /\ CAPACITY > 0
      /\ m_begin \in 0 .. CAPACITY - 1 /\ m_end \in 0 .. CAPACITY - 1
      /\ m_buf \in [0 .. CAPACITY - 1 -> Elem]
  BY CapacityAssumption DEF TypeOK, Slots
<1>2. /\ m_buf' = [m_buf EXCEPT ![m_end] = v]
      /\ m_end' = IF m_end + 1 < CAPACITY THEN m_end + 1 ELSE 0
      /\ m_begin' = m_begin
  <2>1. /\ m_buf' = [m_buf EXCEPT ![m_end] = v]
        /\ m_end' = (m_end + 1) % CAPACITY
        /\ m_begin' = m_begin
    BY DEF push
  <2> QED
    BY <1>1, <2>1, WrapOnce
<1>3. len' = IF m_begin' <= m_end' THEN m_end' - m_begin'
                                   ELSE CAPACITY - m_begin' + m_end'
  <2>1. m_begin' \in Slots /\ m_end' \in Slots
    BY DEF TypeOK
  <2>2. push_ability' = IF m_begin' <= m_end'
                          THEN CAPACITY - 1 - (m_end' - m_begin')
                          ELSE m_begin' - m_end' - 1
    BY <2>1, RoomBetween DEF push_ability
  <2> QED
    BY <1>1, <2>1, <2>2 DEF len, Slots
<1>4. len \in 0 .. CAPACITY - 2 /\ len' = len + 1
  BY <1>1, <1>2, <1>3, LenIsDistance
<1>5. (m_begin + len) % CAPACITY = m_end
  BY <1>1, <1>4, LenIsDistance, WrapOnce
<1>6. \A i \in 1 .. len : (m_begin + i - 1) % CAPACITY # m_end
  BY <1>1, <1>4, LenIsDistance, WrapOnce
<1>7. Contents \in Seq(Elem) /\ Len(Contents) = len
  BY ContentsIsSeq
<1>8. Contents' = [i \in 1 .. len + 1 |-> m_buf'[(m_begin + i - 1) % CAPACITY]]
  BY <1>2, <1>4 DEF Contents
<1>9. ASSUME NEW i \in 1 .. len + 1
      PROVE  m_buf'[(m_begin + i - 1) % CAPACITY]
               = IF i = len + 1 THEN v ELSE Contents[i]
  <2> DEFINE slot == (m_begin + i - 1) % CAPACITY
  <2>1. slot \in 0 .. CAPACITY - 1
    BY <1>1, <1>4
  <2>2. CASE i = len + 1
    BY <1>1, <1>2, <1>4, <1>5, <2>2
  <2>3. CASE i \in 1 .. len
    <3>1. m_buf'[slot] = m_buf[slot]
      BY <1>1, <1>2, <1>6, <2>1, <2>3
    <3>2. Contents[i] = m_buf[slot]
      BY <2>3 DEF Contents
    <3> QED
      BY <1>4, <2>3, <3>1, <3>2
  <2> QED
    BY <1>4, <2>2, <2>3
<1>10. /\ Append(Contents, v) \in Seq(Elem)
       /\ Len(Append(Contents, v)) = len + 1
       /\ \A i \in 1 .. len + 1 : Append(Contents, v)[i]
                                    = IF i = len + 1 THEN v ELSE Contents[i]
  BY <1>4, <1>7
<1>11. Append(Contents, v) = [i \in 1 .. len + 1 |-> Append(Contents, v)[i]]
  BY <1>10, LenProperties
<1> QED
  BY <1>8, <1>9, <1>10, <1>11

(***************************************************************************)
(* A pop that finds something removes the head of the queue and returns it.*)
(***************************************************************************)
LEMMA PopRemovesHead ==
  ASSUME TypeOK, TypeOK', pop, ~is_empty
  PROVE  /\ Contents # <<>>
         /\ m_buf[m_begin] = Head(Contents)
         /\ Contents' = Tail(Contents)
<1>1. /\ CAPACITY \in Nat /\ CAPACITY > 0
      /\ m_begin \in 0 .. CAPACITY - 1 /\ m_end \in 0 .. CAPACITY - 1
  BY CapacityAssumption DEF TypeOK, Slots
<1>2. /\ m_buf' = m_buf
      /\ m_begin' = IF m_begin + 1 < CAPACITY THEN m_begin + 1 ELSE 0
      /\ m_end' = m_end
  BY <1>1, WrapOnce DEF pop, is_empty
<1>3. len' = IF m_begin' <= m_end' THEN m_end' - m_begin'
                                   ELSE CAPACITY - m_begin' + m_end'
  <2>1. m_begin' \in Slots /\ m_end' \in Slots
    BY DEF TypeOK
  <2>2. push_ability' = IF m_begin' <= m_end'
                          THEN CAPACITY - 1 - (m_end' - m_begin')
                          ELSE m_begin' - m_end' - 1
    BY <2>1, RoomBetween DEF push_ability
  <2> QED
    BY <1>1, <2>1, <2>2 DEF len, Slots
<1>4. len \in 1 .. CAPACITY - 1 /\ len' = len - 1
  BY <1>1, <1>2, <1>3, LenIsDistance
<1>5. Contents \in Seq(Elem) /\ Len(Contents) = len
  BY ContentsIsSeq
<1>6. Contents[1] = m_buf[m_begin]
  BY <1>1, <1>4, WrapOnce DEF Contents
<1>7. \A i \in 1 .. len - 1 : (m_begin' + i - 1) % CAPACITY
                                = (m_begin + (i + 1) - 1) % CAPACITY
  BY <1>1, <1>2, <1>4, WrapOnce
<1>8. Contents' = [i \in 1 .. len - 1 |-> Contents[i + 1]]
  BY <1>2, <1>4, <1>7 DEF Contents
<1>9. Contents # <<>> /\ Head(Contents) = Contents[1]
  BY <1>4, <1>5
<1>10. Tail(Contents) = [i \in 1 .. len - 1 |-> Contents[i + 1]]
  <2>1. /\ Tail(Contents) \in Seq(Elem)
        /\ Len(Tail(Contents)) = len - 1
        /\ \A i \in 1 .. len - 1 : Tail(Contents)[i] = Contents[i + 1]
    BY <1>5, <1>9, HeadTailProperties
  <2>2. Tail(Contents) = [i \in 1 .. len - 1 |-> Tail(Contents)[i]]
    BY <2>1, LenProperties
  <2> QED
    BY <2>1, <2>2
<1> QED
  BY <1>6, <1>8, <1>9, <1>10

(***************************************************************************)
(* Every step of the ring is a step of the queue it stands for.            *)
(***************************************************************************)
LEMMA QueueStep ==
  ASSUME TypeOK, TypeOK', [Next]_vars
  PROVE  [Queue!Next]_(Queue!vars)
<1> USE DEF Queue!Returned, Returned
<1>1. CAPACITY \in Nat /\ CAPACITY > 0 /\ len \in 0 .. CAPACITY - 1
  BY CapacityAssumption, LenIsDistance
<1>2. Contents \in Seq(Elem) /\ Len(Contents) = len
  BY ContentsIsSeq
<1>3. ASSUME UNCHANGED <<m_buf, m_begin, m_end>>
      PROVE  Contents' = Contents
  BY <1>3 DEF Contents, len, push_ability
<1>4. ASSUME NEW v \in Elem, push(v)
      PROVE  Queue!Push(v)
  <2>1. CASE is_full
    BY <1>1, <1>2, <1>3, <1>4, <2>1, LenIsDistance DEF push, Queue!Push
  <2>2. CASE ~is_full
    <3>1. Len(Contents) < CAPACITY - 1
      BY <1>1, <1>2, <2>2, LenIsDistance
    <3>2. result' = Returned("push", TRUE)
      BY <1>4, <2>2 DEF push
    <3> QED
      BY <1>4, <2>2, <3>1, <3>2, PushAppends DEF Queue!Push
  <2> QED
    BY <2>1, <2>2
<1>5. ASSUME pop
      PROVE  Queue!Pop
  <2>1. CASE is_empty
    <3>1. Contents = <<>>
      BY <1>2, <2>1, LenIsDistance
    <3> QED
      BY <1>3, <1>5, <2>1, <3>1 DEF pop, Queue!Pop
  <2>2. CASE ~is_empty
    BY <1>5, <2>2, PopRemovesHead DEF pop, Queue!Pop
  <2> QED
    BY <2>1, <2>2
<1>6. ASSUME top
      PROVE  Queue!Top
  <2>1. is_empty <=> Contents = <<>>
    BY <1>2, LenIsDistance
  <2>2. ASSUME ~is_empty
        PROVE  m_buf[m_begin] = Head(Contents)
    <3>1. 1 \in 1 .. len
      BY <1>1, <2>2, LenIsDistance
    <3>2. Head(Contents) = Contents[1]
      BY <1>2, <3>1, HeadTailProperties, EmptySeq
    <3>3. Contents[1] = m_buf[(m_begin + 1 - 1) % CAPACITY]
      BY <3>1 DEF Contents
    <3>4. (m_begin + 1 - 1) % CAPACITY = m_begin
      BY <1>1 DEF TypeOK, Slots
    <3> QED
      BY <3>2, <3>3, <3>4
  <2> QED
    BY <1>3, <1>6, <2>1, <2>2 DEF top, Queue!Top
<1>7. ASSUME NEW size \in 0 .. CAPACITY, peek(size)
      PROVE  Queue!Peek(size)
  <2> DEFINE n == Lesser(size, len)
  <2>1. n \in 0 .. len
    BY <1>1 DEF Lesser
  <2>2. SubSeq(Contents, 1, n) = [i \in 1 .. n |-> Contents[i]]
    BY <1>1, <1>2, <2>1
  <2>3. \A i \in 1 .. n : Contents[i] = m_buf[(m_begin + i - 1) % CAPACITY]
    BY <1>1, <2>1 DEF Contents
  <2>4. n = Queue!Lesser(size, Len(Contents))
    BY <1>2 DEF Lesser, Queue!Lesser
  <2>5. result' = Returned("peek", [i \in 1 .. n |->
                                      m_buf[(m_begin + i - 1) % CAPACITY]])
    BY <1>7 DEF peek
  <2>6. result' = Returned("peek", SubSeq(Contents, 1, n))
    BY <2>2, <2>3, <2>5
  <2> QED
    BY <1>3, <1>7, <2>4, <2>6 DEF peek, Queue!Peek
<1>8. ASSUME ask_len
      PROVE  Queue!Length
  BY <1>2, <1>3, <1>8 DEF ask_len, Queue!Length
<1>9. ASSUME ask_push_ability
      PROVE  Queue!Room
  BY <1>2, <1>3, <1>9, LenIsDistance DEF ask_push_ability, Queue!Room
<1>10. CASE UNCHANGED vars
  BY <1>3, <1>10 DEF vars, Queue!vars
<1>11. 0 .. CAPACITY = 0 .. (CAPACITY - 1) + 1
  BY <1>1
<1> QED
  BY <1>4, <1>5, <1>6, <1>7, <1>8, <1>9, <1>10, <1>11 DEF Next, Queue!Next

(***************************************************************************)
(* The ring buffer implements the bounded first-in first-out queue.        *)
(***************************************************************************)
THEOREM RingIsQueue == Spec => ImplementsQueue
<1>1. Init => Queue!Init
  <2> SUFFICES ASSUME Init PROVE Queue!Init
    OBVIOUS
  <2>1. TypeOK
    BY CapacityAssumption DEF Init, TypeOK, Slots
  <2>2. len = 0
    BY <2>1, LenIsDistance DEF Init
  <2>3. Contents = <<>>
    BY <2>1, <2>2, ContentsIsSeq
  <2> QED
    BY <2>3 DEF Init, Queue!Init, Returned, Queue!Returned
<1>2. TypeOK /\ TypeOK' /\ [Next]_vars => [Queue!Next]_(Queue!vars)
  BY QueueStep
<1> QED
  BY <1>1, <1>2, CursorsStayInside, PTL DEF Spec, ImplementsQueue, Queue!Spec

-----------------------------------------------------------------------------
(* SharedContainer: every data is freed once, with the last of its handles *)

\* The handles of the program and the one that is being returned.
Object == Handle \cup {Result}

HeapType ==
  [handle     : [Object -> [data : Data \cup {Null}, refCountPtr : Data \cup {Null}]],
   refCount   : [Data -> Nat],
   destructed : [Data -> Nat],
   family     : [Data -> Data \cup {Null}],
   thrown     : BOOLEAN]

Sharing(s, O, c) == {h \in O : s.handle[h].refCountPtr = c}

\* A handle that has a counter keeps its whole family from being freed; one
\* that has lost its counter holds what was freed.
HandleSound(s, h) ==
  LET c == s.handle[h].refCountPtr
      d == s.handle[h].data
  IN /\ d = Null => c = Null
     /\ c # Null => /\ s.family[d] = c
                    /\ \A x \in Data : s.family[x] = c => s.destructed[x] = 0
     /\ c = Null /\ d # Null => s.destructed[d] = 1

DataSound(s, d) ==
  /\ s.destructed[d] <= 1
  /\ s.family[d] = Null => s.destructed[d] = 0
  /\ s.family[d] # Null => s.family[s.family[d]] = s.family[d]

\* One data of the family d has been freed.
FreedOne(s, d) ==
  \E e \in Data : {x \in Data : s.family[x] = d /\ s.destructed[x] = 1} = {e}

(***************************************************************************)
(* What holds of the heap s while only the handles in O are counted, those *)
(* that are not about to be overwritten.                                   *)
(***************************************************************************)
Counted(s, O) ==
  /\ s \in HeapType
  /\ \A h \in Object : HandleSound(s, h)
  /\ \A d \in Data : DataSound(s, d)
  /\ \A d \in Data : s.refCount[d] = Cardinality(Sharing(s, O, d))
  /\ \A d \in Data : s.family[d] = d /\ Sharing(s, O, d) = {} => FreedOne(s, d)

LEMMA SharingFinite ==
  ASSUME NEW s, NEW O \in SUBSET Object, NEW c
  PROVE  IsFiniteSet(Sharing(s, O, c)) /\ IsFiniteSet(O)
<1>1. IsFiniteSet(Object)
  BY SharedContainerAssumption, FS_AddElement DEF Object
<1>2. IsFiniteSet(O)
  BY <1>1, FS_Subset
<1> QED
  BY <1>2, FS_Subset DEF Sharing

\* The heap after detach, part by part.
LEMMA Detaching ==
  ASSUME NEW s, Counted(s, Object), NEW h \in Object
  PROVE  LET c == s.handle[h].refCountPtr
             d == s.handle[h].data
             t == detach(s, h)
         IN /\ c = Null => t = [s EXCEPT !.thrown = @ \/ d # Null]
            /\ c # Null =>
                 /\ c \in Data /\ d \in Data
                 /\ t \in HeapType /\ t.thrown = s.thrown
                 /\ t.family = s.family
                 /\ t.refCount = [s.refCount EXCEPT ![c] = @ - 1]
                 /\ s.refCount[c] > 1 => t.handle = s.handle /\ t.destructed = s.destructed
                 /\ s.refCount[c] <= 1 =>
                      /\ t.handle = [s.handle EXCEPT ![h].refCountPtr = Null]
                      /\ t.destructed = [s.destructed EXCEPT ![d] = @ + 1]
<1> DEFINE c == s.handle[h].refCountPtr
           d == s.handle[h].data
           t == detach(s, h)
<1>1. CASE c = Null
  BY <1>1 DEF detach
<1>2. CASE c # Null
  <2>1. /\ s \in HeapType /\ s.handle[h] \in [data : Data \cup {Null}, refCountPtr : Data \cup {Null}]
        /\ c \in Data /\ d \in Data
        /\ s.refCount \in [Data -> Nat] /\ s.destructed \in [Data -> Nat]
    BY <1>2 DEF Counted, HandleSound, HeapType
  <2>2. s.refCount[c] \in Nat \ {0}
    <3>1. s.refCount[c] = Cardinality(Sharing(s, Object, c)) /\ h \in Sharing(s, Object, c)
      BY <2>1 DEF Counted, Sharing
    <3> QED
      BY <2>1, <3>1, SharingFinite, FS_EmptySet
  <2>3. /\ t.thrown = s.thrown /\ t.family = s.family
        /\ t.refCount = [s.refCount EXCEPT ![c] = @ - 1]
    BY <1>2, <2>1 DEF detach, HeapType
  <2>4. t.destructed = [s.destructed EXCEPT ![d] = IF s.refCount[c] <= 1 THEN @ + 1 ELSE @]
    BY <1>2, <2>1 DEF detach, HeapType
  <2>5. t.handle = [s.handle EXCEPT ![h].refCountPtr = IF s.refCount[c] <= 1 THEN Null ELSE @]
    BY <1>2, <2>1 DEF detach, HeapType
  <2>6. t = [handle |-> t.handle, refCount |-> t.refCount, destructed |-> t.destructed,
             family |-> t.family, thrown |-> t.thrown]
    BY <1>2, <2>1 DEF detach, HeapType
  <2> HIDE DEF t
  <2>7. t.refCount \in [Data -> Nat] /\ t.destructed \in [Data -> Nat]
    BY <2>1, <2>2, <2>3, <2>4
  <2>8. t.handle \in [Object -> [data : Data \cup {Null}, refCountPtr : Data \cup {Null}]]
    <3>1. [s.handle[h] EXCEPT !.refCountPtr = IF s.refCount[c] <= 1 THEN Null ELSE @]
            \in [data : Data \cup {Null}, refCountPtr : Data \cup {Null}]
      BY <2>1
    <3>2. s.handle \in [Object -> [data : Data \cup {Null}, refCountPtr : Data \cup {Null}]]
      BY <2>1 DEF HeapType
    <3> QED
      BY <2>5, <3>1, <3>2
  <2>9. t \in HeapType
    BY <2>1, <2>3, <2>6, <2>7, <2>8 DEF HeapType
  <2>10. s.refCount[c] > 1 => t.handle = s.handle /\ t.destructed = s.destructed
    BY <2>1, <2>2, <2>4, <2>5 DEF HeapType
  <2>11. s.refCount[c] <= 1 =>
                      /\ t.handle = [s.handle EXCEPT ![h].refCountPtr = Null]
                      /\ t.destructed = [s.destructed EXCEPT ![d] = @ + 1]
    BY <2>1, <2>2, <2>4, <2>5 DEF HeapType
  <2> QED
    BY <1>2, <2>1, <2>3, <2>9, <2>10, <2>11 DEF t
<1> QED
  BY <1>1, <1>2

LEMMA SameFreed ==
  ASSUME NEW s, NEW t, t.family = s.family, NEW d, FreedOne(s, d),
         \A x \in Data : s.family[x] = d => t.destructed[x] = s.destructed[x]
  PROVE  FreedOne(t, d)
<1>1. {x \in Data : s.family[x] = d /\ s.destructed[x] = 1}
        = {x \in Data : t.family[x] = d /\ t.destructed[x] = 1}
  OBVIOUS
<1> QED
  BY <1>1 DEF FreedOne

\* detach leaves every handle but its own counted.
LEMMA DetachCounted ==
  ASSUME NEW s, Counted(s, Object), NEW h \in Object
  PROVE  LET t == detach(s, h)
         IN /\ Counted(t, Object \ {h})
            /\ \A g \in Object \ {h} : t.handle[g] = s.handle[g]
            /\ t.family = s.family
<1> DEFINE c == s.handle[h].refCountPtr
           d == s.handle[h].data
           t == detach(s, h)
           O == Object \ {h}
<1>1. /\ s \in HeapType /\ s.handle[h] \in [data : Data \cup {Null}, refCountPtr : Data \cup {Null}]
      /\ s.handle \in [Object -> [data : Data \cup {Null}, refCountPtr : Data \cup {Null}]]
      /\ s.refCount \in [Data -> Nat] /\ s.destructed \in [Data -> Nat]
  BY DEF Counted, HeapType
<1>2. \A x : /\ IsFiniteSet(Sharing(s, Object, x)) /\ IsFiniteSet(Sharing(s, O, x))
             /\ Sharing(s, O, x) = Sharing(s, Object, x) \ {h}
  BY SharingFinite DEF Sharing
<1>3. \A x \in Data : s.refCount[x] = Cardinality(Sharing(s, Object, x))
  BY DEF Counted
<1>4. CASE c = Null
  <2>1. t = [s EXCEPT !.thrown = @ \/ d # Null]
    BY <1>4, Detaching
  <2>2. /\ t \in HeapType /\ t.handle = s.handle /\ t.refCount = s.refCount
        /\ t.destructed = s.destructed /\ t.family = s.family
    BY <1>1, <2>1 DEF HeapType
  <2>3. \A x \in Data : Sharing(t, O, x) = Sharing(s, Object, x)
    BY <1>4, <2>2, SharedContainerAssumption DEF Sharing
  <2> HIDE DEF t
  <2> QED
    <3>1. \A x \in Object : HandleSound(t, x)
      BY <2>2 DEF Counted, HandleSound
    <3>2. \A x \in Data : DataSound(t, x)
      BY <2>2 DEF Counted, DataSound
    <3>3. \A x \in Data : t.family[x] = x /\ Sharing(t, O, x) = {} => FreedOne(t, x)
      BY <2>2, <2>3, SameFreed DEF Counted
    <3> QED
      BY <1>3, <2>2, <2>3, <3>1, <3>2, <3>3 DEF Counted, t
<1>5. CASE c # Null
  <2>1. /\ c \in Data /\ d \in Data
        /\ t \in HeapType /\ t.family = s.family
        /\ t.refCount = [s.refCount EXCEPT ![c] = @ - 1]
        /\ s.refCount[c] > 1 => t.handle = s.handle /\ t.destructed = s.destructed
        /\ s.refCount[c] <= 1 =>
             /\ t.handle = [s.handle EXCEPT ![h].refCountPtr = Null]
             /\ t.destructed = [s.destructed EXCEPT ![d] = @ + 1]
    BY <1>5, Detaching
  <2> HIDE DEF t
  <2>2. \A g \in O : t.handle[g] = s.handle[g]
    BY <1>1, <2>1
  <2>3. \A x \in Data : Sharing(t, O, x) = Sharing(s, Object, x) \ {h}
    BY <1>2, <2>2 DEF Sharing
  <2>4. h \in Sharing(s, Object, c) /\ \A x \in Data \ {c} : h \notin Sharing(s, Object, x)
    BY DEF Sharing
  <2>5. \A x \in Data : t.refCount[x] = Cardinality(Sharing(t, O, x))
    <3>1. ASSUME NEW x \in Data
          PROVE  Cardinality(Sharing(s, Object, x) \ {h}) =
                   IF x = c THEN Cardinality(Sharing(s, Object, x)) - 1
                            ELSE Cardinality(Sharing(s, Object, x))
      BY <1>2, <2>4, FS_RemoveElement
    <3> QED
      <4>1. ASSUME NEW x \in Data
            PROVE  t.refCount[x] = Cardinality(Sharing(t, O, x))
        <5>1. CASE x = c
          <6>1. t.refCount[c] = s.refCount[c] - 1
            BY <1>1, <2>1
          <6>2. Cardinality(Sharing(t, O, c)) = Cardinality(Sharing(s, Object, c)) - 1
            BY <2>1, <2>3, <3>1
          <6>3. s.refCount[c] = Cardinality(Sharing(s, Object, c))
            BY <1>3, <2>1
          <6> QED
            BY <5>1, <6>1, <6>2, <6>3
        <5>2. CASE x # c
          BY <1>1, <1>3, <2>1, <2>3, <3>1, <5>2
        <5> QED
          BY <5>1, <5>2
      <4> QED
        BY <4>1
  <2>6. s.refCount[c] \in Nat
    BY <1>1, <2>1
  <2>7. ASSUME s.refCount[c] > 1
        PROVE  Counted(t, O)
    <3>1. \A x \in Data : Sharing(t, O, x) = {} => Sharing(s, Object, x) = {}
      <4>1. Sharing(t, O, c) # {}
        <5>1. t.refCount[c] # 0
          BY <1>1, <2>1, <2>6, <2>7
        <5>2. t.refCount[c] = Cardinality(Sharing(t, O, c))
          BY <2>1, <2>5
        <5> QED
          BY <5>1, <5>2, FS_EmptySet
      <4> QED
        BY <2>3, <2>4, <4>1
    <3> QED
      <4>1. \A x \in Object : HandleSound(t, x)
        BY <2>1, <2>7 DEF Counted, HandleSound
      <4>2. \A x \in Data : DataSound(t, x)
        BY <2>1, <2>7 DEF Counted, DataSound
      <4>3. \A x \in Data : t.family[x] = x /\ Sharing(t, O, x) = {} => FreedOne(t, x)
        BY <2>1, <2>7, <3>1, SameFreed DEF Counted
      <4> QED
        BY <2>1, <2>5, <4>1, <4>2, <4>3 DEF Counted
  <2>8. ASSUME s.refCount[c] <= 1
        PROVE  Counted(t, O)
    <3>1. Sharing(s, Object, c) = {h}
      <4>1. Cardinality(Sharing(s, Object, c) \ {h}) = 0
        <5>1. /\ Cardinality(Sharing(s, Object, c) \ {h}) = Cardinality(Sharing(s, Object, c)) - 1
              /\ Cardinality(Sharing(s, Object, c) \ {h}) \in Nat
          BY <1>2, <2>4, FS_RemoveElement, FS_CardinalityType
        <5> QED
          BY <1>3, <2>1, <2>6, <2>8, <5>1
      <4> QED
        BY <1>2, <2>4, <4>1, FS_EmptySet
    <3>2. /\ s.family[d] = c
          /\ \A x \in Data : s.family[x] = c => s.destructed[x] = 0
      BY <1>5 DEF Counted, HandleSound
    <3>3. /\ t.destructed[d] = 1
          /\ \A x \in Data \ {d} : t.destructed[x] = s.destructed[x]
      BY <1>1, <2>1, <2>8, <3>2
    <3>4. /\ t.handle[h].refCountPtr = Null /\ t.handle[h].data = d
      BY <1>1, <2>1, <2>8
    <3>5. ASSUME NEW g \in Object
          PROVE  HandleSound(t, g)
      <4>1. CASE g = h
        BY <2>1, <3>3, <3>4, <4>1, SharedContainerAssumption DEF HandleSound
      <4>2. CASE g # h
        <5>1. t.handle[g] = s.handle[g] /\ s.handle[g].refCountPtr # c
          BY <2>1, <2>2, <3>1, <4>2 DEF Sharing
        <5>2. s.handle[g] \in [data : Data \cup {Null}, refCountPtr : Data \cup {Null}]
          BY <1>1
        <5>3. HandleSound(s, g)
          BY DEF Counted
        <5> QED
          BY <2>1, <3>2, <3>3, <5>1, <5>2, <5>3 DEF HandleSound
      <4> QED
        BY <4>1, <4>2
    <3>6. ASSUME NEW x \in Data, t.family[x] = x, Sharing(t, O, x) = {}
          PROVE  FreedOne(t, x)
      <4>1. CASE x = c
        BY <2>1, <3>2, <3>3, <4>1 DEF FreedOne
      <4>2. CASE x # c
        <5>1. Sharing(s, Object, x) = {}
          BY <2>3, <2>4, <3>6, <4>2
        <5>2. FreedOne(s, x)
          BY <2>1, <3>6, <5>1 DEF Counted
        <5>3. \A y \in Data : t.family[y] = x => t.destructed[y] = s.destructed[y]
          BY <2>1, <3>2, <3>3, <4>2
        <5> QED
          BY <2>1, <5>2, <5>3, SameFreed
      <4> QED
        BY <4>1, <4>2
    <3>7. ASSUME NEW x \in Data
          PROVE  DataSound(t, x)
      <4>1. DataSound(s, x)
        BY DEF Counted
      <4> QED
        BY <2>1, <3>2, <3>3, <4>1, SharedContainerAssumption DEF DataSound
    <3> QED
      BY <2>1, <2>5, <3>5, <3>6, <3>7 DEF Counted
  <2>9. Counted(t, O)
    BY <2>6, <2>7, <2>8
  <2> QED
    BY <2>1, <2>2, <2>9 DEF t
<1> QED
  BY <1>4, <1>5

\* The heap after g's handle is copied over that of h, and counted.
Copied(s, h, g) ==
  LET c == s.handle[g].refCountPtr
  IN [s EXCEPT !.handle[h] = s.handle[g],
               !.refCount = IF c = Null THEN @ ELSE [s.refCount EXCEPT ![c] = @ + 1]]

(***************************************************************************)
(* What is copied over the handle that is not counted is counted again.    *)
(***************************************************************************)
LEMMA CopyCounted ==
  ASSUME NEW s, NEW h \in Object, NEW g \in Object, Counted(s, Object \ {h})
  PROVE  LET t == Copied(s, h, g)
         IN /\ Counted(t, Object)
            /\ t.thrown = s.thrown /\ t.family = s.family /\ t.destructed = s.destructed
            /\ t.handle = [s.handle EXCEPT ![h] = s.handle[g]]
<1> DEFINE c == s.handle[g].refCountPtr
           O == Object \ {h}
           t == Copied(s, h, g)
<1>1. /\ s \in HeapType /\ s.handle[g] \in [data : Data \cup {Null}, refCountPtr : Data \cup {Null}]
      /\ s.handle \in [Object -> [data : Data \cup {Null}, refCountPtr : Data \cup {Null}]]
      /\ s.refCount \in [Data -> Nat] /\ s.destructed \in [Data -> Nat]
  BY DEF Counted, HeapType
<1>2. /\ t.thrown = s.thrown /\ t.family = s.family /\ t.destructed = s.destructed
      /\ t.handle = [s.handle EXCEPT ![h] = s.handle[g]]
  BY <1>1 DEF HeapType, Copied
<1>3. /\ c = Null => t.refCount = s.refCount
      /\ c # Null => t.refCount = [s.refCount EXCEPT ![c] = @ + 1]
  BY <1>1 DEF HeapType, Copied
<1>4. t = [handle |-> t.handle, refCount |-> t.refCount, destructed |-> t.destructed,
           family |-> t.family, thrown |-> t.thrown]
  <2>1. t = [s EXCEPT !.handle = [s.handle EXCEPT ![h] = s.handle[g]],
                      !.refCount = IF c = Null THEN s.refCount
                                   ELSE [s.refCount EXCEPT ![c] = @ + 1]]
    BY DEF Copied
  <2> QED
    BY <1>1, <2>1 DEF HeapType
<1> HIDE DEF t
<1>5. t.handle \in [Object -> [data : Data \cup {Null}, refCountPtr : Data \cup {Null}]]
  BY <1>1, <1>2
<1>6. t.refCount \in [Data -> Nat]
  BY <1>1, <1>3
<1>7. t \in HeapType
  BY <1>1, <1>2, <1>4, <1>5, <1>6 DEF HeapType
<1>8. ASSUME NEW x \in Data
      PROVE  /\ Sharing(t, Object, x) = IF x = c THEN Sharing(s, O, x) \cup {h} ELSE Sharing(s, O, x)
             /\ h \notin Sharing(s, O, x)
  BY <1>1, <1>2 DEF Sharing
<1>9. \A x \in Data : t.refCount[x] = Cardinality(Sharing(t, Object, x))
  <2>1. \A x \in Data : /\ IsFiniteSet(Sharing(s, O, x))
                        /\ s.refCount[x] = Cardinality(Sharing(s, O, x))
    BY SharingFinite DEF Counted
  <2>2. ASSUME NEW x \in Data
          PROVE  Cardinality(Sharing(s, O, x) \cup {h}) = Cardinality(Sharing(s, O, x)) + 1
    BY <1>8, <2>1, FS_AddElement
  <2>3. CASE c = Null
    BY <1>3, <1>8, <2>1, <2>3, SharedContainerAssumption
  <2>4. CASE c # Null
    <3>1. t.refCount = [s.refCount EXCEPT ![c] = @ + 1] /\ c \in Data
      BY <1>1, <1>3, <2>4
    <3>2. \A x \in Data \ {c} : t.refCount[x] = Cardinality(Sharing(t, Object, x))
      <4> TAKE x \in Data \ {c}
      <4>1. Sharing(t, Object, x) = Sharing(s, O, x)
        BY <1>8
      <4>2. t.refCount[x] = s.refCount[x]
        BY <1>1, <3>1
      <4> QED
        BY <2>1, <4>1, <4>2
    <3>3. t.refCount[c] = s.refCount[c] + 1
      BY <1>1, <3>1
    <3>4. Sharing(t, Object, c) = Sharing(s, O, c) \cup {h}
      BY <1>8, <3>1
    <3>5. t.refCount[c] = Cardinality(Sharing(t, Object, c))
      BY <2>1, <2>2, <3>1, <3>3, <3>4
    <3> QED
      BY <3>2, <3>5
  <2> QED
    BY <2>3, <2>4
<1>10. ASSUME NEW f \in Object
       PROVE  \E k \in Object : t.handle[f] = s.handle[k]
  BY <1>1, <1>2
<1>11. \A x \in Data : Sharing(t, Object, x) = {} => Sharing(s, O, x) = {}
  BY <1>8
<1>12. \A f \in Object : HandleSound(t, f)
  <2> TAKE f \in Object
  <2>1. PICK k \in Object : t.handle[f] = s.handle[k]
    BY <1>10
  <2>2. HandleSound(s, k)
    BY DEF Counted
  <2> QED
    BY <1>2, <2>1, <2>2 DEF HandleSound
<1>13. \A x \in Data : DataSound(t, x)
  BY <1>2 DEF Counted, DataSound
<1>14. \A x \in Data : t.family[x] = x /\ Sharing(t, Object, x) = {} => FreedOne(t, x)
  <2> TAKE x \in Data
  <2>1. s.family[x] = x /\ Sharing(s, O, x) = {} => FreedOne(s, x)
    BY DEF Counted
  <2> QED
    <3> SUFFICES ASSUME t.family[x] = x, Sharing(t, Object, x) = {}
                 PROVE  FreedOne(t, x)
      OBVIOUS
    <3>1. FreedOne(s, x)
      BY <1>2, <1>11, <2>1
    <3>2. t.family = s.family /\ t.destructed = s.destructed
      BY <1>2
    <3> QED
      BY <3>1, <3>2 DEF FreedOne
<1> QED
  BY <1>2, <1>7, <1>9, <1>12, <1>13, <1>14 DEF Counted, t

\* Assignment, of any handle to any, keeps the heap counted.
LEMMA AssignCounted ==
  ASSUME NEW s, Counted(s, Object), ~s.thrown, NEW h \in Object, NEW g \in Object
  PROVE  LET t == assign(s, h, g)
         IN /\ Counted(t, Object)
            /\ t.family = s.family
            /\ \A f \in Object \ {h} : t.handle[f] = s.handle[f]
            /\ s.handle[h] = NullHandle /\ g # h =>
                 t.handle[h] = s.handle[g] /\ ~t.thrown
<1> DEFINE s1 == detach(s, h)
           t == assign(s, h, g)
<1>1. /\ Counted(s1, Object \ {h})
      /\ \A f \in Object \ {h} : s1.handle[f] = s.handle[f]
      /\ s1.family = s.family
  BY DetachCounted
<1>2. t = IF s1.thrown THEN s1 ELSE Copied(s1, h, g)
  BY DEF assign, Copied
<1>3. CASE s1.thrown
  <2>1. s.handle[h].refCountPtr = Null /\ s1 = [s EXCEPT !.thrown = @ \/ s.handle[h].data # Null]
    <3>1. s.handle[h].refCountPtr # Null => s1.thrown = s.thrown
      BY Detaching
    <3> QED
      BY <1>3, <3>1, Detaching
  <2>2. s.handle[h] # NullHandle
    BY <1>3, <2>1 DEF Counted, HeapType, NullHandle
  <2>3. /\ s1.handle = s.handle /\ s1.refCount = s.refCount /\ s1.destructed = s.destructed
        /\ s1.family = s.family /\ s1 \in HeapType
    BY <1>1, <2>1 DEF Counted, HeapType
  <2>4. \A x \in Data : Sharing(s1, Object, x) = Sharing(s, Object, x)
    BY <2>3 DEF Sharing
  <2> HIDE DEF s1
  <2>5. Counted(s1, Object)
    <3>1. \A x \in Data : s1.refCount[x] = Cardinality(Sharing(s1, Object, x))
      BY <2>3, <2>4 DEF Counted
    <3>2. \A x \in Data : s1.family[x] = x /\ Sharing(s1, Object, x) = {} => FreedOne(s1, x)
      BY <2>3, <2>4, SameFreed DEF Counted
    <3> QED
      BY <1>1, <3>1, <3>2 DEF Counted
  <2> QED
    BY <1>1, <1>2, <1>3, <2>2, <2>3, <2>5
<1>4. CASE ~s1.thrown
  <2> HIDE DEF s1
  <2>1. t = Copied(s1, h, g)
    BY <1>2, <1>4
  <2>2. /\ Counted(t, Object)
        /\ t.thrown = s1.thrown /\ t.family = s1.family
        /\ t.handle = [s1.handle EXCEPT ![h] = s1.handle[g]]
    <3> HIDE DEF t
    <3> QED
      BY <1>1, <2>1, CopyCounted
  <2>3. s1.handle \in [Object -> [data : Data \cup {Null}, refCountPtr : Data \cup {Null}]]
    BY <1>1 DEF Counted, HeapType
  <2> HIDE DEF t
  <2> QED
    BY <1>1, <1>4, <2>2, <2>3 DEF t
<1> QED
  BY <1>3, <1>4

\* A handle that ends leaves the others counted.
LEMMA DestroyCounted ==
  ASSUME NEW s, Counted(s, Object), NEW h \in Object
  PROVE  LET t == destroy(s, h)
         IN /\ Counted(t, Object)
            /\ t.handle[h] = NullHandle
            /\ \A f \in Object \ {h} : t.handle[f] = s.handle[f]
<1> DEFINE s1 == detach(s, h)
           t == destroy(s, h)
<1>1. /\ Counted(s1, Object \ {h})
      /\ \A f \in Object \ {h} : s1.handle[f] = s.handle[f]
  BY DetachCounted
<1>2. t = [s1 EXCEPT !.handle[h] = NullHandle]
  BY DEF destroy
<1> HIDE DEF s1
<1>3. /\ s1 \in HeapType
      /\ s1.handle \in [Object -> [data : Data \cup {Null}, refCountPtr : Data \cup {Null}]]
      /\ NullHandle \in [data : Data \cup {Null}, refCountPtr : Data \cup {Null}]
  BY <1>1 DEF Counted, HeapType, NullHandle
<1>4. /\ t.refCount = s1.refCount /\ t.destructed = s1.destructed /\ t.family = s1.family
      /\ t.thrown = s1.thrown
      /\ t.handle = [s1.handle EXCEPT ![h] = NullHandle]
      /\ t = [handle |-> t.handle, refCount |-> t.refCount, destructed |-> t.destructed,
              family |-> t.family, thrown |-> t.thrown]
  BY <1>2, <1>3 DEF HeapType
<1> HIDE DEF t
<1>5. t.handle \in [Object -> [data : Data \cup {Null}, refCountPtr : Data \cup {Null}]]
  BY <1>3, <1>4
<1>6. t \in HeapType
  BY <1>3, <1>4, <1>5 DEF HeapType
<1>7. t.handle[h] = NullHandle /\ \A f \in Object \ {h} : t.handle[f] = s1.handle[f]
  BY <1>3, <1>4
<1>8. \A x \in Data : Sharing(t, Object, x) = Sharing(s1, Object \ {h}, x)
  BY <1>7, SharedContainerAssumption DEF Sharing, NullHandle
<1>9. \A x \in Object : HandleSound(t, x)
  <2> TAKE x \in Object
  <2>1. CASE x = h
    BY <1>7, <2>1 DEF HandleSound, NullHandle
  <2>2. CASE x # h
    BY <1>1, <1>4, <1>7, <2>2 DEF HandleSound, Counted
  <2> QED
    BY <2>1, <2>2
<1>10. \A x \in Data : DataSound(t, x)
  BY <1>1, <1>4 DEF DataSound, Counted
<1>11. \A x \in Data : t.family[x] = x /\ Sharing(t, Object, x) = {} => FreedOne(t, x)
  <2> SUFFICES ASSUME NEW x \in Data, t.family[x] = x, Sharing(t, Object, x) = {}
               PROVE  FreedOne(t, x)
    OBVIOUS
  <2>1. FreedOne(s1, x)
    BY <1>1, <1>4, <1>8 DEF Counted
  <2> QED
    BY <1>4, <2>1 DEF FreedOne
<1>12. \A x \in Data : t.refCount[x] = Cardinality(Sharing(t, Object, x))
  BY <1>1, <1>4, <1>8 DEF Counted
<1>13. Counted(t, Object)
  BY <1>6, <1>9, <1>10, <1>11, <1>12 DEF Counted
<1> QED
  BY <1>1, <1>7, <1>13 DEF t

\* What a function returns is counted when the caller has it.
LEMMA GiveCounted ==
  ASSUME NEW s, Counted(s, Object), ~s.thrown, NEW h \in Handle
  PROVE  Counted(give(s, h), Object) /\ give(s, h).handle[Result] = NullHandle
<1>1. h \in Object /\ Result \in Object
  BY DEF Object
<1>2. Counted(assign(s, h, Result), Object)
  BY <1>1, AssignCounted
<1> QED
  BY <1>1, <1>2, DestroyCounted DEF give

ContainersInv == Counted(heap, Object) /\ heap.handle[Result] = NullHandle

\* The copy of a handle that is whole, to which setData gives data of its own.
LEMMA DerivedCounted ==
  ASSUME ContainersInv, ~heap.thrown, NEW g \in Handle, NEW d \in Data,
         heap.family[d] = Null, heap.handle[g].data # Null, ~Broken(g)
  PROVE  Counted(derived(g, d), Object) /\ ~derived(g, d).thrown
<1> DEFINE copy == assign(heap, Result, g)
           set == derived(g, d)
           c == heap.handle[g].refCountPtr
<1>1. /\ Counted(copy, Object) /\ copy.family = heap.family
      /\ copy.handle[Result] = heap.handle[g] /\ ~copy.thrown
  <2>1. /\ Result \in Object /\ g \in Object /\ g # Result
        /\ heap.handle[Result] = NullHandle /\ Counted(heap, Object)
    BY SharedContainerAssumption DEF ContainersInv, Object
  <2> QED
    BY <2>1, AssignCounted
<1> HIDE DEF copy
<1>2. set = [copy EXCEPT !.handle[Result].data = d,
                         !.family[d] = copy.handle[Result].refCountPtr]
  BY DEF copy, derived
<1> HIDE DEF set
<1>3. /\ copy \in HeapType /\ Result \in Object /\ g \in Object /\ heap \in HeapType
      /\ copy.handle \in [Object -> [data : Data \cup {Null}, refCountPtr : Data \cup {Null}]]
      /\ heap.handle[g] \in [data : Data \cup {Null}, refCountPtr : Data \cup {Null}]
      /\ copy.family \in [Data -> Data \cup {Null}]
  BY <1>1 DEF ContainersInv, Counted, HeapType, Object
<1>4. c \in Data
  BY <1>3 DEF Broken
<1>5. /\ set.refCount = copy.refCount /\ set.destructed = copy.destructed
      /\ set.thrown = copy.thrown
      /\ set.family = [copy.family EXCEPT ![d] = c]
      /\ set.handle = [copy.handle EXCEPT ![Result].data = d]
      /\ set = [handle |-> set.handle, refCount |-> set.refCount, destructed |-> set.destructed,
                family |-> set.family, thrown |-> set.thrown]
  BY <1>1, <1>2, <1>3 DEF HeapType
<1>6. /\ set.handle[Result] = [data |-> d, refCountPtr |-> c]
      /\ \A f \in Object \ {Result} : set.handle[f] = copy.handle[f]
      /\ set.family[d] = c /\ \A x \in Data \ {d} : set.family[x] = copy.family[x]
  BY <1>1, <1>3, <1>5
<1>7. set \in HeapType
  <2>1. set.family \in [Data -> Data \cup {Null}]
    BY <1>3, <1>4, <1>5
  <2>2. [copy.handle[Result] EXCEPT !.data = d] \in [data : Data \cup {Null}, refCountPtr : Data \cup {Null}]
    BY <1>3
  <2>3. set.handle \in [Object -> [data : Data \cup {Null}, refCountPtr : Data \cup {Null}]]
    BY <1>3, <1>5, <2>2
  <2> QED
    BY <1>3, <1>5, <2>1, <2>3 DEF HeapType
<1>8. /\ HandleSound(copy, Result) /\ \A x \in Object : HandleSound(copy, x)
      /\ \A x \in Data : DataSound(copy, x)
      /\ \A x \in Data : copy.refCount[x] = Cardinality(Sharing(copy, Object, x))
      /\ \A x \in Data : copy.family[x] = x /\ Sharing(copy, Object, x) = {} => FreedOne(copy, x)
  BY <1>1, <1>3 DEF Counted
<1>9. /\ copy.family[d] = Null /\ copy.destructed[d] = 0 /\ copy.family[c] = c /\ c # d
  <2>1. /\ copy.family[d] = Null /\ copy.family[copy.handle[Result].data] = c
        /\ copy.handle[Result].data \in Data
    BY <1>1, <1>3, <1>4, <1>8, SharedContainerAssumption DEF HandleSound
  <2>2. copy.family[c] = c
    BY <1>4, <1>8, <2>1, SharedContainerAssumption DEF DataSound
  <2> QED
    BY <1>4, <1>8, <2>1, <2>2, SharedContainerAssumption DEF DataSound
<1>10. \A x \in Data : Sharing(set, Object, x) = Sharing(copy, Object, x)
  BY <1>1, <1>6 DEF Sharing
<1>11. \A x \in Object : HandleSound(set, x)
  <2> TAKE x \in Object
  <2>1. \A y \in Data : copy.family[y] = c => copy.destructed[y] = 0
    BY <1>1, <1>4, <1>8, SharedContainerAssumption DEF HandleSound
  <2>2. CASE x = Result
    BY <1>4, <1>5, <1>6, <1>9, <2>1, <2>2, SharedContainerAssumption DEF HandleSound
  <2>3. CASE x # Result
    <3>1. HandleSound(copy, x) /\ set.handle[x] = copy.handle[x]
      BY <1>6, <1>8, <2>3
    <3>2. copy.handle[x] \in [data : Data \cup {Null}, refCountPtr : Data \cup {Null}]
      BY <1>3
    <3> QED
      BY <1>5, <1>6, <1>9, <2>1, <3>1, <3>2 DEF HandleSound
  <2> QED
    BY <2>2, <2>3
<1>12. \A x \in Data : DataSound(set, x)
  <2> TAKE x \in Data
  <2>1. DataSound(copy, x) /\ copy.family[x] \in Data \cup {Null}
    BY <1>3, <1>8
  <2>2. CASE x = d
    BY <1>4, <1>5, <1>6, <1>9, <2>2, SharedContainerAssumption DEF DataSound
  <2>3. CASE x # d
    BY <1>4, <1>5, <1>6, <1>9, <2>1, <2>3, SharedContainerAssumption DEF DataSound
  <2> QED
    BY <2>2, <2>3
<1>13. \A x \in Data : set.family[x] = x /\ Sharing(set, Object, x) = {} => FreedOne(set, x)
  <2> SUFFICES ASSUME NEW x \in Data, set.family[x] = x, Sharing(set, Object, x) = {}
               PROVE  FreedOne(set, x)
    OBVIOUS
  <2>1. x # c
    BY <1>1, <1>3, <1>10 DEF Sharing
  <2>2. FreedOne(copy, x)
    BY <1>6, <1>8, <1>9, <1>10, <2>1
  <2>3. {y \in Data : set.family[y] = x /\ set.destructed[y] = 1}
          = {y \in Data : copy.family[y] = x /\ copy.destructed[y] = 1}
    BY <1>5, <1>6, <1>9, <2>1
  <2> QED
    BY <2>2, <2>3 DEF FreedOne
<1> QED
  BY <1>1, <1>5, <1>7, <1>8, <1>10, <1>11, <1>12, <1>13 DEF Counted, set

LEMMA ContainersInit == InitContainers => ContainersInv
<1> SUFFICES ASSUME InitContainers PROVE ContainersInv
  OBVIOUS
<1>1. /\ heap.handle = [h \in Object |-> NullHandle] /\ heap.refCount = [d \in Data |-> 0]
      /\ heap.destructed = [d \in Data |-> 0] /\ heap.family = [d \in Data |-> Null]
      /\ heap \in HeapType
  BY DEF InitContainers, HeapType, Object, NullHandle
<1>2. \A d \in Data : Sharing(heap, Object, d) = {}
  BY <1>1, SharedContainerAssumption DEF Sharing, NullHandle
<1>3. \A d \in Data : heap.refCount[d] = Cardinality(Sharing(heap, Object, d))
  BY <1>1, <1>2, FS_EmptySet
<1>4. \A h \in Object : HandleSound(heap, h)
  BY <1>1 DEF HandleSound, NullHandle
<1>5. \A d \in Data : DataSound(heap, d) /\ heap.family[d] # d
  BY <1>1, SharedContainerAssumption DEF DataSound
<1> QED
  BY <1>1, <1>3, <1>4, <1>5 DEF ContainersInv, Counted, Object

\* What a provider allocates has the counter its first handle made for it.
LEMMA CreateCounted ==
  ASSUME ContainersInv, ~heap.thrown, NEW h \in Handle, NEW d \in Data, Create(h, d)
  PROVE  ContainersInv'
<1> DEFINE s == [heap EXCEPT !.handle[Result] = [data |-> d, refCountPtr |-> d],
                             !.refCount[d] = 1,
                             !.family[d] = d]
<1>1. /\ heap \in HeapType /\ Result \in Object
      /\ heap.handle \in [Object -> [data : Data \cup {Null}, refCountPtr : Data \cup {Null}]]
      /\ heap.refCount \in [Data -> Nat] /\ heap.destructed \in [Data -> Nat]
      /\ heap.family \in [Data -> Data \cup {Null}]
      /\ heap.handle[Result] = NullHandle /\ heap.family[d] = Null
  BY DEF ContainersInv, Counted, HeapType, Object, Create
<1>2. /\ \A x \in Object : HandleSound(heap, x)
      /\ \A x \in Data : DataSound(heap, x)
      /\ \A x \in Data : heap.refCount[x] = Cardinality(Sharing(heap, Object, x))
      /\ \A x \in Data : heap.family[x] = x /\ Sharing(heap, Object, x) = {} => FreedOne(heap, x)
  BY DEF ContainersInv, Counted
<1>3. /\ s.destructed = heap.destructed /\ s.thrown = heap.thrown
      /\ s.refCount = [heap.refCount EXCEPT ![d] = 1]
      /\ s.family = [heap.family EXCEPT ![d] = d]
      /\ s.handle = [heap.handle EXCEPT ![Result] = [data |-> d, refCountPtr |-> d]]
      /\ s = [handle |-> s.handle, refCount |-> s.refCount, destructed |-> s.destructed,
              family |-> s.family, thrown |-> s.thrown]
  <2>1. s = [heap EXCEPT !.handle = [heap.handle EXCEPT ![Result] = [data |-> d, refCountPtr |-> d]],
                         !.refCount = [heap.refCount EXCEPT ![d] = 1],
                         !.family = [heap.family EXCEPT ![d] = d]]
    BY <1>1 DEF HeapType
  <2> HIDE DEF s
  <2> QED
    BY <1>1, <2>1 DEF HeapType
<1>4. heap' = give(s, h)
  BY DEF Create
<1> HIDE DEF s
<1>5. /\ s.handle[Result] = [data |-> d, refCountPtr |-> d]
      /\ \A f \in Object \ {Result} : s.handle[f] = heap.handle[f]
      /\ s.family[d] = d /\ \A x \in Data \ {d} : s.family[x] = heap.family[x]
      /\ s.refCount[d] = 1 /\ \A x \in Data \ {d} : s.refCount[x] = heap.refCount[x]
  BY <1>1, <1>3
<1>6. s \in HeapType
  <2>1. s.handle \in [Object -> [data : Data \cup {Null}, refCountPtr : Data \cup {Null}]]
    BY <1>1, <1>3
  <2>2. s.refCount \in [Data -> Nat] /\ s.family \in [Data -> Data \cup {Null}]
    BY <1>1, <1>3
  <2> QED
    BY <1>1, <1>3, <2>1, <2>2 DEF HeapType
<1>7. /\ \A x \in Data : heap.family[x] # d
      /\ heap.destructed[d] = 0
  BY <1>1, <1>2, SharedContainerAssumption DEF DataSound
<1>8. \A x \in Object : heap.handle[x].refCountPtr # d
  <2> TAKE x \in Object
  <2>1. HandleSound(heap, x) /\ heap.handle[x] \in [data : Data \cup {Null}, refCountPtr : Data \cup {Null}]
    BY <1>1, <1>2
  <2> QED
    BY <1>7, <2>1, SharedContainerAssumption DEF HandleSound
<1>9. /\ Sharing(s, Object, d) = {Result}
      /\ \A x \in Data \ {d} : Sharing(s, Object, x) = Sharing(heap, Object, x)
  <2>1. Sharing(s, Object, d) = {Result}
    BY <1>1, <1>5, <1>8 DEF Sharing
  <2>2. \A x \in Data \ {d} : Sharing(s, Object, x) = Sharing(heap, Object, x)
    BY <1>1, <1>5, SharedContainerAssumption DEF Sharing, NullHandle
  <2> QED
    BY <2>1, <2>2
<1>10. \A x \in Data : s.refCount[x] = Cardinality(Sharing(s, Object, x))
  <2>1. Cardinality({Result}) = 1
    BY FS_Singleton
  <2> QED
    BY <1>2, <1>5, <1>9, <2>1
<1>11. \A x \in Object : HandleSound(s, x)
  <2> TAKE x \in Object
  <2>1. CASE x = Result
    BY <1>3, <1>5, <1>7, <2>1, SharedContainerAssumption DEF HandleSound
  <2>2. CASE x # Result
    <3>1. /\ HandleSound(heap, x) /\ s.handle[x] = heap.handle[x]
          /\ heap.handle[x] \in [data : Data \cup {Null}, refCountPtr : Data \cup {Null}]
      BY <1>1, <1>2, <1>5, <2>2
    <3> QED
      BY <1>1, <1>3, <1>5, <1>7, <1>8, <3>1 DEF HandleSound
  <2> QED
    BY <2>1, <2>2
<1>12. \A x \in Data : DataSound(s, x)
  <2> TAKE x \in Data
  <2>1. DataSound(heap, x)
    BY <1>2
  <2>2. CASE x = d
    BY <1>3, <1>5, <1>7, <2>2, SharedContainerAssumption DEF DataSound
  <2>3. CASE x # d
    BY <1>1, <1>3, <1>5, <1>7, <2>1, <2>3, SharedContainerAssumption DEF DataSound
  <2> QED
    BY <2>2, <2>3
<1>13. \A x \in Data : s.family[x] = x /\ Sharing(s, Object, x) = {} => FreedOne(s, x)
  <2> SUFFICES ASSUME NEW x \in Data, s.family[x] = x, Sharing(s, Object, x) = {}
               PROVE  FreedOne(s, x)
    OBVIOUS
  <2>1. x # d /\ FreedOne(heap, x)
    BY <1>2, <1>5, <1>9
  <2>2. {y \in Data : s.family[y] = x /\ s.destructed[y] = 1}
          = {y \in Data : heap.family[y] = x /\ heap.destructed[y] = 1}
    BY <1>1, <1>3, <1>5, <2>1, SharedContainerAssumption
  <2> QED
    BY <2>1, <2>2 DEF FreedOne
<1>14. Counted(s, Object) /\ ~s.thrown
  BY <1>3, <1>6, <1>10, <1>11, <1>12, <1>13 DEF Counted
<1>15. Counted(heap', Object) /\ heap'.handle[Result] = NullHandle
  BY <1>4, <1>14, GiveCounted
<1> QED
  BY <1>15 DEF ContainersInv

LEMMA ContainersStep ==
  ASSUME ContainersInv, [NextContainers]_containerVars
  PROVE  ContainersInv'
<1>1. Counted(heap, Object) /\ heap.handle[Result] = NullHandle
  BY DEF ContainersInv
<1>2. Handle \subseteq Object \ {Result} /\ Result \in Object
  BY SharedContainerAssumption DEF Object
<1> SUFFICES Counted(heap', Object) /\ heap'.handle[Result] = NullHandle
  BY DEF ContainersInv
<1>3. CASE UNCHANGED containerVars
  BY <1>1, <1>3 DEF containerVars
<1>4. ASSUME ~heap.thrown, NEW h \in Handle, NEW d \in Data, Create(h, d)
      PROVE  Counted(heap', Object) /\ heap'.handle[Result] = NullHandle
  BY <1>4, CreateCounted DEF ContainersInv
<1>5. ASSUME ~heap.thrown, NEW h \in Handle, NEW g \in Handle, Assign(h, g)
      PROVE  Counted(heap', Object) /\ heap'.handle[Result] = NullHandle
  <2>1. heap' = assign(heap, h, g) /\ h \in Object /\ g \in Object /\ Result \in Object \ {h}
    BY <1>2, <1>5 DEF Assign
  <2> QED
    BY <1>1, <1>5, <2>1, AssignCounted
<1>6. ASSUME NEW h \in Handle, Destroy(h)
      PROVE  Counted(heap', Object) /\ heap'.handle[Result] = NullHandle
  <2>1. heap' = destroy(heap, h) /\ h \in Object /\ Result \in Object \ {h}
    BY <1>2, <1>6 DEF Destroy
  <2> QED
    BY <1>1, <2>1, DestroyCounted
<1>7. ASSUME ~heap.thrown, NEW h \in Handle, NEW g \in Handle, NEW d \in Data, Derive(h, g, d)
      PROVE  Counted(heap', Object) /\ heap'.handle[Result] = NullHandle
  <2>1. Counted(derived(g, d), Object) /\ ~derived(g, d).thrown
    BY <1>7, DerivedCounted DEF Derive
  <2> QED
    BY <1>7, <2>1, GiveCounted DEF Derive
<1>8. ASSUME ~heap.thrown, NEW h \in Handle, NEW g \in Handle, NEW term \in Handle,
             NEW d \in Data, Blit(h, g, term, d)
      PROVE  Counted(heap', Object) /\ heap'.handle[Result] = NullHandle
  <2>1. CASE heap.handle[g].data = Null
    <3>1. heap' = give(heap, h)
      BY <1>8, <2>1 DEF Blit
    <3> QED
      BY <1>1, <1>8, <3>1, GiveCounted
  <2>2. CASE heap.handle[g].data # Null /\ heap.handle[term].data = Null
    <3>1. heap' = give(assign(heap, Result, g), h)
      BY <1>8, <2>2 DEF Blit
    <3>2. /\ Counted(assign(heap, Result, g), Object)
          /\ ~assign(heap, Result, g).thrown
      BY <1>1, <1>2, <1>8, AssignCounted
    <3> QED
      BY <3>1, <3>2, GiveCounted
  <2>3. CASE heap.handle[g].data # Null /\ heap.handle[term].data # Null
    <3>1. heap' = give(derived(g, d), h)
      BY <1>8, <2>3 DEF Blit
    <3>2. Counted(derived(g, d), Object) /\ ~derived(g, d).thrown
      BY <1>8, <2>3, DerivedCounted DEF Blit
    <3> QED
      BY <3>1, <3>2, GiveCounted
  <2> QED
    BY <2>1, <2>2, <2>3
<1> QED
  BY <1>3, <1>4, <1>5, <1>6, <1>7, <1>8 DEF NextContainers

(***************************************************************************)
(* Of the data a family of counted handles went through exactly one is     *)
(* freed, once, with the last of its handles, and nothing before that: for *)
(* any number of handles, images and derivations (sharedcontainer.cpp).    *)
(***************************************************************************)
THEOREM FreedOnce == SpecContainers => []FreedWithLastHandle
<1>1. ContainersInv => FreedWithLastHandle
  <2> SUFFICES ASSUME ContainersInv PROVE FreedWithLastHandle
    OBVIOUS
  <2>1. /\ Handle \subseteq Object /\ heap \in HeapType
        /\ heap.destructed \in [Data -> Nat]
        /\ heap.handle \in [Object -> [data : Data \cup {Null}, refCountPtr : Data \cup {Null}]]
        /\ \A h \in Object : HandleSound(heap, h)
        /\ \A d \in Data : DataSound(heap, d)
        /\ \A d \in Data : heap.refCount[d] = Cardinality(Sharing(heap, Object, d))
        /\ \A d \in Data : heap.family[d] = d /\ Sharing(heap, Object, d) = {} => FreedOne(heap, d)
    BY DEF ContainersInv, Counted, HeapType, Object
  <2>2. \A d \in Data : Sharing(heap, Object, d) = Family(d)
    BY SharedContainerAssumption DEF ContainersInv, Sharing, Family, Object, NullHandle
  <2>3. ASSUME NEW h \in Handle, heap.handle[h].data # Null
        PROVE  heap.destructed[heap.handle[h].data] =
                 IF heap.handle[h].refCountPtr = Null THEN 1 ELSE 0
    <3>1. heap.handle[h] \in [data : Data \cup {Null}, refCountPtr : Data \cup {Null}]
      BY <2>1
    <3> QED
      BY <2>1, <2>3, <3>1 DEF HandleSound
  <2>4. ASSUME NEW d \in Data
        PROVE  /\ heap.refCount[d] = Cardinality(Family(d))
               /\ heap.destructed[d] <= 1
               /\ (heap.family[d] = d /\ Family(d) = {}) => FreedOne(heap, d)
    BY <2>1, <2>2 DEF DataSound
  <2> QED
    BY <2>3, <2>4 DEF FreedWithLastHandle, FreedOne
<1> QED
  BY <1>1, ContainersInit, ContainersStep, PTL DEF SpecContainers

-----------------------------------------------------------------------------
(* PriorityProcedure: every function is called once and in order *)

Procedure == [priority : Int, index : Int, id : Nat]

\* What has been pushed since exec ended last, in the order of the ids.
Batch == {p \in Procedure : p.id \in settled + 1 .. pushed /\ p.index = p.id - settled - 1}

\* Every entry of s that is there goes behind p or is p.
First(p, s) == \A q \in s \ {p} : before(p, q)

ProceduresTyped ==
  /\ pushed \in Nat /\ settled \in 0 .. pushed /\ m_index = pushed - settled
  /\ m_queue \subseteq Batch
  /\ \A p, q \in m_queue : p.id = q.id => p = q
  /\ executing \in BOOLEAN /\ disturbed \in BOOLEAN
  /\ ~executing => called = NoProcedure
  /\ executing => ran \in Seq(Batch)

\* The queue has a front, whatever is taken off it.
Fronted == \A s \in SUBSET m_queue : s # {} => \E p \in s : First(p, s)

(***************************************************************************)
(* While no function has pushed one that goes before itself, the one that  *)
(* is called is the front of the queue and the last to be called so far,   *)
(* and everything called before goes before what the queue still has.      *)
(***************************************************************************)
InTurn ==
  /\ \A i, j \in DOMAIN ran : i < j => before(ran[i], ran[j])
  /\ \A i \in DOMAIN ran : \A q \in m_queue \ {called} : before(ran[i], q)
  /\ called = NoProcedure => \A i \in DOMAIN ran : ran[i] \notin m_queue
  /\ called # NoProcedure => /\ called \in m_queue
                             /\ ran # <<>> /\ called = ran[Len(ran)]
  /\ \A id \in settled + 1 .. pushed : \E p \in m_queue \cup Range(ran) : p.id = id

ProceduresInv ==
  /\ ProceduresTyped
  /\ Fronted
  /\ executing /\ ~disturbed => InTurn
  /\ ~executing => \A id \in settled + 1 .. pushed : \E p \in m_queue : p.id = id

\* operator< compares priorities and then indices: it orders what is pushed.
LEMMA BeforeOrders ==
  ASSUME NEW p \in Procedure, NEW q \in Procedure
  PROVE  /\ before(p, q) => ~before(q, p) /\ p # q
         /\ p.index # q.index => before(p, q) \/ before(q, p)
         /\ \A r \in Procedure : before(p, q) /\ before(q, r) => before(p, r)
  BY DEF before, Procedure

\* The front of a queue that is not empty.
LEMMA FrontIsFirst ==
  ASSUME ProceduresTyped, Fronted, m_queue # {}
  PROVE  front \in m_queue /\ First(front, m_queue)
<1>1. \E p \in m_queue : \A q \in m_queue \ {p} : before(p, q)
  BY DEF Fronted, First
<1> QED
  BY <1>1 DEF front, First

LEMMA PushKeeps ==
  ASSUME ProceduresInv, NEW priority \in Priority, pushProcedure(priority)
  PROVE  ProceduresInv'
<1> DEFINE e == [priority |-> priority, index |-> m_index, id |-> pushed + 1]
<1>1. /\ ProceduresTyped /\ Fronted /\ (executing /\ ~disturbed => InTurn)
      /\ ~executing => \A id \in settled + 1 .. pushed : \E p \in m_queue : p.id = id
  BY DEF ProceduresInv
<1>2. /\ pushed' = pushed + 1 /\ m_queue' = m_queue \cup {e} /\ m_index' = m_index + 1
      /\ UNCHANGED <<executing, called, ran, settled>>
      /\ executing => called # NoProcedure
      /\ disturbed' = (disturbed \/ (executing /\ before(e, called)))
  BY DEF pushProcedure
<1>3. e \in Procedure /\ e.id = pushed + 1 /\ e.index = pushed - settled
      /\ pushed \in Nat /\ settled \in 0 .. pushed
  BY <1>1, PriorityProcedureAssumption DEF ProceduresTyped, Procedure
<1> HIDE DEF e
<1>4. e \in Batch' /\ Batch \subseteq Batch'
  BY <1>2, <1>3 DEF Batch, Procedure
<1>5. \A p \in Batch : p \in Procedure /\ p.id < e.id /\ p.index < e.index
  BY <1>3 DEF Batch, Procedure
<1>6. ProceduresTyped'
  <2>1. executing' => ran' \in Seq(Batch')
    <3> SUFFICES ASSUME executing PROVE ran \in Seq(Batch')
      BY <1>2
    <3>1. ran \in Seq(Batch)
      BY <1>1 DEF ProceduresTyped
    <3> QED
      BY <1>4, <3>1, SeqDef
  <2>2. \A p, q \in m_queue' : p.id = q.id => p = q
    BY <1>1, <1>2, <1>3, <1>5 DEF ProceduresTyped, Procedure
  <2>3. m_queue' \subseteq Batch'
    BY <1>1, <1>2, <1>4 DEF ProceduresTyped
  <2>4. disturbed' \in BOOLEAN
    BY <1>1, <1>2 DEF ProceduresTyped
  <2> QED
    BY <1>1, <1>2, <1>3, <2>1, <2>2, <2>3, <2>4 DEF ProceduresTyped
<1>7. Fronted'
  <2> SUFFICES ASSUME NEW s \in SUBSET (m_queue \cup {e}), s # {}
               PROVE  \E p \in s : First(p, s)
    BY <1>2 DEF Fronted, First, before
  <2>1. CASE s \subseteq m_queue
    BY <1>1, <2>1 DEF Fronted
  <2>2. CASE s = {e}
    BY <2>2 DEF First
  <2>3. CASE e \in s /\ s # {e}
    <3> DEFINE r == s \ {e}
    <3>1. PICK p \in r : First(p, r)
      <4>1. r \in SUBSET m_queue /\ r # {}
        BY <2>3
      <4> QED
        BY <1>1, <4>1 DEF Fronted
    <3>2. /\ p \in Batch /\ r \subseteq Batch
      BY <1>1 DEF ProceduresTyped
    <3>3. CASE before(p, e)
      BY <3>1, <3>3 DEF First
    <3>4. CASE ~before(p, e)
      <4>1. before(e, p)
        BY <1>3, <1>5, <3>2, <3>4, BeforeOrders DEF Procedure
      <4>2. \A q \in r : before(e, q)
        BY <1>3, <1>5, <3>1, <3>2, <4>1, BeforeOrders DEF First
      <4> QED
        BY <2>3, <4>2 DEF First
    <3> QED
      BY <3>3, <3>4
  <2> QED
    BY <2>1, <2>2, <2>3
<1>8. ASSUME executing, ~disturbed'
      PROVE  InTurn'
  <2>1. InTurn /\ ~before(e, called) /\ called # NoProcedure
    BY <1>1, <1>2, <1>8 DEF ProceduresTyped
  <2>2. /\ ran \in Seq(Batch) /\ called \in m_queue /\ called \in Batch /\ m_queue \subseteq Batch
        /\ ran # <<>> /\ called = ran[Len(ran)]
    BY <1>1, <1>8, <2>1 DEF InTurn, ProceduresTyped
  <2>3. before(called, e)
    BY <1>3, <1>5, <2>1, <2>2, BeforeOrders DEF Procedure
  <2>4. \A i \in DOMAIN ran : ran[i] = called \/ before(ran[i], called)
    <3> TAKE i \in DOMAIN ran
    <3>1. i \in Nat /\ Len(ran) \in DOMAIN ran /\ (i < Len(ran) \/ i = Len(ran))
      BY <2>2
    <3> QED
      BY <2>1, <2>2, <3>1 DEF InTurn
  <2>5. \A i \in DOMAIN ran : before(ran[i], e)
    <3> TAKE i \in DOMAIN ran
    <3>1. ran[i] \in Batch
      BY <2>2
    <3> QED
      BY <1>3, <1>5, <2>2, <2>3, <2>4, <3>1, BeforeOrders
  <2>6. \A id \in settled + 1 .. pushed + 1 : \E p \in m_queue \cup {e} \cup Range(ran) : p.id = id
    <3> TAKE id \in settled + 1 .. pushed + 1
    <3>1. id \in settled + 1 .. pushed \/ id = e.id
      BY <1>3
    <3> QED
      BY <2>1, <3>1 DEF InTurn
  <2>7. m_queue' \ {called'} \subseteq (m_queue \ {called}) \cup {e}
    BY <1>2
  <2>8. /\ \A i, j \in DOMAIN ran' : i < j => before(ran'[i], ran'[j])
        /\ \A i \in DOMAIN ran' : \A q \in m_queue' \ {called'} : before(ran'[i], q)
    BY <1>2, <2>1, <2>5, <2>7 DEF InTurn
  <2>9. \A id \in settled' + 1 .. pushed' : \E p \in m_queue' \cup Range(ran') : p.id = id
    BY <1>2, <2>6
  <2> QED
    BY <1>2, <2>1, <2>2, <2>8, <2>9 DEF InTurn, before
<1>9. ASSUME ~executing
      PROVE  \A id \in settled + 1 .. pushed + 1 : \E p \in m_queue \cup {e} : p.id = id
  <2> TAKE id \in settled + 1 .. pushed + 1
  <2>1. id \in settled + 1 .. pushed \/ id = e.id
    BY <1>3
  <2> QED
    BY <1>1, <1>9, <2>1
<1> QED
  BY <1>2, <1>6, <1>7, <1>8, <1>9 DEF ProceduresInv

LEMMA ExecKeeps ==
  ASSUME ProceduresInv, execBegin \/ execCall \/ execPop \/ execEnd
  PROVE  ProceduresInv'
<1>1. /\ ProceduresTyped /\ Fronted /\ (executing /\ ~disturbed => InTurn)
      /\ ~executing => \A id \in settled + 1 .. pushed : \E p \in m_queue : p.id = id
  BY DEF ProceduresInv
<1>2. CASE execBegin
  <2>1. /\ ~executing /\ executing' /\ ran' = <<>> /\ ~disturbed' /\ called = NoProcedure
        /\ UNCHANGED <<m_queue, m_index, pushed, called, settled>>
    BY <1>1, <1>2 DEF execBegin, ProceduresTyped
  <2>2. ProceduresTyped'
    <3>1. Batch' = Batch /\ <<>> \in Seq(Batch)
      BY <2>1 DEF Batch
    <3> QED
      BY <1>1, <1>2, <2>1, <3>1 DEF ProceduresTyped, execBegin
  <2>3. Fronted'
    BY <1>1, <2>1 DEF Fronted, First, before
  <2>4. InTurn'
    BY <1>1, <2>1 DEF InTurn
  <2> QED
    BY <1>2, <2>1, <2>2, <2>3, <2>4 DEF ProceduresInv, execBegin
<1>3. CASE execCall
  <2>1. /\ executing /\ called = NoProcedure /\ called' = front /\ ran' = Append(ran, front)
        /\ UNCHANGED <<m_queue, m_index, pushed, executing, settled, disturbed>>
        /\ front \in m_queue /\ First(front, m_queue)
    BY <1>1, <1>3, FrontIsFirst DEF execCall
  <2>2. /\ Batch' = Batch /\ front \in Batch /\ ran \in Seq(Batch) /\ ran' \in Seq(Batch)
    BY <1>1, <2>1 DEF Batch, ProceduresTyped
  <2>3. front # NoProcedure
    BY <1>1, <2>2 DEF Batch, NoProcedure, ProceduresTyped
  <2>4. ProceduresTyped'
    BY <1>1, <2>1, <2>2 DEF ProceduresTyped
  <2>5. Fronted'
    BY <1>1, <2>1 DEF Fronted, First, before
  <2>6. ASSUME ~disturbed
        PROVE  InTurn'
    <3>1. InTurn
      BY <1>1, <2>1, <2>6
    <3>2. /\ Len(ran') = Len(ran) + 1 /\ DOMAIN ran' = 1 .. Len(ran) + 1 /\ Len(ran) \in Nat
          /\ DOMAIN ran = 1 .. Len(ran)
          /\ ran'[Len(ran) + 1] = front /\ \A i \in DOMAIN ran : ran'[i] = ran[i]
      BY <2>1, <2>2
    <3>3. \A i \in DOMAIN ran : before(ran[i], front)
      <4>1. \A i \in DOMAIN ran : \A q \in m_queue \ {called} : before(ran[i], q)
        BY <3>1 DEF InTurn
      <4> QED
        BY <2>1, <2>3, <4>1
    <3>4. \A i, j \in DOMAIN ran' : i < j => before(ran'[i], ran'[j])
      <4> TAKE i, j \in DOMAIN ran'
      <4>1. i \in 1 .. Len(ran) + 1 /\ j \in 1 .. Len(ran) + 1
        BY <3>2
      <4>2. i < j => i \in DOMAIN ran /\ (j \in DOMAIN ran \/ j = Len(ran) + 1)
        BY <3>2, <4>1
      <4> QED
        BY <3>1, <3>2, <3>3, <4>2 DEF InTurn
    <3>5. \A i \in DOMAIN ran' : \A q \in m_queue \ {front} : before(ran'[i], q)
      <4> TAKE i \in DOMAIN ran'
      <4>1. i \in DOMAIN ran \/ i = Len(ran) + 1
        BY <3>2
      <4>2. CASE i \in DOMAIN ran
        <5>1. \A q \in m_queue \ {called} : before(ran[i], q)
          BY <3>1, <4>2 DEF InTurn
        <5>2. called \notin m_queue
          BY <1>1, <2>1 DEF ProceduresTyped, Batch, NoProcedure
        <5> QED
          BY <3>2, <4>2, <5>1, <5>2
      <4>3. CASE i = Len(ran) + 1
        BY <2>1, <3>2, <4>3 DEF First
      <4> QED
        BY <4>1, <4>2, <4>3
    <3>6. Range(ran) \subseteq Range(ran')
      BY <3>2 DEF Range
    <3>7. \A id \in settled + 1 .. pushed : \E p \in m_queue \cup Range(ran') : p.id = id
      BY <3>1, <3>6 DEF InTurn
    <3>8. ran' # <<>> /\ ran'[Len(ran')] = front
      BY <2>1, <2>2, <3>2
    <3> HIDE DEF front
    <3> QED
      BY <2>1, <2>3, <3>4, <3>5, <3>7, <3>8 DEF InTurn
  <2> QED
    BY <2>1, <2>4, <2>5, <2>6 DEF ProceduresInv
<1>4. CASE execPop
  <2>1. /\ executing /\ called # NoProcedure /\ m_queue' = m_queue \ {front} /\ called' = NoProcedure
        /\ UNCHANGED <<m_index, pushed, executing, ran, settled, disturbed>>
    BY <1>1, <1>4 DEF execPop, ProceduresTyped
  <2>2. Batch' = Batch
    BY <2>1 DEF Batch
  <2>3. ProceduresTyped'
    BY <1>1, <2>1, <2>2 DEF ProceduresTyped
  <2>4. Fronted'
    BY <1>1, <2>1 DEF Fronted, First, before
  <2>5. ASSUME ~disturbed
        PROVE  InTurn'
    <3>1. InTurn
      BY <1>1, <2>1, <2>5
    <3>2. called \in m_queue /\ called \in Range(ran) /\ ran \in Seq(Batch) /\ m_queue \subseteq Batch
          /\ ran # <<>> /\ called = ran[Len(ran)] /\ Len(ran) \in DOMAIN ran
      BY <1>1, <2>1, <3>1 DEF InTurn, ProceduresTyped, Range
    <3>3. \A q \in m_queue \ {called} : before(called, q)
      BY <3>1, <3>2 DEF InTurn
    <3>4. front = called
      <4>1. front \in m_queue /\ First(front, m_queue)
        BY <1>1, <3>2, FrontIsFirst
      <4>2. front \in Procedure /\ called \in Procedure
        BY <3>2, <4>1 DEF Batch
      <4> QED
        BY <3>2, <3>3, <4>1, <4>2, BeforeOrders DEF First
    <3>5. \A i \in DOMAIN ran : ran[i] \notin m_queue'
      <4> SUFFICES ASSUME NEW i \in DOMAIN ran, ran[i] \in m_queue \ {called}
                   PROVE  FALSE
        BY <2>1, <3>4
      <4>1. before(ran[i], ran[i])
        BY <3>1 DEF InTurn
      <4>2. ran[i] \in Procedure
        BY <3>2 DEF Batch
      <4> QED
        BY <4>1, <4>2, BeforeOrders
    <3>6. \A id \in settled + 1 .. pushed : \E p \in m_queue' \cup Range(ran) : p.id = id
      BY <2>1, <3>1, <3>2, <3>4 DEF InTurn
    <3>7. \A i \in DOMAIN ran : \A q \in m_queue' \ {called'} : before(ran[i], q)
      BY <2>1, <3>1, <3>4 DEF InTurn
    <3> QED
      BY <2>1, <3>1, <3>5, <3>6, <3>7 DEF InTurn, before
  <2> QED
    BY <2>1, <2>3, <2>4, <2>5 DEF ProceduresInv
<1>5. CASE execEnd
  <2>1. /\ ~executing' /\ called' = NoProcedure /\ m_queue' = {} /\ m_index' = 0
        /\ settled' = pushed /\ pushed' = pushed /\ pushed \in Nat /\ disturbed' \in BOOLEAN
    BY <1>1, <1>5 DEF execEnd, ProceduresTyped
  <2>2. ProceduresTyped'
    <3>1. settled' \in 0 .. pushed' /\ m_index' = pushed' - settled' /\ pushed' \in Nat
      BY <2>1
    <3>2. executing' \in BOOLEAN /\ m_queue' \subseteq Batch'
      BY <1>5, <2>1 DEF execEnd
    <3> QED
      BY <2>1, <3>1, <3>2 DEF ProceduresTyped
  <2>3. Fronted'
    BY <2>1 DEF Fronted
  <2>4. settled' + 1 .. pushed' = {}
    BY <2>1
  <2> QED
    BY <2>1, <2>2, <2>3, <2>4 DEF ProceduresInv
<1> QED
  BY <1>2, <1>3, <1>4, <1>5

LEMMA ProceduresInit == InitProcedures => ProceduresInv
<1> SUFFICES ASSUME InitProcedures PROVE ProceduresInv
  OBVIOUS
<1>1. /\ pushed = 0 /\ settled = 0 /\ m_index = 0 /\ m_queue = {} /\ executing = FALSE
      /\ disturbed = FALSE /\ called = NoProcedure
  BY DEF InitProcedures
<1>2. settled + 1 .. pushed = {} /\ settled \in 0 .. pushed /\ pushed \in Nat
  BY <1>1
<1>3. ProceduresTyped
  <2>1. m_index = pushed - settled
    BY <1>1
  <2>2. executing \in BOOLEAN /\ disturbed \in BOOLEAN /\ m_queue \subseteq Batch
    BY <1>1
  <2> QED
    BY <1>1, <1>2, <2>1, <2>2 DEF ProceduresTyped
<1> QED
  BY <1>1, <1>2, <1>3 DEF ProceduresInv, Fronted

LEMMA ProceduresStep ==
  ASSUME ProceduresInv, [NextProcedures]_procedureVars
  PROVE  ProceduresInv'
<1>1. CASE UNCHANGED procedureVars
  BY <1>1 DEF procedureVars, ProceduresInv, ProceduresTyped, Fronted, First, before,
              InTurn, Batch
<1> QED
  BY <1>1, PushKeeps, ExecKeeps DEF NextProcedures

(***************************************************************************)
(* Queue::exec calls each function once and in order, unless one pushes a  *)
(* function that goes before itself: for any priorities and any number of  *)
(* pushes, before and during exec (utility/priorityprocedure.cpp).         *)
(***************************************************************************)
THEOREM ProceduresInOrder == SpecProcedures => []EachOnceInOrder
<1>1. ProceduresInv => EachOnceInOrder
  <2> SUFFICES ASSUME ProceduresInv, executing, ~disturbed
               PROVE  /\ \A i, j \in DOMAIN ran : i < j =>
                           \/ ran[i].priority < ran[j].priority
                           \/ ran[i].priority = ran[j].priority /\ ran[i].id < ran[j].id
                      /\ \A i \in DOMAIN ran : ran[i] \in m_queue => ran[i] = called
                      /\ \A id \in settled + 1 .. pushed :
                           \E p \in m_queue \cup Range(ran) : p.id = id
    BY DEF EachOnceInOrder
  <2>1. InTurn /\ ran \in Seq(Batch) /\ m_queue \subseteq Batch /\ pushed \in Nat /\ settled \in 0 .. pushed
    BY DEF ProceduresInv, ProceduresTyped
  <2>2. ASSUME NEW i \in DOMAIN ran, NEW j \in DOMAIN ran, i < j
        PROVE  \/ ran[i].priority < ran[j].priority
               \/ ran[i].priority = ran[j].priority /\ ran[i].id < ran[j].id
    <3>1. before(ran[i], ran[j]) /\ ran[i] \in Batch /\ ran[j] \in Batch
      BY <2>1, <2>2 DEF InTurn
    <3> QED
      BY <2>1, <3>1 DEF before, Batch, Procedure
  <2>3. ASSUME NEW i \in DOMAIN ran, ran[i] \in m_queue
        PROVE  ran[i] = called
    <3>1. ran[i] # called => before(ran[i], ran[i])
      BY <2>1, <2>3 DEF InTurn
    <3>2. ran[i] \in Procedure
      BY <2>1 DEF Batch
    <3> QED
      BY <3>1, <3>2, BeforeOrders
  <2>4. \A id \in settled + 1 .. pushed : \E p \in m_queue \cup Range(ran) : p.id = id
    BY <2>1 DEF InTurn
  <2> QED
    BY <2>2, <2>3, <2>4
<1> QED
  BY <1>1, ProceduresInit, ProceduresStep, PTL DEF SpecProcedures

-----------------------------------------------------------------------------
(* AudioPlayer: its channel sounds as its state says *)

\* The types SoundsAsItsState rests on; with it they are inductive.
AudioTyped ==
  /\ m_state \in {"Idle", "Beginning", "Loop", "Ending"}
  /\ m_volume \in Nat
  /\ m_distance_volume \in Nat
  /\ channel \in [valid : BOOLEAN, sounding : Sample \cup {Silence}, volume : Nat]

\* An invalid channel never sounds, and a player in its loop has one to play.
AudioInv ==
  /\ AudioTyped
  /\ SoundsAsItsState
  /\ ~channel.valid => ~isPlaying
  /\ m_state = "Loop" => "Loop" \in samples

(***************************************************************************)
(* What AudioChannel::play leaves in a channel of a program: its volume is *)
(* what the player's volume and distance make of it, and it sounds as told *)
(* if that is heard and the sample is there.                               *)
(***************************************************************************)
LEMMA PlayingResult ==
  ASSUME AudioTyped, NEW sample \in Sample
  PROVE  /\ playing(sample) \in
              [valid : BOOLEAN, sounding : Sample \cup {Silence}, volume : Nat]
         /\ playing(sample).valid = channel.valid
         /\ channel.valid =>
              /\ (playing(sample).volume > 0 /\ sample \in samples)
                    => playing(sample).sounding = sample
              /\ playing(sample).sounding \in {sample, channel.sounding}
         /\ ~channel.valid => playing(sample) = channel
<1> DEFINE v == m_volume * m_distance_volume
<1>1. v \in Nat
  BY DEF AudioTyped
<1>2. CASE ~channel.valid
  BY <1>2 DEF playing, AudioTyped
<1>3. CASE channel.valid
  <2> DEFINE heard == v > 0 /\ sample \in samples
  <2>1. playing(sample) = [channel EXCEPT !.volume = v,
                             !.sounding = IF heard THEN sample ELSE @]
    BY <1>3 DEF playing
  <2> HIDE DEF v
  <2>2. QED
    BY <1>1, <1>3, <2>1 DEF AudioTyped
<1>4. QED
  BY <1>2, <1>3

(***************************************************************************)
(* A call of play in any state keeps what AudioInv says of the channel.    *)
(***************************************************************************)
LEMMA PlayKeeps ==
  ASSUME AudioInv, NEW s \in Sample, m_state' = s, channel' = playing(s),
         UNCHANGED <<m_waitStopPlaing, samples, m_volume, m_distance_volume>>,
         s = "Loop" => "Loop" \in samples /\ ~isPlaying
  PROVE  AudioInv'
<1>1. AudioTyped'
  BY PlayingResult DEF AudioInv, AudioTyped, Sample
<1>2. (~channel.valid => ~isPlaying)'
  BY PlayingResult DEF AudioInv, isPlaying
<1>3. SoundsAsItsState'
  BY PlayingResult, <1>1 DEF AudioInv, SoundsAsItsState, isPlaying, Sample, AudioTyped
<1>4. (m_state = "Loop" => "Loop" \in samples)'
  OBVIOUS
<1>5. QED
  BY <1>1, <1>2, <1>3, <1>4 DEF AudioInv

LEMMA AudioInit == InitAudio => AudioInv
  BY AudioAssumption
  DEF InitAudio, AudioInv, AudioTyped, SoundsAsItsState, isPlaying, Sample, Silence

LEMMA AudioStep == AudioInv /\ [NextAudio]_audioVars => AudioInv'
<1> SUFFICES ASSUME AudioInv, [NextAudio]_audioVars PROVE AudioInv'
  OBVIOUS
<1>1. CASE play
  BY <1>1, PlayKeeps DEF play, Sample
<1>2. CASE stop
  BY <1>2, PlayKeeps DEF stop, Sample
<1>3. CASE proceedPlayer
  <2>1. CASE m_state = "Beginning" /\ "Loop" \in samples
    BY <1>3, <2>1, PlayKeeps DEF proceedPlayer, Sample
  <2>2. CASE ~(m_state = "Beginning" /\ "Loop" \in samples)
    BY <1>3, <2>2
    DEF proceedPlayer, AudioInv, AudioTyped, SoundsAsItsState, isPlaying
  <2>3. QED
    BY <2>1, <2>2
<1>4. ASSUME NEW v \in Volume, setVolume(v) PROVE AudioInv'
  BY <1>4, AudioAssumption
  DEF setVolume, AudioInv, AudioTyped, SoundsAsItsState, isPlaying
<1>5. ASSUME NEW d \in Distance, setDistance(d) PROVE AudioInv'
  BY <1>5, AudioAssumption
  DEF setDistance, AudioInv, AudioTyped, SoundsAsItsState, isPlaying
<1>6. ASSUME NEW wait \in BOOLEAN, setWaitStopPlaing(wait) PROVE AudioInv'
  BY <1>6 DEF setWaitStopPlaing, AudioInv, AudioTyped, SoundsAsItsState, isPlaying
<1>7. CASE SampleEnds
  BY <1>7 DEF SampleEnds, AudioInv, AudioTyped, SoundsAsItsState, isPlaying, Silence
<1>8. CASE UNCHANGED audioVars
  BY <1>8 DEF audioVars, AudioInv, AudioTyped, SoundsAsItsState, isPlaying
<1>9. QED
  BY <1>1, <1>2, <1>3, <1>4, <1>5, <1>6, <1>7, <1>8 DEF NextAudio

(***************************************************************************)
(* Whatever volumes and distances a program uses and whichever samples a   *)
(* player has, what sounds on its channel is what its state says.          *)
(***************************************************************************)
THEOREM AudioFollowsState == SpecAudio => []SoundsAsItsState
<1>1. AudioInv => SoundsAsItsState
  BY DEF AudioInv
<1>2. QED
  BY AudioInit, AudioStep, <1>1, PTL DEF SpecAudio

-----------------------------------------------------------------------------
(* AbstractStrategy: one module is active *)

StrategyTyped ==
  /\ m_creaters \in [ModuleName -> ModuleClass \cup {NullModule}]
  /\ madeAs \in [ModulePlace -> ModuleName]
  /\ m_moduleNames \in Seq(ModuleName)
  /\ m_activeModuleName \in ModuleName
  /\ m_activeModule \in ModulePlace \cup {NullModule}
  /\ module \in [ModulePlace -> ModuleClass \cup {NullModule}]

StrategyInv == StrategyTyped /\ OneModuleActive

(***************************************************************************)
(* addTypeName adds one name to those listed, and lists none twice.        *)
(***************************************************************************)
LEMMA WithTypeName ==
  ASSUME NEW names \in Seq(ModuleName), NEW name \in ModuleName,
         \A i, j \in DOMAIN names : names[i] = names[j] => i = j
  PROVE  LET more == withTypeName(names, name)
         IN /\ more \in Seq(ModuleName)
            /\ Range(more) = Range(names) \cup {name}
            /\ \A i, j \in DOMAIN more : more[i] = more[j] => i = j
<1>1. CASE name \in Range(names)
  BY <1>1 DEF withTypeName
<1>2. CASE name \notin Range(names)
  <2> DEFINE more == Append(names, name)
  <2>1. /\ more \in Seq(ModuleName)
        /\ Len(more) = Len(names) + 1
        /\ \A i \in 1 .. Len(names) : more[i] = names[i]
        /\ more[Len(names) + 1] = name
    OBVIOUS
  <2>2. DOMAIN more = 1 .. Len(names) + 1 /\ DOMAIN names = 1 .. Len(names)
    BY <2>1
  <2>3. \A i \in 1 .. Len(names) : names[i] # name
    BY <1>2, <2>2 DEF Range
  <2> HIDE DEF more
  <2>4. Range(more) = Range(names) \cup {name}
    BY <2>1, <2>2 DEF Range
  <2>5. \A i, j \in DOMAIN more : more[i] = more[j] => i = j
    BY <2>1, <2>2, <2>3
  <2>6. QED
    BY <1>2, <2>1, <2>4, <2>5 DEF withTypeName, more
<1>3. QED
  BY <1>1, <1>2

LEMMA StrategyInit == InitStrategy => StrategyInv
<1> SUFFICES ASSUME InitStrategy PROVE StrategyInv
  OBVIOUS
<1>1. StrategyTyped
  BY StrategyAssumption DEF InitStrategy, StrategyTyped
<1>2. OneModuleActive
  BY StrategyAssumption DEF InitStrategy, OneModuleActive, Modules, Range
<1>3. QED
  BY <1>1, <1>2 DEF StrategyInv

LEMMA StrategyStep == StrategyInv /\ [NextStrategy]_strategyVars => StrategyInv'
<1> SUFFICES ASSUME StrategyInv, [NextStrategy]_strategyVars PROVE StrategyInv'
  OBVIOUS
<1> USE StrategyAssumption DEF StrategyInv, StrategyTyped
<1>1. ASSUME NEW name \in ModuleName, NEW class \in ModuleClass,
             registerModule(name, class)
      PROVE  StrategyInv'
  <2>1. /\ m_moduleNames' \in Seq(ModuleName)
        /\ Range(m_moduleNames)' = Range(m_moduleNames) \cup {name}
        /\ (\A i, j \in DOMAIN m_moduleNames :
              m_moduleNames[i] = m_moduleNames[j] => i = j)'
    BY <1>1, WithTypeName DEF registerModule, OneModuleActive
  <2>2. StrategyTyped'
    BY <1>1, <2>1 DEF registerModule
  <2>3. (Range(m_moduleNames) = {n \in ModuleName : m_creaters[n] # NullModule})'
    BY <1>1, <2>1 DEF registerModule, OneModuleActive
  <2>4. (Modules = {m_activeModule} \ {NullModule})'
    BY <1>1 DEF registerModule, OneModuleActive, Modules
  <2>5. QED
    BY <1>1, <2>1, <2>2, <2>3, <2>4 DEF registerModule, OneModuleActive
<1>2. ASSUME NEW name \in ModuleName, NEW p \in ModulePlace, activate(name, p)
      PROVE  StrategyInv'
  <2>1. StrategyTyped'
    BY <1>2 DEF activate
  <2>2. (Modules = {m_activeModule} \ {NullModule})'
    BY <1>2 DEF activate, OneModuleActive, Modules
  <2>3. name \in Range(m_moduleNames)
    BY <1>2 DEF activate, OneModuleActive
  <2>4. QED
    BY <1>2, <2>1, <2>2, <2>3 DEF activate, OneModuleActive
<1>3. CASE deactivateCurrent
  <2>1. StrategyTyped'
    BY <1>3 DEF deactivateCurrent
  <2>2. (Modules = {m_activeModule} \ {NullModule})'
    BY <1>3 DEF deactivateCurrent, OneModuleActive, Modules
  <2>3. QED
    BY <1>3, <2>1, <2>2 DEF deactivateCurrent, OneModuleActive
<1>4. CASE UNCHANGED strategyVars
  BY <1>4 DEF strategyVars, OneModuleActive, Modules
<1>5. QED
  BY <1>1, <1>2, <1>3, <1>4 DEF NextStrategy

(***************************************************************************)
(* Whatever names and classes there are, a strategy owns no module but the *)
(* active one, and knows it by its name.                                   *)
(***************************************************************************)
THEOREM StrategyKeepsOne == SpecStrategy => []OneModuleActive
<1>1. StrategyInv => OneModuleActive
  BY DEF StrategyInv
<1>2. QED
  BY StrategyInit, StrategyStep, <1>1, PTL DEF SpecStrategy

-----------------------------------------------------------------------------
(* Signal and Callback: pointers, and what the loop has reached *)

Things == [id : Nat, life : Nat, onHeap : BOOLEAN, m_liveInHeap : BOOLEAN, shared : BOOLEAN]

\* Objects by what they say of themselves; a copy has the life flag of an
\* earlier one.
ObjectsInv ==
  /\ objects \in 0 .. MaxObjects
  /\ lifeInfo \in [1 .. MaxObjects -> BOOLEAN]
  /\ object \in [Address -> Things]
  /\ \A a \in Address : object[a] = NoObject \/
       /\ object[a].life \in 1 .. object[a].id
       /\ object[a].id \in 1 .. objects
       /\ (object[a].id = object[a].life /\ object[a].m_liveInHeap) => object[a].onHeap

\* A pointer to an object that was there when it was made.
Good(p) ==
  /\ p.life \in 0 .. objects /\ p.id \in 0 .. objects
  /\ p.life # 0 => p.id # 0 /\ p.data \in Address
  /\ isAlive(p) => There(p)
  /\ (p.life # 0 /\ There(p)) => object[p.data].life = p.life

PointersInv ==
  /\ Good(held)
  /\ Good(callback.object)
  /\ \A h \in DOMAIN m_cf : Good(m_cf[h])

HandlesInv ==
  /\ m_nextHandle \in Nat \ {0}
  /\ m_f \subseteq 1 .. m_nextHandle - 1
  /\ DOMAIN m_cf \subseteq 1 .. m_nextHandle - 1
  /\ due \subseteq 1 .. m_nextHandle - 1
  /\ m_f \cap DOMAIN m_cf = {}

\* What of the two loops is behind.
LoopInv ==
  /\ calling = Idle \/ calling \in [part : {"m_f", "m_cf"}, at : Nat]
  /\ calling.part = "m_f" =>
       \A h \in due \cap m_f : h <= calling.at => h \in reached
  /\ calling.part = "m_cf" =>
       /\ \A h \in due \cap m_f : h \in reached
       /\ \A h \in due \cap DOMAIN m_cf :
            (isAlive(m_cf[h]) /\ h <= calling.at) => h \in reached

SignalsInv == ObjectsInv /\ PointersInv /\ HandlesInv /\ LoopInv

LEMMA SignalsInit == InitSignals => SignalsInv
<1> SUFFICES ASSUME InitSignals
             PROVE  SignalsInv
  OBVIOUS
<1> USE DEF InitSignals
<1>1. ObjectsInv
  BY SignalsAssumption DEF ObjectsInv, NoObject, Things
<1>2. Good(NullPtr)
  BY DEF Good, NullPtr, isAlive
<1>3. callback.object = NullPtr /\ DOMAIN m_cf = {}
  <2>1. callback.object = NullPtr
    <3>1. callback = NoCallback \/ callback = NoFunction
      OBVIOUS
    <3>2. NoCallback.object = NullPtr /\ NoFunction.object = NullPtr
      BY DEF NoCallback, NoFunction
    <3> QED
      BY <3>1, <3>2
  <2>2. <<>> \in Seq({}) /\ Len(<<>>) = 0
    OBVIOUS
  <2>3. DOMAIN m_cf = 1 .. 0
    BY <2>2, LenProperties
  <2> QED
    BY <2>1, <2>3
<1>4. PointersInv
  BY <1>2, <1>3 DEF PointersInv
<1>5. HandlesInv
  BY <1>3 DEF HandlesInv
<1>6. LoopInv
  BY DEF LoopInv, Idle
<1> QED
  BY <1>1, <1>4, <1>5, <1>6 DEF SignalsInv

(***************************************************************************)
(* What happens to objects: no pointer to an earlier one turns alive, and  *)
(* each is as good as it was.                                              *)
(***************************************************************************)
PointersKept ==
  /\ ObjectsInv'
  /\ \A p : Good(p) => Good(p)' /\ (isAlive(p)' => isAlive(p))

LEMMA ConstructKeeps ==
  ASSUME ObjectsInv, NEW a \in Address, object[a] = NoObject, objects < MaxObjects,
         objects' = objects + 1,
         NEW t \in Things, object' = [object EXCEPT ![a] = t],
         t.id = objects + 1, t.life \in 1 .. objects + 1,
         (t.id = t.life /\ t.m_liveInHeap) => t.onHeap,
         \/ lifeInfo' = lifeInfo
         \/ lifeInfo' = [lifeInfo EXCEPT ![objects + 1] = TRUE]
  PROVE  PointersKept
<1>1. objects \in Nat /\ MaxObjects \in Nat /\ objects + 1 \in 1 .. MaxObjects
  BY SignalsAssumption DEF ObjectsInv
<1>2. ObjectsInv'
  <2>1. lifeInfo' \in [1 .. MaxObjects -> BOOLEAN]
    BY DEF ObjectsInv
  <2>2. object' \in [Address -> Things]
    BY DEF ObjectsInv
  <2>3. objects' \in 0 .. MaxObjects
    BY <1>1
  <2>4. ASSUME NEW b \in Address
        PROVE  \/ object'[b] = NoObject
               \/ /\ object'[b].life \in 1 .. object'[b].id
                  /\ object'[b].id \in 1 .. objects'
                  /\ (object'[b].id = object'[b].life /\ object'[b].m_liveInHeap)
                       => object'[b].onHeap
    <3>1. CASE b = a
      <4>1. object'[b] = t
        BY <3>1 DEF ObjectsInv
      <4> QED
        BY <1>1, <4>1
    <3>2. CASE b # a
      <4>1. object'[b] = object[b]
        BY <3>2 DEF ObjectsInv
      <4> QED
        BY <1>1, <4>1 DEF ObjectsInv
    <3> QED
      BY <3>1, <3>2
  <2> QED
    BY <2>1, <2>2, <2>3, <2>4 DEF ObjectsInv
<1>3. ASSUME NEW p, Good(p)
      PROVE  Good(p)' /\ (isAlive(p)' => isAlive(p))
  <2>1. /\ p.life \in 0 .. objects /\ p.id \in 0 .. objects
        /\ p.life # 0 => p.id # 0 /\ p.data \in Address
        /\ isAlive(p) => There(p)
        /\ (p.life # 0 /\ There(p)) => object[p.data].life = p.life
    BY <1>3 DEF Good
  <2>2. isAlive(p)' => isAlive(p)
    <3>1. p.life # 0 => (p.life \in 1 .. MaxObjects /\ p.life # objects + 1)
      BY <1>1, <2>1
    <3> QED
      BY <3>1 DEF isAlive, ObjectsInv
  <2>3. p.life # 0 => (There(p)' <=> There(p))
    <3>1. CASE p.data = a
      <4>1. object[p.data].id = 0 /\ object'[p.data].id = objects + 1
        BY <3>1 DEF ObjectsInv, NoObject
      <4> QED
        BY <1>1, <2>1, <4>1 DEF There
    <3>2. CASE p.data # a
      <4>1. p.life # 0 => object'[p.data] = object[p.data]
        BY <2>1, <3>2 DEF ObjectsInv
      <4> QED
        BY <4>1 DEF There
    <3> QED
      BY <3>1, <3>2
  <2>4. (p.life # 0 /\ There(p)') => object'[p.data].life = p.life
    <3> SUFFICES ASSUME p.life # 0, There(p)
                 PROVE  object'[p.data].life = p.life
      BY <2>3
    <3>1. p.data # a
      BY <2>1 DEF There, NoObject
    <3>2. object'[p.data] = object[p.data]
      BY <2>1, <3>1 DEF ObjectsInv
    <3> QED
      BY <2>1, <3>2
  <2>5. isAlive(p)' => There(p)'
    BY <2>1, <2>2, <2>3 DEF isAlive
  <2>6. p.life \in 0 .. objects' /\ p.id \in 0 .. objects'
    BY <1>1, <2>1
  <2> QED
    BY <2>1, <2>2, <2>4, <2>5, <2>6 DEF Good
<1> QED
  BY <1>2, <1>3 DEF PointersKept

LEMMA EndKeeps ==
  ASSUME ObjectsInv, NEW a \in Address, object[a] # NoObject, ended(a), objects' = objects
  PROVE  PointersKept
<1>1. /\ objects \in Nat /\ MaxObjects \in Nat
      /\ object[a].life \in 1 .. objects /\ object[a].life \in 1 .. MaxObjects
      /\ object[a].id \in 1 .. objects
  <2>1. objects \in 0 .. MaxObjects /\ MaxObjects \in Nat
    BY SignalsAssumption DEF ObjectsInv
  <2>2. object[a].life \in 1 .. object[a].id /\ object[a].id \in 1 .. objects
    BY DEF ObjectsInv
  <2> QED
    BY <2>1, <2>2
<1>2. /\ lifeInfo' = [lifeInfo EXCEPT ![object[a].life] = FALSE]
      /\ object' = [object EXCEPT ![a] = NoObject]
  BY DEF ended
<1>3. ObjectsInv'
  <2>1. NoObject \in Things
    BY DEF NoObject, Things
  <2>2. object' \in [Address -> Things] /\ lifeInfo' \in [1 .. MaxObjects -> BOOLEAN]
    BY <1>2, <2>1 DEF ObjectsInv
  <2>3. \A b \in Address : object'[b] = NoObject \/ object'[b] = object[b]
    BY <1>2 DEF ObjectsInv
  <2> QED
    BY <2>2, <2>3 DEF ObjectsInv
<1>4. ASSUME NEW p, Good(p)
      PROVE  Good(p)' /\ (isAlive(p)' => isAlive(p))
  <2>1. /\ p.life \in 0 .. objects /\ p.id \in 0 .. objects
        /\ p.life # 0 => p.id # 0 /\ p.data \in Address
        /\ isAlive(p) => There(p)
        /\ (p.life # 0 /\ There(p)) => object[p.data].life = p.life
    BY <1>4 DEF Good
  <2>2. p.life # 0 => p.life \in 1 .. MaxObjects
    BY <1>1, <2>1 DEF ObjectsInv
  <2>3. isAlive(p)' => isAlive(p) /\ p.life # object[a].life
    BY <1>1, <1>2, <2>2 DEF isAlive, ObjectsInv
  <2>4. (p.life # 0 /\ There(p)') => p.data # a
    <3>1. p.data = a => object'[p.data].id = 0
      BY <1>2 DEF ObjectsInv, NoObject
    <3> QED
      BY <2>1, <3>1 DEF There
  <2>5. (p.life # 0 /\ p.data # a) => object'[p.data] = object[p.data]
    BY <1>2, <2>1 DEF ObjectsInv
  <2>6. isAlive(p)' => There(p)'
    <3> SUFFICES ASSUME isAlive(p)'
                 PROVE  There(p)'
      OBVIOUS
    <3>1. There(p) /\ p.life # 0 /\ object[p.data].life = p.life
      BY <2>1, <2>3 DEF isAlive
    <3>2. p.data # a
      BY <2>3, <3>1
    <3> QED
      BY <2>5, <3>1, <3>2 DEF There
  <2>7. (p.life # 0 /\ There(p)') => object'[p.data].life = p.life
    BY <2>1, <2>4, <2>5 DEF There
  <2> QED
    BY <2>1, <2>3, <2>6, <2>7 DEF Good
<1> QED
  BY <1>3, <1>4 DEF PointersKept

LEMMA PtrIsGood ==
  ASSUME ObjectsInv, NEW a \in Address, object[a] # NoObject
  PROVE  Good(ptrTo(a)) /\ There(ptrTo(a))
<1>1. /\ objects \in Nat
      /\ object[a].life \in 1 .. object[a].id /\ object[a].id \in 1 .. objects
  BY DEF ObjectsInv
<1>2. object[a].life \in 0 .. objects /\ object[a].id \in 0 .. objects
      /\ object[a].id # 0
  BY <1>1
<1>3. ptrTo(a) = [data |-> a, id |-> object[a].id, life |-> object[a].life] /\ a # 0
  BY SignalsAssumption DEF ptrTo
<1>4. There(ptrTo(a))
  BY <1>3 DEF There
<1> QED
  BY <1>2, <1>3, <1>4 DEF Good

\* What the program does to objects between the calls, a handle held.
LEMMA ObjectSteps ==
  ASSUME SignalsInv, PointersKept,
         held' = held \/ Good(held)',
         UNCHANGED <<m_f, m_cf, m_nextHandle, callback, calling, due, reached>>
  PROVE  SignalsInv'
<1>1. PointersInv'
  <2>1. Good(held)'
    BY DEF SignalsInv, PointersInv, PointersKept
  <2>2. Good(callback.object)'
    BY DEF SignalsInv, PointersInv, PointersKept
  <2>3. \A h \in DOMAIN m_cf' : Good(m_cf[h])'
    BY DEF SignalsInv, PointersInv, PointersKept
  <2> QED
    BY <2>1, <2>2, <2>3 DEF PointersInv
<1>2. HandlesInv'
  BY DEF SignalsInv, HandlesInv
<1>3. LoopInv'
  <2>1. \A h \in DOMAIN m_cf : isAlive(m_cf[h])' => isAlive(m_cf[h])
    BY DEF SignalsInv, PointersInv, PointersKept
  <2> QED
    BY <2>1 DEF SignalsInv, LoopInv
<1> QED
  BY <1>1, <1>2, <1>3 DEF SignalsInv, PointersKept

LEMMA ObjectsStep ==
  ASSUME SignalsInv,
         \/ \E a \in Address, onHeap, shared \in BOOLEAN : Construct(a, onHeap, shared)
         \/ \E a, b \in Address, onHeap \in BOOLEAN : Copy(a, b, onHeap)
         \/ \E a \in Address : End(a) \/ Hold(a)
         \/ DestroyHeld
  PROVE  SignalsInv'
<1>0. ObjectsInv
  BY DEF SignalsInv
<1>1. CASE \E a \in Address, onHeap, shared \in BOOLEAN : Construct(a, onHeap, shared)
  <2>1. PICK a \in Address, onHeap, shared \in BOOLEAN : Construct(a, onHeap, shared)
    BY <1>1
  <2> DEFINE t == [id |-> objects + 1, life |-> objects + 1, onHeap |-> onHeap,
                   m_liveInHeap |-> onHeap, shared |-> shared]
  <2>2. objects + 1 \in Nat /\ objects + 1 \in 1 .. objects + 1
    BY <1>0 DEF ObjectsInv
  <2>3. t \in Things
    BY <2>2 DEF Things
  <2>4. t.id = objects + 1 /\ t.life = objects + 1 /\ t.m_liveInHeap = t.onHeap
    OBVIOUS
  <2> HIDE DEF t
  <2>5. /\ object[a] = NoObject /\ objects < MaxObjects /\ objects' = objects + 1
        /\ object' = [object EXCEPT ![a] = t]
        /\ lifeInfo' = [lifeInfo EXCEPT ![objects + 1] = TRUE]
        /\ held' = held
        /\ UNCHANGED <<m_f, m_cf, m_nextHandle, callback, calling, due, reached>>
    BY <2>1 DEF Construct, t
  <2>6. PointersKept
    BY <1>0, <2>2, <2>3, <2>4, <2>5, ConstructKeeps
  <2> QED
    BY <2>5, <2>6, ObjectSteps
<1>2. CASE \E a, b \in Address, onHeap \in BOOLEAN : Copy(a, b, onHeap)
  <2>1. PICK a \in Address, b \in Address, onHeap \in BOOLEAN : Copy(a, b, onHeap)
    BY <1>2
  <2> DEFINE t == [object[b] EXCEPT !.id = objects + 1, !.onHeap = onHeap, !.shared = FALSE]
  <2>2. objects \in Nat /\ objects + 1 \in Nat
    BY <1>0 DEF ObjectsInv
  <2>3. object[b] \in Things
    BY <1>0 DEF ObjectsInv
  <2>4. object[b].life \in 1 .. objects
    <3>1. object[b] # NoObject
      BY <2>1 DEF Copy
    <3>2. object[b].life \in 1 .. object[b].id /\ object[b].id \in 1 .. objects
      BY <1>0, <3>1 DEF ObjectsInv
    <3> QED
      BY <2>2, <3>2
  <2>5. t \in Things /\ t.id = objects + 1 /\ t.life = object[b].life
    BY <2>2, <2>3 DEF Things
  <2>6. t.life \in 1 .. objects + 1 /\ t.id # t.life
    BY <2>2, <2>4, <2>5
  <2>7. /\ object[a] = NoObject /\ objects < MaxObjects /\ objects' = objects + 1
        /\ object' = [object EXCEPT ![a] = t]
        /\ lifeInfo' = lifeInfo
        /\ held' = held
        /\ UNCHANGED <<m_f, m_cf, m_nextHandle, callback, calling, due, reached>>
    BY <2>1 DEF Copy
  <2> HIDE DEF t
  <2>8. PointersKept
    BY <1>0, <2>5, <2>6, <2>7, ConstructKeeps
  <2> QED
    BY <2>7, <2>8, ObjectSteps
<1>3. CASE \E a \in Address : End(a)
  <2>1. PICK a \in Address : End(a)
    BY <1>3
  <2>2. PointersKept
    BY <1>0, <2>1, EndKeeps DEF End
  <2> QED
    BY <2>1, <2>2, ObjectSteps DEF End
<1>4. CASE \E a \in Address : Hold(a)
  <2>1. PICK a \in Address : Hold(a)
    BY <1>4
  <2>2. /\ object[a] # NoObject /\ held' = ptrTo(a)
        /\ object' = object /\ lifeInfo' = lifeInfo /\ objects' = objects
        /\ UNCHANGED <<m_f, m_cf, m_nextHandle, callback, calling, due, reached>>
    BY <2>1 DEF Hold
  <2>3. Good(ptrTo(a))
    BY <1>0, <2>2, PtrIsGood
  <2>4. ObjectsInv'
    BY <1>0, <2>2 DEF ObjectsInv
  <2>5. \A p : (Good(p)' <=> Good(p)) /\ (isAlive(p)' <=> isAlive(p))
    BY <2>2 DEF Good, isAlive, There
  <2>6. PointersKept
    BY <2>4, <2>5 DEF PointersKept
  <2>7. Good(held)'
    BY <2>2, <2>3, <2>5 DEF Good, isAlive, There
  <2> QED
    BY <2>2, <2>6, <2>7, ObjectSteps
<1>5. CASE DestroyHeld
  <2>1. /\ isAlive(held) /\ ended(held.data) /\ objects' = objects /\ held' = held
        /\ UNCHANGED <<m_f, m_cf, m_nextHandle, callback, calling, due, reached>>
    BY <1>5 DEF DestroyHeld
  <2>2. There(held) /\ held.data \in Address /\ held.id # 0
    BY <2>1 DEF SignalsInv, PointersInv, Good, isAlive
  <2>3. object[held.data] # NoObject
    BY <2>2 DEF There, NoObject
  <2>4. PointersKept
    BY <1>0, <2>1, <2>2, <2>3, EndKeeps
  <2> QED
    BY <2>1, <2>4, ObjectSteps
<1> QED
  BY <1>1, <1>2, <1>3, <1>4, <1>5

(***************************************************************************)
(* Connecting and disconnecting between two steps of the loop.             *)
(***************************************************************************)
LEMMA SamePointers ==
  ASSUME ObjectsInv, UNCHANGED objectVars
  PROVE  /\ ObjectsInv' /\ held' = held
         /\ \A p : (Good(p)' <=> Good(p)) /\ (isAlive(p)' <=> isAlive(p))
BY DEF objectVars, ObjectsInv, Good, isAlive, There

LEMMA ConnectionSteps ==
  ASSUME SignalsInv,
         \/ Connect
         \/ \E a \in Address : ConnectWith(a)
         \/ \E h \in 1 .. MaxHandles : Disconnect(h)
  PROVE  SignalsInv'
<1>0. ObjectsInv /\ PointersInv /\ HandlesInv /\ LoopInv
  BY DEF SignalsInv
<1>1. UNCHANGED objectVars /\ callback' = callback /\ calling' = calling
      /\ due' = due /\ reached' = reached
  BY DEF Connect, ConnectWith, Disconnect
<1>2. /\ ObjectsInv' /\ held' = held
      /\ \A p : (Good(p)' <=> Good(p)) /\ (isAlive(p)' <=> isAlive(p))
  BY <1>0, <1>1, SamePointers
<1>3. Good(held)' /\ Good(callback.object)'
  <2>1. Good(held) /\ Good(callback.object)
    BY <1>0 DEF PointersInv
  <2>2. Good(held)' <=> Good(held')
    BY <1>1, <1>2 DEF objectVars, Good, isAlive, There
  <2>3. Good(callback.object)' <=> Good(callback'.object)
    BY <1>1, <1>2 DEF objectVars, Good, isAlive, There
  <2> QED
    BY <1>1, <1>2, <2>1, <2>2, <2>3
<1>4. m_nextHandle \in Nat \ {0} /\ m_nextHandle \notin m_f \cup DOMAIN m_cf \cup due
  BY <1>0 DEF HandlesInv
<1>5. CASE Connect
  <2>1. m_f' = m_f \cup {m_nextHandle} /\ m_nextHandle' = m_nextHandle + 1 /\ m_cf' = m_cf
    BY <1>5 DEF Connect
  <2>2. HandlesInv'
    BY <1>0, <1>1, <1>4, <2>1 DEF HandlesInv
  <2>3. PointersInv'
    BY <1>0, <1>1, <1>2, <1>3, <2>1 DEF PointersInv
  <2>4. LoopInv'
    BY <1>0, <1>1, <1>2, <1>4, <2>1 DEF LoopInv
  <2> QED
    BY <1>2, <2>2, <2>3, <2>4 DEF SignalsInv
<1>6. CASE \E a \in Address : ConnectWith(a)
  <2>1. PICK a \in Address : ConnectWith(a)
    BY <1>6
  <2>2. /\ object[a] # NoObject /\ m_f' = m_f /\ m_nextHandle' = m_nextHandle + 1
        /\ m_cf' = [h \in DOMAIN m_cf \cup {m_nextHandle} |->
                      IF h = m_nextHandle THEN ptrTo(a) ELSE m_cf[h]]
    BY <2>1 DEF ConnectWith
  <2>3. Good(ptrTo(a))
    BY <1>0, <2>2, PtrIsGood
  <2>4. /\ DOMAIN m_cf' = DOMAIN m_cf \cup {m_nextHandle}
        /\ m_cf'[m_nextHandle] = ptrTo(a)
        /\ \A h \in DOMAIN m_cf : m_cf'[h] = m_cf[h]
    BY <1>4, <2>2
  <2>5. HandlesInv'
    BY <1>0, <1>1, <1>4, <2>2, <2>4 DEF HandlesInv
  <2>6. ASSUME NEW h \in DOMAIN m_cf'
        PROVE  Good(m_cf[h])'
    <3>1. Good(m_cf'[h])
      BY <1>0, <2>3, <2>4 DEF PointersInv
    <3> QED
      BY <1>1, <3>1 DEF objectVars, Good, isAlive, There
  <2>7. PointersInv'
    BY <1>3, <2>6 DEF PointersInv
  <2>8. LoopInv'
    BY <1>0, <1>1, <1>2, <1>4, <2>2, <2>4 DEF LoopInv
  <2> QED
    BY <1>2, <2>5, <2>7, <2>8 DEF SignalsInv
<1>7. CASE \E h \in 1 .. MaxHandles : Disconnect(h)
  <2>1. PICK h \in 1 .. MaxHandles : Disconnect(h)
    BY <1>7
  <2>2. /\ m_f' = m_f \ {h} /\ m_cf' = [g \in DOMAIN m_cf \ {h} |-> m_cf[g]]
        /\ m_nextHandle' = m_nextHandle
    BY <2>1 DEF Disconnect
  <2>3. DOMAIN m_cf' \subseteq DOMAIN m_cf /\ \A g \in DOMAIN m_cf' : m_cf'[g] = m_cf[g]
    BY <2>2
  <2>4. HandlesInv'
    BY <1>0, <1>1, <2>2, <2>3 DEF HandlesInv
  <2>5. ASSUME NEW g \in DOMAIN m_cf'
        PROVE  Good(m_cf[g])'
    <3>1. Good(m_cf'[g])
      BY <1>0, <2>3 DEF PointersInv
    <3> QED
      BY <1>1, <3>1 DEF objectVars, Good, isAlive, There
  <2>6. PointersInv'
    BY <1>3, <2>5 DEF PointersInv
  <2>7. LoopInv'
    BY <1>0, <1>1, <1>2, <2>2, <2>3 DEF LoopInv
  <2> QED
    BY <1>2, <2>4, <2>6, <2>7 DEF SignalsInv
<1> QED
  BY <1>5, <1>6, <1>7

LEMMA CallbackSteps ==
  ASSUME SignalsInv,
         \/ ConnectCallback([function |-> "plain", object |-> NullPtr])
         \/ \E a \in Address : /\ object[a] # NoObject
                               /\ ConnectCallback([function |-> "with", object |-> ptrTo(a)])
         \/ DisconnectCallback
  PROVE  SignalsInv'
<1>0. ObjectsInv /\ PointersInv /\ HandlesInv /\ LoopInv
  BY DEF SignalsInv
<1>1. UNCHANGED objectVars
      /\ UNCHANGED <<m_f, m_cf, m_nextHandle, calling, due, reached>>
  BY DEF ConnectCallback, DisconnectCallback
<1>2. /\ ObjectsInv' /\ held' = held
      /\ \A p : (Good(p)' <=> Good(p)) /\ (isAlive(p)' <=> isAlive(p))
  BY <1>0, <1>1, SamePointers
<1>3. Good(callback'.object)
  <2>1. Good(NullPtr)
    BY <1>0 DEF Good, NullPtr, isAlive, ObjectsInv
  <2>2. callback'.object = NullPtr \/ \E a \in Address : object[a] # NoObject /\ callback'.object = ptrTo(a)
    BY DEF ConnectCallback, DisconnectCallback, NoFunction
  <2> QED
    BY <1>0, <2>1, <2>2, PtrIsGood
<1>4. PointersInv'
  <2>1. Good(held)' /\ Good(callback.object)'
    BY <1>0, <1>1, <1>2, <1>3 DEF PointersInv, objectVars, Good, isAlive, There
  <2>2. \A h \in DOMAIN m_cf' : Good(m_cf[h])'
    BY <1>0, <1>1, <1>2 DEF PointersInv
  <2> QED
    BY <2>1, <2>2 DEF PointersInv
<1>5. HandlesInv'
  BY <1>0, <1>1 DEF HandlesInv
<1>6. LoopInv'
  BY <1>0, <1>1, <1>2 DEF LoopInv
<1> QED
  BY <1>2, <1>4, <1>5, <1>6 DEF SignalsInv

LEMMA LeastOf ==
  ASSUME NEW S \in SUBSET Nat, S # {}
  PROVE  Min(S) \in S /\ \A n \in S : Min(S) <= n
<1>1. \E n \in S : \A k \in S : n <= k
  BY LeastElement
<1> QED
  BY <1>1 DEF Min

\* Handles are numbers, and those of the two loops differ.
LEMMA HandleFacts ==
  ASSUME HandlesInv
  PROVE  /\ m_f \subseteq Nat /\ DOMAIN m_cf \subseteq Nat /\ due \subseteq Nat
         /\ m_f \cap DOMAIN m_cf = {}
         /\ AfterInF \subseteq m_f /\ AliveAfter \subseteq AfterInCf
         /\ AfterInCf \subseteq DOMAIN m_cf
BY DEF HandlesInv, AfterInF, AliveAfter, AfterInCf

(***************************************************************************)
(* Before the second loop begins, and in it, the first has reached what    *)
(* was due.                                                                *)
(***************************************************************************)
LEMMA FirstLoopDone ==
  ASSUME HandlesInv, LoopInv, calling # Idle, AfterInF = {}
  PROVE  \A h \in due \cap m_f : h \in reached
<1> SUFFICES ASSUME NEW h \in due \cap m_f
             PROVE  h \in reached
  OBVIOUS
<1>1. calling \in [part : {"m_f", "m_cf"}, at : Nat] /\ h \in Nat
  BY HandleFacts DEF LoopInv
<1>2. CASE calling.part = "m_f"
  <2>1. ~(h > calling.at)
    BY <1>2 DEF AfterInF
  <2>2. h <= calling.at
    BY <1>1, <2>1
  <2> QED
    BY <1>2, <2>2 DEF LoopInv
<1>3. CASE calling.part = "m_cf"
  BY <1>3 DEF LoopInv
<1> QED
  BY <1>1, <1>2, <1>3

LEMMA SecondLoopBehind ==
  ASSUME HandlesInv, LoopInv, calling # Idle,
         NEW h \in due \cap DOMAIN m_cf, isAlive(m_cf[h]), h \notin AliveAfter
  PROVE  h \in reached
<1>1. calling \in [part : {"m_f", "m_cf"}, at : Nat] /\ h \in Nat
  BY HandleFacts DEF LoopInv
<1>2. h \notin AfterInCf
  BY DEF AliveAfter
<1>3. calling.part = "m_cf" /\ ~(h > calling.at)
  BY <1>2 DEF AfterInCf
<1>4. h <= calling.at
  BY <1>1, <1>3
<1> QED
  BY <1>3, <1>4 DEF LoopInv

LEMMA LoopSteps ==
  ASSUME SignalsInv, Invoke \/ CallNext \/ CallNextWith \/ Return
  PROVE  SignalsInv'
<1>0. ObjectsInv /\ PointersInv /\ HandlesInv /\ LoopInv
  BY DEF SignalsInv
<1>1. UNCHANGED objectVars /\ UNCHANGED <<m_f, m_nextHandle, callback>>
  BY DEF Invoke, CallNext, CallNextWith, Return
<1>2. /\ ObjectsInv' /\ held' = held
      /\ \A p : (Good(p)' <=> Good(p)) /\ (isAlive(p)' <=> isAlive(p))
  BY <1>0, <1>1, SamePointers
<1>3. DOMAIN m_cf' \subseteq DOMAIN m_cf /\ \A h \in DOMAIN m_cf' : m_cf'[h] = m_cf[h]
  BY DEF Invoke, CallNext, CallNextWith, Return
<1>4. PointersInv'
  <2>1. Good(held)' /\ Good(callback.object)'
    BY <1>0, <1>1, <1>2 DEF PointersInv, objectVars, Good, isAlive, There
  <2>2. ASSUME NEW h \in DOMAIN m_cf'
        PROVE  Good(m_cf[h])'
    <3>1. Good(m_cf'[h])
      BY <1>0, <1>3 DEF PointersInv
    <3> QED
      BY <1>1, <3>1 DEF objectVars, Good, isAlive, There
  <2> QED
    BY <2>1, <2>2 DEF PointersInv
<1>5. due' \subseteq 1 .. m_nextHandle - 1
  BY <1>0 DEF HandlesInv, Invoke, CallNext, CallNextWith, Return
<1>6. HandlesInv'
  BY <1>0, <1>1, <1>3, <1>5 DEF HandlesInv
<1>7. \A h \in DOMAIN m_cf' : isAlive(m_cf[h])' <=> isAlive(m_cf[h])
  BY <1>1, <1>3 DEF objectVars, isAlive
<1>8. CASE Invoke
  <2>1. calling' = [part |-> "m_f", at |-> 0]
    BY <1>8 DEF Invoke
  <2>2. \A h \in due' : ~(h <= 0)
    <3>1. m_nextHandle - 1 \in Int
      BY <1>0 DEF HandlesInv
    <3> QED
      BY <1>5, <3>1
  <2> QED
    BY <1>2, <1>4, <1>6, <2>1, <2>2 DEF SignalsInv, LoopInv
<1>9. CASE CallNext
  <2> DEFINE n == Min(AfterInF)
  <2>1. /\ calling # Idle /\ AfterInF # {} /\ calling' = [calling EXCEPT !.at = n]
        /\ reached' = reached \cup {n} /\ m_cf' = m_cf /\ due' = due
    BY <1>9 DEF CallNext
  <2>2. n \in AfterInF /\ \A k \in AfterInF : n <= k
    BY <1>0, <2>1, HandleFacts, LeastOf
  <2>3. n \in Nat /\ n \in m_f /\ calling.part = "m_f"
    BY <1>0, <2>2, HandleFacts DEF AfterInF
  <2>4. calling \in [part : {"m_f", "m_cf"}, at : Nat]
    BY <1>0, <2>1 DEF LoopInv
  <2> HIDE DEF n
  <2>5. ASSUME NEW h \in due \cap m_f, h <= n
        PROVE  h \in reached'
    <3>1. h \in Nat /\ calling.at \in Nat
      BY <1>0, <2>4, HandleFacts
    <3>2. CASE h > calling.at
      <4>1. h \in AfterInF
        BY <2>3, <3>2 DEF AfterInF
      <4>2. h = n
        BY <2>2, <2>3, <2>5, <3>1, <4>1
      <4> QED
        BY <2>1, <4>2
    <3>3. CASE ~(h > calling.at)
      <4>1. h <= calling.at
        BY <3>1, <3>3
      <4> QED
        BY <1>0, <2>1, <2>3, <4>1 DEF LoopInv
    <3> QED
      BY <3>2, <3>3
  <2>6. calling' = [part |-> "m_f", at |-> n]
    BY <2>1, <2>3, <2>4
  <2>7. LoopInv'
    BY <1>1, <2>1, <2>3, <2>5, <2>6 DEF LoopInv
  <2> QED
    BY <1>2, <1>4, <1>6, <2>7 DEF SignalsInv
<1>10. CASE CallNextWith
  <2> DEFINE n == Min(AliveAfter)
  <2>1. /\ calling # Idle /\ AfterInF = {} /\ AliveAfter # {}
        /\ calling' = [part |-> "m_cf", at |-> n]
        /\ reached' = reached \cup {n} /\ due' = due
    BY <1>10 DEF CallNextWith
  <2>2. AliveAfter \subseteq Nat
    BY <1>0, HandleFacts
  <2>3. n \in AliveAfter /\ n \in Nat /\ \A k \in AliveAfter : n <= k
    BY <2>1, <2>2, LeastOf
  <2> HIDE DEF n
  <2>4. \A h \in due \cap m_f : h \in reached
    BY <1>0, <2>1, FirstLoopDone
  <2>5. ASSUME NEW h \in due \cap DOMAIN m_cf', isAlive(m_cf[h])', h <= n
        PROVE  h \in reached'
    <3>1. h \in DOMAIN m_cf /\ isAlive(m_cf[h]) /\ h \in Nat
      BY <1>0, <1>1, <1>3, <1>7, <2>5, HandleFacts DEF objectVars, isAlive
    <3>2. CASE h \in AliveAfter
      <4>1. h = n
        BY <2>3, <2>5, <3>1, <3>2
      <4> QED
        BY <2>1, <4>1
    <3>3. CASE h \notin AliveAfter
      BY <1>0, <2>1, <3>1, <3>3, SecondLoopBehind
    <3> QED
      BY <3>2, <3>3
  <2> QED
    BY <1>1, <1>2, <1>4, <1>6, <2>1, <2>3, <2>4, <2>5 DEF SignalsInv, LoopInv
<1>11. CASE Return
  BY <1>2, <1>4, <1>6, <1>11 DEF SignalsInv, LoopInv, Return, Idle
<1> QED
  BY <1>8, <1>9, <1>10, <1>11

LEMMA SignalsStep == SignalsInv /\ [NextSignals]_signalVars => SignalsInv'
<1> SUFFICES ASSUME SignalsInv, [NextSignals]_signalVars
             PROVE  SignalsInv'
  OBVIOUS
<1>1. CASE UNCHANGED signalVars
  <2>1. UNCHANGED objectVars /\ UNCHANGED <<m_f, m_cf, m_nextHandle, callback, calling, due, reached>>
    BY <1>1 DEF signalVars, objectVars
  <2>2. ObjectsInv' /\ held' = held
        /\ \A p : (Good(p)' <=> Good(p)) /\ (isAlive(p)' <=> isAlive(p))
    BY <2>1, SamePointers DEF SignalsInv
  <2>3. PointersKept
    BY <2>2 DEF PointersKept
  <2> QED
    BY <2>1, <2>2, <2>3, ObjectSteps
<1> QED
  BY <1>1, ObjectsStep, ConnectionSteps, CallbackSteps, LoopSteps DEF NextSignals

(***************************************************************************)
(* A function is called only while the object it was connected with is     *)
(* there, and a call of the signal reaches all that were due and live: for *)
(* any number of objects, copies and addresses that are used again.        *)
(***************************************************************************)
THEOREM LivingReached == SpecSignals => OnlyTheLivingReached
<1>1. SignalsInv /\ [NextSignals]_signalVars =>
        [/\ \A h \in (reached' \ reached) \cap DOMAIN m_cf : There(m_cf[h])
         /\ (calling # Idle /\ calling' = Idle) =>
               \A h \in due : (h \in m_f \/ (h \in DOMAIN m_cf /\ isAlive(m_cf[h])))
                                 => h \in reached
         /\ isAlive(held) => There(held)
         /\ (callable /\ callback.function = "with") => There(callback.object)
         /\ DestroyHeld => LET o == object[held.data]
                       IN o.onHeap \/ o.id # o.life]_signalVars
  <2> SUFFICES ASSUME SignalsInv, NextSignals
               PROVE  /\ \A h \in (reached' \ reached) \cap DOMAIN m_cf : There(m_cf[h])
                      /\ (calling # Idle /\ calling' = Idle) =>
                            \A h \in due :
                              (h \in m_f \/ (h \in DOMAIN m_cf /\ isAlive(m_cf[h])))
                                => h \in reached
                      /\ isAlive(held) => There(held)
                      /\ (callable /\ callback.function = "with") => There(callback.object)
                      /\ DestroyHeld => LET o == object[held.data]
                                    IN o.onHeap \/ o.id # o.life
    OBVIOUS
  <2>0. ObjectsInv /\ PointersInv /\ HandlesInv /\ LoopInv
    BY DEF SignalsInv
  <2>1. ASSUME NEW h \in (reached' \ reached) \cap DOMAIN m_cf
        PROVE  There(m_cf[h])
    <3>1. \/ reached' \subseteq reached
          \/ CallNext
          \/ CallNextWith
      BY DEF NextSignals, Construct, Copy, End, Hold, DestroyHeld, Connect, ConnectWith,
             Disconnect, ConnectCallback, DisconnectCallback, Invoke, Return
    <3>2. CASE reached' \subseteq reached
      BY <3>2
    <3>3. CASE CallNext
      <4>1. AfterInF # {} /\ h = Min(AfterInF)
        BY <3>3 DEF CallNext
      <4>2. h \in AfterInF
        BY <2>0, <4>1, HandleFacts, LeastOf
      <4> QED
        BY <2>0, <4>2, HandleFacts
    <3>4. CASE CallNextWith
      <4>1. AliveAfter # {} /\ h = Min(AliveAfter)
        BY <3>4 DEF CallNextWith
      <4>2. AliveAfter \subseteq Nat
        BY <2>0, HandleFacts
      <4>3. h \in AliveAfter
        BY <4>1, <4>2, LeastOf
      <4> QED
        BY <2>0, <4>3 DEF AliveAfter, PointersInv, Good
    <3> QED
      BY <3>1, <3>2, <3>3, <3>4
  <2>2. ASSUME calling # Idle, calling' = Idle, NEW h \in due,
               h \in m_f \/ (h \in DOMAIN m_cf /\ isAlive(m_cf[h]))
        PROVE  h \in reached
    <3>1. Return
      <4>1. \/ calling' = calling
            \/ calling' = [part |-> "m_f", at |-> 0]
            \/ calling' = [part |-> "m_cf", at |-> Min(AliveAfter)]
            \/ CallNext
            \/ Return
        BY DEF NextSignals, Construct, Copy, End, Hold, DestroyHeld, Connect, ConnectWith,
               Disconnect, ConnectCallback, DisconnectCallback, Invoke, CallNextWith
      <4>2. calling.part # "idle"
        BY <2>0, <2>2 DEF LoopInv
      <4>3. CASE CallNext
        <5>1. calling' = [calling EXCEPT !.at = Min(AfterInF)]
          BY <4>3 DEF CallNext
        <5>2. calling'.part = calling.part
          BY <2>0, <2>2, <5>1 DEF LoopInv
        <5> QED
          BY <2>2, <4>2, <5>2 DEF Idle
      <4> QED
        BY <2>2, <4>1, <4>3 DEF Idle
    <3>2. AfterInF = {} /\ AliveAfter = {}
      BY <3>1 DEF Return
    <3> QED
      BY <2>0, <2>2, <3>2, FirstLoopDone, SecondLoopBehind
  <2>3. isAlive(held) => There(held)
    BY <2>0 DEF PointersInv, Good
  <2>4. (callable /\ callback.function = "with") => There(callback.object)
    BY <2>0 DEF PointersInv, Good, callable
  <2>5. ASSUME DestroyHeld
        PROVE  object[held.data].onHeap \/ object[held.data].id # object[held.data].life
    <3>1. isAlive(held) /\ object[held.data].m_liveInHeap
      BY <2>5 DEF DestroyHeld
    <3>2. held.data \in Address /\ There(held) /\ held.id # 0
      BY <2>0, <3>1 DEF PointersInv, Good, isAlive
    <3>3. object[held.data] # NoObject
      BY <3>2 DEF There, NoObject
    <3> QED
      BY <2>0, <3>1, <3>2, <3>3 DEF ObjectsInv
  <2> QED
    BY <2>1, <2>2, <2>3, <2>4, <2>5
<1> QED
  BY <1>1, SignalsInit, SignalsStep, PTL DEF SpecSignals, OnlyTheLivingReached

-----------------------------------------------------------------------------
(* AssetProvider: loadables are ready *)

Resolved == [from : Path, paths : SUBSET Path, nested : BOOLEAN]
Frames ==
  [file : AssetFile, path : Path, todo : SUBSET AssetId,
   proceeding : AssetId \cup {NoName}, paths : SUBSET Path]
Loadables ==
  [class : Class \cup {NoName}, assets : Resolved, m_initFunctions : Seq(Nat),
   m_released : BOOLEAN, registeredInits : Seq(Nat), ran : Seq(Nat)]
Creations == [place : Place, type : Class, at : Nat, running : BOOLEAN]

\* Paths begin as the folder of the file, and no object put the program's folder
\* before them again.
Alone == programPath = "absolute" \/ inside = 0

\* The path of the call names the folder of the file, what it resolved lies there,
\* and so will what its executor resolves.
InFolder(t) ==
  /\ absolutePath(t.path) = Beside(t.file.folder)
  /\ \A path \in t.paths : path = Beside(t.file.folder)
  /\ t.proceeding # NoName => m_executorPath[t.proceeding] = Beside(t.file.folder)

\* The calls of parseTemplate, all for one file.
ParsingInv ==
  /\ m_executors \subseteq AssetId
  /\ m_executorPath \in [AssetId -> Path]
  /\ unread \subseteq AssetFile
  /\ inside \in Nat
  /\ parsing \in Seq(Frames)
  /\ \A i, j \in 1 .. Len(parsing) : parsing[i].file = parsing[j].file
  /\ Alone => \A i \in 1 .. Len(parsing) : InFolder(parsing[i])

\* Templates and loadables have assets in their folder; none is made before the
\* search began.
TemplatesInv ==
  /\ registered \subseteq Class
  /\ \A id \in DOMAIN m_templates :
       m_templates[id].assets \in Resolved /\ InTheirFolder(m_templates[id].assets)
  /\ \A p \in Place : InTheirFolder(loadable[p].assets)
  /\ unread = AssetFile =>
       /\ parsing = <<>>
       /\ \A id \in DOMAIN m_templates : m_templates[id] = NoTemplate
       /\ \A p \in Place : loadable[p] = NoLoadable

\* A loadable that was handed out.
Ready(l) == l.m_released /\ l.m_initFunctions = <<>> /\ l.ran = l.registeredInits

\* A loadable that the call c is creating.
Underway(l, c) ==
  /\ l # NoLoadable /\ ~l.m_released
  /\ l.m_initFunctions = l.registeredInits
  /\ c.at \in 0 .. Len(l.registeredInits)
  /\ l.ran = SubSeq(l.registeredInits, 1, c.at)

\* A loadable that is there is being created by one call, which knows which of its
\* init functions ran, or was handed out.
LoadablesInv ==
  /\ loadable \in [Place -> Loadables]
  /\ creating \in Seq(Creations)
  /\ DOMAIN m_objects = Place
  /\ \A p \in Place : loadable[p] = NoLoadable \/
       /\ m_objects[p] = loadable[p].class
       /\ \/ Ready(loadable[p])
          \/ \E i \in 1 .. Len(creating) : creating[i].place = p
  /\ \A i \in 1 .. Len(creating) :
       /\ Underway(loadable[creating[i].place], creating[i])
       /\ \A j \in 1 .. Len(creating) : creating[i].place = creating[j].place => i = j

LEMMA NoLoadableIs ==
  /\ NoPath \in Path /\ NoAssets \in Resolved /\ NoAssets.paths = {}
  /\ NoTemplate.class = NoName /\ NoTemplate.assets = NoAssets
  /\ NoLoadable \in Loadables /\ NoLoadable.class = NoName /\ NoLoadable.assets = NoAssets
<1>1. NoPath \in Path
  BY DEF NoPath, Path
<1>2. NoAssets \in Resolved /\ NoAssets.paths = {}
  BY <1>1 DEF NoAssets, Resolved
<1>3. NoTemplate.class = NoName /\ NoTemplate.assets = NoAssets
  BY DEF NoTemplate
<1>4. <<>> \in Seq(Nat)
  OBVIOUS
<1>5. /\ NoLoadable.class = NoName /\ NoLoadable.assets = NoAssets
      /\ NoLoadable \in Loadables
  BY <1>2, <1>4 DEF NoLoadable, Loadables
<1> QED
  BY <1>1, <1>2, <1>3, <1>5

LEMMA AssetsInit == InitAssets => ParsingInv /\ TemplatesInv /\ LoadablesInv
<1> SUFFICES ASSUME InitAssets
             PROVE  ParsingInv /\ TemplatesInv /\ LoadablesInv
  OBVIOUS
<1>1. parsing \in Seq(Frames) /\ Len(parsing) = 0 /\ creating \in Seq(Creations)
      /\ Len(creating) = 0
  BY DEF InitAssets
<1>2. ParsingInv
  BY <1>1, NoLoadableIs DEF InitAssets, ParsingInv
<1>3. TemplatesInv
  BY NoLoadableIs DEF InitAssets, TemplatesInv, InTheirFolder
<1>4. LoadablesInv
  BY <1>1, NoLoadableIs DEF InitAssets, LoadablesInv
<1> QED
  BY <1>2, <1>3, <1>4

-----------------------------------------------------------------------------
(* Templates *)

LEMMA AbsolutePathIs ==
  /\ \A path \in Path : absolutePath(path) \in Path
  /\ \A path \in Path : path.prefixes = 0 => absolutePath(path) = Beside(path)
  /\ \A path \in Path : Beside(path) \in Path
  /\ \A path \in Path : programPath = "absolute" => absolutePath(Beside(path)) = Beside(path)
<1>1. ASSUME NEW path \in Path
      PROVE  /\ absolutePath(path) \in Path
             /\ path.prefixes = 0 => absolutePath(path) = Beside(path)
             /\ Beside(path) \in Path
             /\ programPath = "absolute" => absolutePath(Beside(path)) = Beside(path)
  <2>1. CASE path.absolute
    BY <2>1 DEF absolutePath, Beside
  <2>2. CASE ~path.absolute
    <3>1. path.name \in FolderName \cup {NoName} /\ path.prefixes + 1 \in Nat
      BY DEF Path
    <3>2. absolutePath(path) = Under(path, path.prefixes + 1) /\ Beside(path) = Under(path, 1)
      BY <2>2 DEF absolutePath, Beside
    <3>3. ASSUME NEW k \in Nat
          PROVE  /\ Under(path, k) \in Path
                 /\ Under(path, k).absolute = (programPath = "absolute")
      BY <3>1 DEF Under, Path
    <3>4. programPath = "absolute" => absolutePath(Under(path, 1)) = Under(path, 1)
      BY <3>3 DEF absolutePath
    <3>5. path.prefixes = 0 => path.prefixes + 1 = 1
      OBVIOUS
    <3> QED
      BY <3>1, <3>2, <3>3, <3>4, <3>5
  <2> QED
    BY <2>1, <2>2
<1> QED
  BY <1>1

\* The innermost call.
LEMMA InnermostIs ==
  ASSUME ParsingInv, parsing # <<>>
  PROVE  /\ Len(parsing) \in Nat \ {0} /\ Len(parsing) \in 1 .. Len(parsing)
         /\ Innermost = parsing[Len(parsing)] /\ Innermost \in Frames
         /\ Alone => InFolder(Innermost)
<1>1. parsing \in Seq(Frames)
  BY DEF ParsingInv
<1>2. Len(parsing) \in Nat \ {0}
  BY <1>1, EmptySeq, LenProperties
<1> DEFINE n == Len(parsing)
<1>3. n \in Nat \ {0}
  BY <1>2
<1> HIDE DEF n
<1>4. n \in 1 .. n
  BY <1>3
<1>5. parsing[n] \in Frames
  BY <1>1, <1>4, ElementOfSeq DEF n
<1>6. Innermost = parsing[n]
  BY DEF Innermost, n
<1>7. Alone => InFolder(parsing[n])
  BY <1>4 DEF ParsingInv, n
<1>8. Alone => InFolder(Innermost)
  BY <1>6, <1>7
<1> QED
  BY <1>3, <1>4, <1>5, <1>6, <1>8 DEF n

\* The innermost call is replaced by another for the same file.
LEMMA ReplaceInnermost ==
  ASSUME ParsingInv, parsing # <<>>, NEW t \in Frames, t.file = Innermost.file
  PROVE  LET s == [parsing EXCEPT ![Len(parsing)] = t]
         IN /\ s \in Seq(Frames) /\ Len(s) = Len(parsing)
            /\ s[Len(parsing)] = t
            /\ \A i \in 1 .. Len(parsing) : i # Len(parsing) => s[i] = parsing[i]
            /\ \A i, j \in 1 .. Len(s) : s[i].file = s[j].file
<1> DEFINE n == Len(parsing)  s == [parsing EXCEPT ![n] = t]
<1>1. parsing \in Seq(Frames) /\ \A i, j \in 1 .. n : parsing[i].file = parsing[j].file
  BY DEF ParsingInv
<1>2. n \in Nat \ {0} /\ n \in 1 .. n /\ parsing[n].file = t.file
  BY InnermostIs
<1>3. parsing \in [1 .. n -> Frames]
  BY <1>1, LenProperties
<1> HIDE DEF n
<1>4. s \in [1 .. n -> Frames] /\ s[n] = t /\ \A i \in 1 .. n : i # n => s[i] = parsing[i]
  BY <1>2, <1>3
<1> HIDE DEF s
<1>5. s \in Seq(Frames) /\ Len(s) = n
  BY <1>2, <1>4, SeqDef, LenProperties
<1>6. \A i \in 1 .. n : s[i].file = t.file
  BY <1>1, <1>2, <1>4
<1> QED
  BY <1>4, <1>5, <1>6 DEF n, s

\* A call that begins resolves against the folder of the file.
LEMMA FrameIs ==
  ASSUME NEW f \in AssetFile, NEW path \in Path, NEW assets \in SUBSET AssetId,
         Alone => absolutePath(path) = Beside(f.folder)
  PROVE  /\ Frame(f, path, assets) \in Frames /\ Frame(f, path, assets).file = f
         /\ Alone => InFolder(Frame(f, path, assets))
<1> DEFINE t == Frame(f, path, assets)
<1>1. t = [file |-> f, path |-> path, todo |-> assets, proceeding |-> NoName, paths |-> {}]
  BY DEF Frame
<1> HIDE DEF t
<1>2. /\ t \in Frames /\ t.file = f /\ t.path = path /\ t.paths = {} /\ t.proceeding = NoName
  BY <1>1 DEF Frames
<1>3. Alone => InFolder(t)
  BY <1>2 DEF InFolder
<1> QED
  BY <1>2, <1>3 DEF t

LEMMA ProcessFileKeeps ==
  ASSUME ParsingInv, NEW f \in AssetFile, ProcessFile(f)
  PROVE  ParsingInv'
<1>1. f.folder \in Path /\ f.assets \in SUBSET AssetId /\ f.folder.prefixes = 0
  BY AssetsAssumption
<1> DEFINE t == Frame(f, f.folder, f.assets)
<1>2. t \in Frames /\ (Alone => InFolder(t))
  BY <1>1, AbsolutePathIs, FrameIs
<1>3. /\ unread' = unread \ {f} /\ (parsing' = <<>> \/ parsing' = <<t>>)
      /\ m_executors' = m_executors /\ m_executorPath' = m_executorPath
      /\ programPath' = programPath /\ inside' = inside
  BY DEF ProcessFile
<1> HIDE DEF t
<1>4. /\ parsing' \in Seq(Frames) /\ Len(parsing') \in 0 .. 1
      /\ \A i \in 1 .. Len(parsing') : i = 1 /\ parsing'[i] = t
  <2>1. /\ <<>> \in Seq(Frames) /\ Len(<<>>) = 0
        /\ <<t>> \in Seq(Frames) /\ Len(<<t>>) = 1 /\ <<t>>[1] = t
    BY <1>2
  <2>2. CASE parsing' = <<>>
    BY <2>1, <2>2
  <2>3. CASE parsing' = <<t>>
    <3>1. Len(parsing') = 1 /\ parsing'[1] = t /\ parsing' \in Seq(Frames)
      BY <2>1, <2>3
    <3> QED
      BY <3>1
  <2> QED
    BY <1>3, <2>2, <2>3
<1>5. Alone' => \A i \in 1 .. Len(parsing') : InFolder(parsing[i])'
  BY <1>2, <1>3, <1>4 DEF Alone, InFolder, absolutePath, Beside, Under
<1> QED
  BY <1>3, <1>4, <1>5 DEF ParsingInv

LEMMA ParseAssetKeeps ==
  ASSUME ParsingInv, NEW a \in AssetId, ParseAsset(a)
  PROVE  ParsingInv'
<1> DEFINE n == Len(parsing)  o == Innermost
           b == IF a \in m_executors THEN a ELSE NoName
           t == [o EXCEPT !.todo = o.todo \ {a}, !.proceeding = b]
<1>1. /\ parsing # <<>> /\ o.proceeding = NoName
      /\ parsing' = [parsing EXCEPT ![n].todo = @ \ {a}, ![n].proceeding = b]
      /\ m_executorPath' = IF a \in m_executors
           THEN [m_executorPath EXCEPT ![a] = absolutePath(o.path)] ELSE m_executorPath
      /\ m_executors' = m_executors /\ unread' = unread
      /\ programPath' = programPath /\ inside' = inside
  BY DEF ParseAsset, Between
<1>2. n \in 1 .. n /\ o = parsing[n] /\ o \in Frames /\ (Alone => InFolder(o))
  BY <1>1, InnermostIs
<1>3. parsing' = [parsing EXCEPT ![n] = t]
  BY <1>1, <1>2 DEF Frames
<1>4. b \in AssetId \cup {NoName} /\ (b # NoName => b = a /\ a \in m_executors)
  OBVIOUS
<1> HIDE DEF b
<1>5. /\ t \in Frames /\ t.file = o.file /\ t.path = o.path /\ t.paths = o.paths
      /\ t.proceeding = b
  BY <1>2, <1>4 DEF Frames
<1> HIDE DEF t
<1>6. /\ parsing' \in Seq(Frames) /\ Len(parsing') = n /\ parsing'[n] = t
      /\ \A i \in 1 .. n : i # n => parsing'[i] = parsing[i]
      /\ \A i, j \in 1 .. n : parsing'[i].file = parsing'[j].file
  <2> DEFINE v == [parsing EXCEPT ![n] = t]
  <2>1. /\ v \in Seq(Frames) /\ Len(v) = n /\ v[n] = t
        /\ \A i \in 1 .. n : i # n => v[i] = parsing[i]
        /\ \A i, j \in 1 .. Len(v) : v[i].file = v[j].file
    BY <1>1, <1>5, ReplaceInnermost
  <2>2. parsing' = v
    BY <1>3
  <2> HIDE DEF v
  <2> QED
    BY <2>1, <2>2
<1>7. absolutePath(o.path) \in Path /\ m_executorPath \in [AssetId -> Path]
  BY <1>2, AbsolutePathIs DEF Frames, ParsingInv
<1> HIDE DEF o
<1>8. /\ m_executorPath' \in [AssetId -> Path]
      /\ \A e \in AssetId : m_executorPath'[e] = m_executorPath[e] \/
                               (e = a /\ m_executorPath'[e] = absolutePath(o.path))
      /\ a \in m_executors => m_executorPath'[a] = absolutePath(o.path)
  BY <1>1, <1>7
<1>9. programPath' = programPath
  BY <1>1
<1>10. ASSUME Alone', NEW i \in 1 .. n
      PROVE  InFolder(parsing[i])'
  <2>1. Alone
    BY <1>1, <1>10 DEF Alone
  <2>2. absolutePath(o.path) = Beside(o.file.folder)
    BY <1>2, <2>1 DEF InFolder
  <2>3. parsing[i].file = o.file /\ parsing[i] \in Frames /\ InFolder(parsing[i])
    <3>1. parsing[i].file = parsing[n].file /\ parsing \in Seq(Frames)
      BY <1>2 DEF ParsingInv, n
    <3> QED
      BY <1>2, <2>1, <3>1, ElementOfSeq DEF ParsingInv
  <2>4. CASE i = n
    <3>1. /\ absolutePath(t.path) = Beside(t.file.folder)
          /\ \A path \in t.paths : path = Beside(t.file.folder)
      BY <1>2, <1>5, <2>1 DEF InFolder
    <3>2. t.proceeding # NoName => m_executorPath'[t.proceeding] = Beside(t.file.folder)
      BY <1>4, <1>5, <1>8, <2>2
    <3>3. parsing'[i] = t
      BY <1>6, <2>4
    <3> QED
      BY <1>9, <3>1, <3>2, <3>3 DEF InFolder, absolutePath, Beside, Under
  <2>5. CASE i # n
    <3> DEFINE u == parsing[i]
    <3>1. parsing'[i] = u
      BY <1>6, <2>5
    <3>2. u.file = o.file /\ u \in Frames /\ InFolder(u)
      BY <2>3
    <3> HIDE DEF u
    <3>3. u.proceeding # NoName => m_executorPath'[u.proceeding] = Beside(u.file.folder)
      <4>1. u.proceeding # NoName => u.proceeding \in AssetId
        BY <3>2 DEF Frames
      <4> QED
        BY <1>8, <2>2, <3>2, <4>1 DEF InFolder
    <3> QED
      <4>1. /\ absolutePath(u.path) = Beside(u.file.folder)
            /\ \A path \in u.paths : path = Beside(u.file.folder)
        BY <3>2 DEF InFolder
      <4> QED
        BY <1>9, <3>1, <3>3, <4>1 DEF InFolder, absolutePath, Beside, Under
  <2> QED
    BY <2>4, <2>5
<1> QED
  BY <1>1, <1>6, <1>8, <1>10 DEF ParsingInv

\* The innermost call goes on without touching what executors resolve against.
LEMMA InnermostGoesOn ==
  ASSUME ParsingInv, parsing # <<>>, NEW t \in Frames, t.file = Innermost.file,
         Alone => InFolder(t),
         parsing' = [parsing EXCEPT ![Len(parsing)] = t],
         UNCHANGED <<m_executors, m_executorPath, programPath, unread, inside>>
  PROVE  ParsingInv'
<1> DEFINE n == Len(parsing)
<1>1. /\ parsing' \in Seq(Frames) /\ Len(parsing') = n /\ parsing'[n] = t
      /\ \A i \in 1 .. n : i # n => parsing'[i] = parsing[i]
      /\ \A i, j \in 1 .. n : parsing'[i].file = parsing'[j].file
  BY ReplaceInnermost
<1> HIDE DEF n
<1>2. ASSUME Alone', NEW i \in 1 .. n
      PROVE  InFolder(parsing[i])'
  <2>1. Alone
    BY <1>2 DEF Alone
  <2>2. InFolder(t) /\ InFolder(parsing[i])
    BY <1>2, <2>1 DEF ParsingInv, n
  <2>3. parsing'[i] = t \/ parsing'[i] = parsing[i]
    BY <1>1
  <2> QED
    BY <2>2, <2>3 DEF InFolder, absolutePath, Beside, Under
<1> QED
  BY <1>1, <1>2 DEF ParsingInv

LEMMA FullPathKeeps ==
  ASSUME ParsingInv, fullPath
  PROVE  ParsingInv'
<1> DEFINE n == Len(parsing)  o == Innermost
           t == [o EXCEPT !.paths = o.paths \cup {m_executorPath[o.proceeding]}]
<1>1. /\ parsing # <<>> /\ o.proceeding # NoName
      /\ parsing' = [parsing EXCEPT ![n].paths = @ \cup {m_executorPath[o.proceeding]}]
      /\ UNCHANGED <<m_executors, m_executorPath, programPath, unread, inside>>
  BY DEF fullPath, Proceeding
<1>2. n \in 1 .. n /\ o = parsing[n] /\ o \in Frames /\ (Alone => InFolder(o))
  BY <1>1, InnermostIs
<1>3. parsing' = [parsing EXCEPT ![n] = t]
  BY <1>1, <1>2
<1>4. m_executorPath[o.proceeding] \in Path
  BY <1>1, <1>2 DEF Frames, ParsingInv
<1> HIDE DEF o
<1>5. /\ t \in Frames /\ t.file = o.file /\ t.path = o.path /\ t.proceeding = o.proceeding
      /\ t.paths = o.paths \cup {m_executorPath[o.proceeding]}
  BY <1>2, <1>4 DEF Frames
<1> HIDE DEF t
<1>6. Alone => InFolder(t)
  BY <1>1, <1>2, <1>5 DEF InFolder
<1> QED
  BY <1>1, <1>3, <1>5, <1>6, InnermostGoesOn DEF o

LEMMA ProceedEndKeeps ==
  ASSUME ParsingInv, ProceedEnd
  PROVE  ParsingInv'
<1> DEFINE n == Len(parsing)  o == Innermost
           t == [o EXCEPT !.proceeding = NoName]
<1>1. /\ parsing # <<>>
      /\ parsing' = [parsing EXCEPT ![n].proceeding = NoName]
      /\ UNCHANGED <<m_executors, m_executorPath, programPath, unread, inside>>
  BY DEF ProceedEnd, Proceeding
<1>2. n \in 1 .. n /\ o = parsing[n] /\ o \in Frames /\ (Alone => InFolder(o))
  BY <1>1, InnermostIs
<1>3. parsing' = [parsing EXCEPT ![n] = t]
  BY <1>1, <1>2
<1> HIDE DEF o
<1>4. /\ t \in Frames /\ t.file = o.file /\ t.path = o.path /\ t.proceeding = NoName
      /\ t.paths = o.paths
  BY <1>2 DEF Frames
<1> HIDE DEF t
<1>5. Alone => InFolder(t)
  BY <1>2, <1>4 DEF InFolder
<1> QED
  BY <1>1, <1>3, <1>4, <1>5, InnermostGoesOn DEF o

LEMMA CreateTemplateKeeps ==
  ASSUME ParsingInv, NEW assets \in SUBSET AssetId, createTemplate(assets)
  PROVE  ParsingInv'
<1> DEFINE n == Len(parsing)  o == Innermost
           t == Frame(o.file, m_executorPath[o.proceeding], assets)
<1>1. /\ parsing # <<>> /\ o.proceeding # NoName
      /\ inside' = inside + 1 /\ parsing' = Append(parsing, t)
      /\ UNCHANGED <<m_executors, m_executorPath, programPath, unread>>
  BY DEF createTemplate, Proceeding
<1>2. n \in Nat /\ n \in 1 .. n /\ o = parsing[n] /\ o \in Frames /\ (Alone => InFolder(o))
  BY <1>1, InnermostIs
<1>3. /\ m_executorPath[o.proceeding] \in Path /\ o.file \in AssetFile
      /\ parsing \in Seq(Frames) /\ inside \in Nat
      /\ \A i, j \in 1 .. n : parsing[i].file = parsing[j].file
  BY <1>1, <1>2 DEF Frames, ParsingInv
<1>4. Alone' => programPath = "absolute" /\ Alone
  BY <1>1, <1>3 DEF Alone
<1>5. /\ t \in Frames /\ t.file = o.file
      /\ Alone' => InFolder(t)
  <2> DEFINE f == o.file  path == m_executorPath[o.proceeding]
  <2>1. f \in AssetFile /\ path \in Path /\ f.folder \in Path
    BY <1>3, AssetsAssumption
  <2>2. Alone' => path = Beside(f.folder)
    BY <1>1, <1>2, <1>4 DEF InFolder
  <2> HIDE DEF f, path
  <2>3. Alone' => absolutePath(path) = Beside(f.folder)
    BY <1>4, <2>1, <2>2, AbsolutePathIs
  <2>4. t = Frame(f, path, assets)
    BY DEF f, path
  <2>5. t = [file |-> f, path |-> path, todo |-> assets, proceeding |-> NoName, paths |-> {}]
    BY <2>4 DEF Frame
  <2> HIDE DEF t
  <2>6. /\ t \in Frames /\ t.file = f /\ t.path = path /\ t.paths = {}
        /\ t.proceeding = NoName
    BY <2>1, <2>5 DEF Frames
  <2>7. Alone' => InFolder(t)
    BY <2>3, <2>6 DEF InFolder
  <2> QED
    BY <2>6, <2>7 DEF f
<1> HIDE DEF t, n
<1>6. /\ parsing' \in Seq(Frames) /\ Len(parsing') = n + 1 /\ parsing'[n + 1] = t
      /\ \A i \in 1 .. n : parsing'[i] = parsing[i]
  BY <1>1, <1>3, <1>5, AppendProperties DEF n
<1>7. \A i \in 1 .. n + 1 : i \in 1 .. n \/ i = n + 1
  BY <1>2
<1>8. \A i, j \in 1 .. n + 1 : parsing'[i].file = parsing'[j].file
  <2>1. \A i \in 1 .. n + 1 : parsing'[i].file = o.file
    BY <1>2, <1>3, <1>5, <1>6, <1>7
  <2> QED
    BY <2>1
<1>9. ASSUME Alone', NEW i \in 1 .. n + 1
      PROVE  InFolder(parsing[i])'
  <2>1. parsing'[i] = t \/ (i \in 1 .. n /\ parsing'[i] = parsing[i])
    BY <1>6, <1>7
  <2>2. InFolder(t) /\ (i \in 1 .. n => InFolder(parsing[i]))
    BY <1>4, <1>5, <1>9 DEF ParsingInv, n
  <2> QED
    BY <1>1, <2>1, <2>2 DEF InFolder, absolutePath, Beside, Under
<1> QED
  BY <1>1, <1>3, <1>6, <1>8, <1>9 DEF ParsingInv

LEMMA ParseEndKeeps ==
  ASSUME ParsingInv, ParseEnd
  PROVE  ParsingInv'
<1> DEFINE n == Len(parsing)  o == Innermost
<1>1. /\ parsing # <<>>
      /\ \/ n - 1 = 0 /\ parsing' = <<>> /\ inside' = 0
         \/ /\ n - 1 # 0 /\ inside' = inside
            /\ parsing' = [Front(parsing) EXCEPT ![n - 1].paths = @ \cup o.paths]
      /\ UNCHANGED <<m_executors, m_executorPath, programPath, unread>>
  BY DEF ParseEnd, Between
<1>2. CASE parsing' = <<>> /\ inside' = 0
  <2>1. parsing' \in Seq(Frames) /\ Len(parsing') = 0 /\ inside' \in Nat
    BY <1>2
  <2> QED
    BY <1>1, <2>1 DEF ParsingInv
<1>3. CASE /\ n - 1 # 0 /\ inside' = inside
           /\ parsing' = [Front(parsing) EXCEPT ![n - 1].paths = @ \cup o.paths]
  <2>1. /\ n \in Nat \ {0} /\ n \in 1 .. n /\ o = parsing[n] /\ o \in Frames
        /\ Alone => InFolder(o)
    BY <1>1, InnermostIs
  <2>2. /\ parsing \in Seq(Frames)
        /\ \A i, j \in 1 .. n : parsing[i].file = parsing[j].file
        /\ Alone => \A i \in 1 .. n : InFolder(parsing[i])
    BY DEF ParsingInv
  <2> DEFINE m == n - 1  s == Front(parsing)
             u == parsing[m]
             t == [u EXCEPT !.paths = u.paths \cup o.paths]
  <2>3. m \in Nat \ {0} /\ m \in 1 .. m /\ m \in 1 .. n /\ 1 .. m \subseteq 1 .. n
    <3> HIDE DEF n
    <3>1. n \in Nat \ {0} /\ n - 1 # 0
      BY <1>3, <2>1
    <3> QED
      BY <3>1
  <2>4. s \in Seq(Frames) /\ Len(s) = m /\ \A i \in 1 .. m : s[i] = parsing[i]
    BY <1>1, <2>2, FrontProperties
  <2>5. u \in Frames /\ u.file = o.file /\ (Alone => InFolder(u))
    BY <2>1, <2>2, <2>3, ElementOfSeq
  <2> HIDE DEF n, o, u
  <2>6. /\ t \in Frames /\ t.file = u.file /\ t.path = u.path
        /\ t.proceeding = u.proceeding /\ t.paths = u.paths \cup o.paths
    BY <2>1, <2>5 DEF Frames
  <2> HIDE DEF t
  <2>7. Alone => InFolder(t)
    BY <2>1, <2>5, <2>6 DEF InFolder
  <2> HIDE DEF m, s
  <2>8. s \in [1 .. m -> Frames] /\ s[m] = u
    BY <2>3, <2>4, LenProperties DEF u
  <2>9. parsing' = [s EXCEPT ![m] = t]
    BY <1>3, <2>3, <2>8 DEF m, s, t
  <2>10. /\ parsing' \in [1 .. m -> Frames] /\ parsing'[m] = t
         /\ \A i \in 1 .. m : i # m => parsing'[i] = parsing[i]
    BY <2>3, <2>4, <2>6, <2>8, <2>9
  <2>11. parsing' \in Seq(Frames) /\ Len(parsing') = m
    BY <2>3, <2>10, SeqDef, LenProperties
  <2>12. \A i, j \in 1 .. m : parsing'[i].file = parsing'[j].file
    <3>1. \A i \in 1 .. m : parsing'[i].file = o.file
      BY <2>1, <2>2, <2>3, <2>5, <2>6, <2>10
    <3> QED
      BY <3>1
  <2>13. ASSUME Alone', NEW i \in 1 .. m
         PROVE  InFolder(parsing[i])'
    <3>1. Alone
      BY <1>1, <1>3, <2>13 DEF Alone
    <3>2. InFolder(t) /\ InFolder(parsing[i])
      BY <2>2, <2>3, <2>7, <3>1
    <3>3. parsing'[i] = t \/ parsing'[i] = parsing[i]
      BY <2>10
    <3> QED
      BY <1>1, <3>2, <3>3 DEF InFolder, absolutePath, Beside, Under
  <2> QED
    BY <1>1, <1>3, <2>11, <2>12, <2>13 DEF ParsingInv
<1> QED
  BY <1>1, <1>2, <1>3

LEMMA ParsingStep ==
  ASSUME ParsingInv, TemplatesInv, [NextAssets]_assetVars
  PROVE  ParsingInv'
<1>1. CASE \E f \in AssetFile : ProcessFile(f)
  BY <1>1, ProcessFileKeeps
<1>2. CASE \E a \in AssetId : ParseAsset(a)
  BY <1>2, ParseAssetKeeps
<1>3. CASE fullPath
  BY <1>3, FullPathKeeps
<1>4. CASE \E assets \in SUBSET AssetId : createTemplate(assets)
  BY <1>4, CreateTemplateKeeps
<1>5. CASE ProceedEnd
  BY <1>5, ProceedEndKeeps
<1>6. CASE ParseEnd
  BY <1>6, ParseEndKeeps
<1>7. CASE \E a \in AssetId : InstallExecutor(a)
  <2>1. PICK a \in AssetId : InstallExecutor(a)
    BY <1>7
  <2>2. /\ parsing = <<>> /\ m_executors' = m_executors \cup {a}
        /\ m_executorPath' = [m_executorPath EXCEPT ![a] = NoPath]
        /\ parsing' = parsing /\ unread' = unread /\ inside' = inside
    BY <2>1 DEF InstallExecutor, ProgramActs
  <2>3. Len(parsing) = 0
    BY <2>2
  <2> QED
    BY <2>2, <2>3, NoLoadableIs DEF ParsingInv
<1>8. CASE \E path \in {"absolute", "relative"} : StartedBy(path)
  <2>1. /\ unread = AssetFile
        /\ UNCHANGED <<m_executors, m_executorPath, unread, inside, parsing>>
    BY <1>8 DEF StartedBy
  <2>2. parsing = <<>>
    BY <2>1 DEF TemplatesInv
  <2>3. Len(parsing) = 0
    BY <2>2
  <2> QED
    BY <2>1, <2>3 DEF ParsingInv
<1>9. CASE UNCHANGED executorVars
  BY <1>9 DEF ParsingInv, executorVars, Alone, InFolder, absolutePath, Beside, Under
<1>10. \/ \E f \in AssetFile : ProcessFile(f)
       \/ \E a \in AssetId : ParseAsset(a)
       \/ fullPath \/ \E assets \in SUBSET AssetId : createTemplate(assets)
       \/ ProceedEnd \/ ParseEnd
       \/ \E a \in AssetId : InstallExecutor(a)
       \/ \E path \in {"absolute", "relative"} : StartedBy(path)
       \/ UNCHANGED executorVars
  BY DEF NextAssets, assetVars, RegisterType, CreateFails, CreateBegin, InitBegin, InitEnd,
         CreateEnd, Delete
<1> QED
  BY <1>1, <1>2, <1>3, <1>4, <1>5, <1>6, <1>7, <1>8, <1>9, <1>10

\* The template that is added at the end.
LEMMA AddedTemplate ==
  ASSUME ParsingInv, parsing # <<>>
  PROVE  LET a == [from |-> Innermost.file.folder, paths |-> Innermost.paths,
                   nested |-> inside > 0]
         IN a \in Resolved /\ InTheirFolder(a)
<1> DEFINE o == Innermost
           a == [from |-> o.file.folder, paths |-> o.paths, nested |-> inside > 0]
<1>1. o \in Frames /\ (Alone => InFolder(o)) /\ inside \in Nat
  BY InnermostIs DEF ParsingInv
<1> HIDE DEF o
<1>2. o.file.folder \in Path /\ o.paths \in SUBSET Path
  BY <1>1, AssetsAssumption DEF Frames
<1>3. (inside > 0) \in BOOLEAN /\ (~(inside > 0) => inside = 0)
  BY <1>1
<1>4. /\ a \in Resolved /\ a.from = o.file.folder /\ a.paths = o.paths
      /\ a.nested = (inside > 0)
  BY <1>2, <1>3 DEF Resolved
<1> HIDE DEF a
<1>5. InTheirFolder(a)
  BY <1>1, <1>3, <1>4 DEF InTheirFolder, Alone, InFolder
<1> QED
  BY <1>4, <1>5 DEF a, o

\* Every loadable has the assets it had, or those of a template, or none.
LEMMA AssetsOfLoadables ==
  ASSUME LoadablesInv, TemplatesInv, [NextAssets]_assetVars, NEW p \in Place
  PROVE  \/ loadable'[p].assets = loadable[p].assets
         \/ loadable'[p].assets = NoAssets
         \/ /\ unread # AssetFile
            /\ \E id \in DOMAIN m_templates : loadable'[p].assets = m_templates[id].assets
<1>1. loadable \in [Place -> Loadables]
  BY DEF LoadablesInv
<1>2. ASSUME NEW id \in DOMAIN m_templates, NEW q \in Place, NEW T \in Class,
             NEW inits \in {0, 2}, CreateBegin(id, q, T, inits)
      PROVE  \/ loadable'[p] = loadable[p]
             \/ unread # AssetFile /\ loadable'[p].assets = m_templates[id].assets
  <2> DEFINE t == m_templates[id]  f == [i \in 1 .. inits |-> i]
             l == [NoLoadable EXCEPT !.class = t.class, !.assets = t.assets,
                                     !.m_initFunctions = f, !.registeredInits = f]
  <2>1. t.class \in registered /\ loadable' = [loadable EXCEPT ![q] = l]
    BY <1>2 DEF CreateBegin
  <2>2. t # NoTemplate
    BY <2>1, NoLoadableIs, AssetsAssumption DEF TemplatesInv
  <2>3. unread # AssetFile
    BY <2>2 DEF TemplatesInv
  <2>4. l.assets = t.assets
    BY NoLoadableIs DEF Loadables
  <2> HIDE DEF l
  <2>5. loadable'[p] = loadable[p] \/ loadable'[p] = l
    BY <1>1, <2>1
  <2> QED
    BY <2>3, <2>4, <2>5
<1>3. CASE InitBegin
  <2> DEFINE q == Last(creating).place
             x == loadable[q].m_initFunctions[Last(creating).at + 1]
  <2>1. loadable' = [loadable EXCEPT ![q].ran = Append(@, x)]
    BY <1>3 DEF InitBegin
  <2> HIDE DEF x
  <2>2. loadable'[p].assets = loadable[p].assets
    <3>1. CASE p = q
      BY <1>1, <2>1, <3>1 DEF Loadables
    <3>2. CASE p # q
      BY <1>1, <2>1, <3>2
    <3> QED
      BY <3>1, <3>2
  <2> QED
    BY <2>2
<1>4. CASE CreateEnd
  <2> DEFINE q == Last(creating).place  cast == loadable[q].class = Last(creating).type
             r == [loadable[q] EXCEPT !.m_initFunctions = <<>>, !.m_released = TRUE]
  <2>1. loadable' = [loadable EXCEPT ![q] = IF cast THEN r ELSE NoLoadable]
    BY <1>4 DEF CreateEnd
  <2>2. q \in Place => r.assets = loadable[q].assets
    BY <1>1 DEF Loadables
  <2> HIDE DEF r, cast
  <2>3. loadable'[p].assets = loadable[p].assets \/ loadable'[p].assets = NoAssets
    <3>1. CASE p = q
      BY <1>1, <2>1, <2>2, <3>1, NoLoadableIs
    <3>2. CASE p # q
      BY <1>1, <2>1, <3>2
    <3> QED
      BY <3>1, <3>2
  <2> QED
    BY <2>3
<1>5. CASE \E q \in Place : Delete(q)
  <2>1. PICK q \in Place : loadable' = [loadable EXCEPT ![q] = NoLoadable]
    BY <1>5 DEF Delete
  <2> QED
    BY <1>1, <2>1, NoLoadableIs
<1>6. \/ loadable' = loadable
      \/ \E id \in DOMAIN m_templates, q \in Place, T \in Class, inits \in {0, 2} :
            CreateBegin(id, q, T, inits)
      \/ InitBegin \/ CreateEnd \/ \E q \in Place : Delete(q)
  BY DEF NextAssets, assetVars, creationVars, RegisterType, InstallExecutor, StartedBy,
         ProcessFile, ParseAsset, fullPath, createTemplate, ProceedEnd, ParseEnd, CreateFails,
         InitEnd
<1> QED
  BY <1>2, <1>3, <1>4, <1>5, <1>6

\* Before the search began nothing is made of an asset.
LEMMA SearchBegins ==
  ASSUME ParsingInv, TemplatesInv, LoadablesInv, [NextAssets]_assetVars, unread' = AssetFile
  PROVE  /\ unread = AssetFile
         /\ parsing' = parsing /\ m_templates' = m_templates /\ loadable' = loadable
<1>1. \A f \in AssetFile : ~ProcessFile(f)
  BY DEF ProcessFile
<1>2. unread = AssetFile
  BY <1>1 DEF NextAssets, assetVars, executorVars, RegisterType, InstallExecutor, StartedBy,
         ParseAsset, fullPath, createTemplate, ProceedEnd, ParseEnd, CreateFails,
         CreateBegin, InitBegin, InitEnd, CreateEnd, Delete
<1>3. /\ parsing = <<>> /\ \A id \in DOMAIN m_templates : m_templates[id] = NoTemplate
      /\ \A p \in Place : loadable[p] = NoLoadable
  BY <1>2 DEF TemplatesInv
<1>4. creating = <<>>
  <2>1. Len(creating) \in Nat /\ \A i \in 1 .. Len(creating) : creating[i].place \in Place
    <3>1. creating \in Seq(Creations)
      BY DEF LoadablesInv
    <3>2. Len(creating) \in Nat
      BY <3>1, LenProperties
    <3>3. \A i \in 1 .. Len(creating) : creating[i] \in Creations
      BY <3>1, ElementOfSeq
    <3> QED
      BY <3>2, <3>3 DEF Creations
  <2>2. \A i \in 1 .. Len(creating) : loadable[creating[i].place] # NoLoadable
    BY DEF LoadablesInv, Underway
  <2>3. Len(creating) = 0
    BY <1>3, <2>1, <2>2
  <2> QED
    BY <2>3, EmptySeq DEF LoadablesInv
<1>5. \A id \in DOMAIN m_templates, q \in Place, T \in Class, inits \in {0, 2} :
        ~CreateBegin(id, q, T, inits)
  BY <1>3, NoLoadableIs, AssetsAssumption DEF CreateBegin, TemplatesInv
<1>6. \A q \in Place : ~loadable[q].m_released
  BY <1>3 DEF NoLoadable
<1> QED
  BY <1>1, <1>2, <1>3, <1>4, <1>5, <1>6
     DEF NextAssets, assetVars, executorVars, creationVars, RegisterType, InstallExecutor,
         StartedBy, ParseAsset, fullPath, createTemplate, ProceedEnd, ParseEnd, CreateFails,
         InitBegin, InitEnd, CreateEnd, Delete, Between, Proceeding

LEMMA TemplatesStep ==
  ASSUME ParsingInv, TemplatesInv, LoadablesInv, [NextAssets]_assetVars
  PROVE  TemplatesInv'
<1>1. registered' \subseteq Class
  BY DEF TemplatesInv, NextAssets, assetVars, executorVars, RegisterType, InstallExecutor,
         StartedBy, ProcessFile, ParseAsset, fullPath, createTemplate, ProceedEnd, ParseEnd,
         CreateFails, CreateBegin, InitBegin, InitEnd, CreateEnd, Delete
<1>2. unread' = AssetFile =>
       /\ parsing' = <<>>
       /\ \A id \in DOMAIN m_templates' : m_templates'[id] = NoTemplate
       /\ \A p \in Place : loadable'[p] = NoLoadable
  BY SearchBegins DEF TemplatesInv
<1>3. CASE programPath' # programPath
  <2>1. PICK path \in {"absolute", "relative"} : StartedBy(path)
    BY <1>3 DEF NextAssets, assetVars, executorVars, RegisterType, InstallExecutor,
         ProcessFile, ParseAsset, fullPath, createTemplate, ProceedEnd, ParseEnd,
         CreateFails, CreateBegin, InitBegin, InitEnd, CreateEnd, Delete
  <2>2. unread' = AssetFile /\ m_templates' = m_templates
    BY <2>1 DEF StartedBy
  <2>3. /\ \A id \in DOMAIN m_templates' : m_templates'[id].assets = NoAssets
        /\ \A p \in Place : loadable'[p].assets = NoAssets
    BY <1>2, <2>2, NoLoadableIs
  <2> QED
    BY <1>1, <1>2, <2>3, NoLoadableIs DEF TemplatesInv, InTheirFolder
<1>4. CASE programPath' = programPath
  <2>1. ASSUME NEW id \in DOMAIN m_templates'
        PROVE  \E a \in Resolved : a = m_templates'[id].assets /\ InTheirFolder(a)
    <3>1. CASE m_templates' = m_templates
      BY <3>1 DEF TemplatesInv
    <3>2. CASE m_templates' # m_templates
      <4> DEFINE a == [from |-> Innermost.file.folder, paths |-> Innermost.paths,
                       nested |-> inside > 0]
      <4>1. ParseEnd
        BY <3>2 DEF NextAssets, assetVars, RegisterType, InstallExecutor,
             StartedBy, ProcessFile, ParseAsset, fullPath, createTemplate, ProceedEnd,
             CreateFails, CreateBegin, InitBegin, InitEnd, CreateEnd, Delete
      <4>2. /\ parsing # <<>>
            /\ m_templates' = [m_templates EXCEPT ![Innermost.file.id] =
                 [class |-> Innermost.file.class, assets |-> a]]
        BY <3>2, <4>1 DEF ParseEnd, Between
      <4>3. a \in Resolved /\ InTheirFolder(a)
        BY <4>2, AddedTemplate
      <4> HIDE DEF a
      <4>4. id \in DOMAIN m_templates /\
            (m_templates'[id].assets = a \/ m_templates'[id] = m_templates[id])
        BY <4>2
      <4> QED
        BY <4>3, <4>4 DEF TemplatesInv
    <3> QED
      BY <3>1, <3>2
  <2>2. ASSUME NEW p \in Place
        PROVE  \E a : a = loadable'[p].assets /\ InTheirFolder(a)
    <3>1. InTheirFolder(NoAssets)
      BY NoLoadableIs DEF InTheirFolder
    <3> QED
      BY <3>1, AssetsOfLoadables DEF TemplatesInv
  <2>3. \A id \in DOMAIN m_templates' :
          m_templates'[id].assets \in Resolved /\ InTheirFolder(m_templates[id].assets)'
    BY <1>4, <2>1 DEF InTheirFolder, Beside, Under
  <2>4. \A p \in Place : InTheirFolder(loadable[p].assets)'
    BY <1>4, <2>2 DEF InTheirFolder, Beside, Under
  <2> QED
    BY <1>1, <1>2, <2>3, <2>4 DEF TemplatesInv
<1> QED
  BY <1>3, <1>4

-----------------------------------------------------------------------------
(* Creations and deletions *)

\* The sequence <<1, ..., n>>.
LEMMA FunctionsIs ==
  ASSUME NEW n \in Nat
  PROVE  /\ [i \in 1 .. n |-> i] \in Seq(Nat) /\ Len([i \in 1 .. n |-> i]) = n
         /\ SubSeq([i \in 1 .. n |-> i], 1, 0) = <<>>
<1> DEFINE f == [i \in 1 .. n |-> i]
<1>1. f \in [1 .. n -> Nat]
  OBVIOUS
<1> HIDE DEF f
<1>2. f \in Seq(Nat) /\ Len(f) = n
  BY <1>1, SeqDef, LenProperties
<1>3. SubSeq(f, 1, 0) = <<>>
  BY SubSeqEmpty
<1> QED
  BY <1>2, <1>3 DEF f

\* One more of the elements from the front.
LEMMA OneMore ==
  ASSUME NEW S, NEW s \in Seq(S), NEW n \in Nat, n < Len(s)
  PROVE  /\ Append(SubSeq(s, 1, n), s[n + 1]) = SubSeq(s, 1, n + 1)
         /\ SubSeq(s, 1, n) \in Seq(S) /\ s[n + 1] \in S
<1> DEFINE k == Len(s)
<1>1. k \in Nat
  BY LenProperties
<1>2. n < k
  OBVIOUS
<1> HIDE DEF k
<1>3. n + 1 \in 1 .. k /\ \A i \in 1 .. n : i \in 1 .. k
  BY <1>1, <1>2
<1>4. \A i \in 1 .. k : s[i] \in S
  BY ElementOfSeq DEF k
<1>5. /\ SubSeq(s, 1, n) \in Seq(S) /\ Len(SubSeq(s, 1, n)) = n
      /\ \A i \in 1 .. n : SubSeq(s, 1, n)[i] = s[i]
  BY <1>3, <1>4, SubSeqProperties
<1>6. /\ SubSeq(s, 1, n + 1) \in Seq(S) /\ Len(SubSeq(s, 1, n + 1)) = n + 1
      /\ \A i \in 1 .. n + 1 : SubSeq(s, 1, n + 1)[i] = s[i]
  BY <1>3, <1>4, SubSeqProperties
<1> DEFINE a == SubSeq(s, 1, n)  b == SubSeq(s, 1, n + 1)  e == s[n + 1]
<1>7. e \in S
  BY <1>3, <1>4
<1> HIDE DEF a, b, e
<1>8. /\ Append(a, e) \in Seq(S) /\ Len(Append(a, e)) = n + 1
      /\ Append(a, e)[n + 1] = e /\ \A i \in 1 .. n : Append(a, e)[i] = a[i]
  BY <1>5, <1>7, AppendProperties DEF a
<1>9. \A i \in 1 .. n + 1 : Append(a, e)[i] = b[i]
  <2> TAKE i \in 1 .. n + 1
  <2>1. i \in 1 .. n \/ i = n + 1
    OBVIOUS
  <2>2. CASE i \in 1 .. n
    BY <1>5, <1>6, <1>8, <2>2 DEF a, b
  <2>3. CASE i = n + 1
    BY <1>6, <1>8, <2>3 DEF b, e
  <2> QED
    BY <2>1, <2>2, <2>3
<1>10. Append(a, e) = b
  <2>1. b \in Seq(S) /\ Len(b) = n + 1
    BY <1>6 DEF b
  <2> DEFINE c == Append(a, e)
  <2>2. c \in Seq(S) /\ Len(c) = Len(b) /\ \A i \in 1 .. Len(c) : c[i] = b[i]
    BY <1>8, <1>9, <2>1
  <2> HIDE DEF c
  <2>3. c = b
    BY <2>1, <2>2, SeqEqual
  <2> QED
    BY <2>3 DEF c
<1> QED
  BY <1>5, <1>7, <1>10 DEF a, b, e

LEMMA CreateBeginKeeps ==
  ASSUME TemplatesInv, LoadablesInv, NEW id \in DOMAIN m_templates, NEW p \in Place,
         NEW T \in Class, NEW inits \in {0, 2}, CreateBegin(id, p, T, inits)
  PROVE  LoadablesInv'
<1> DEFINE t == m_templates[id]  f == [i \in 1 .. inits |-> i]
           k == t.class  a == t.assets
           l == [NoLoadable EXCEPT !.class = k, !.assets = a, !.m_initFunctions = f,
                                   !.registeredInits = f]
           c == [place |-> p, type |-> T, at |-> 0, running |-> FALSE]
<1>1. /\ k \in registered /\ loadable[p] = NoLoadable
      /\ m_objects' = [m_objects EXCEPT ![p] = k]
      /\ loadable' = [loadable EXCEPT ![p] = l]
      /\ creating' = Append(creating, c)
  BY DEF CreateBegin
<1>2. k \in Class /\ a \in Resolved
  BY <1>1 DEF TemplatesInv
<1>3. f \in Seq(Nat) /\ Len(f) \in Nat /\ SubSeq(f, 1, 0) = <<>>
  BY FunctionsIs
<1> HIDE DEF f, k, a
<1>4. /\ l \in Loadables /\ l.class = k /\ ~l.m_released
      /\ l.m_initFunctions = f /\ l.registeredInits = f /\ l.ran = <<>>
  <2>1. NoLoadable.ran = <<>> /\ NoLoadable.m_released = FALSE
    BY DEF NoLoadable
  <2> QED
    BY <1>2, <1>3, <2>1, NoLoadableIs DEF Loadables
<1> HIDE DEF l
<1>5. c \in Creations /\ c.place = p /\ c.at = 0
  BY DEF Creations
<1> HIDE DEF c
<1>6. l # NoLoadable /\ Underway(l, c)
  <2>1. l # NoLoadable
    BY <1>2, <1>4, NoLoadableIs, AssetsAssumption
  <2> QED
    BY <1>3, <1>4, <1>5, <2>1 DEF Underway
<1> DEFINE n == Len(creating)
<1>7. creating \in Seq(Creations) /\ loadable \in [Place -> Loadables] /\ DOMAIN m_objects = Place
  BY DEF LoadablesInv
<1>8. /\ creating' \in Seq(Creations) /\ Len(creating') = n + 1
      /\ creating'[n + 1] = c /\ \A i \in 1 .. n : creating'[i] = creating[i]
  BY <1>1, <1>5, <1>7, AppendProperties
<1>9. n \in Nat /\ \A i \in 1 .. n : creating[i] \in Creations
  BY <1>7, LenProperties, ElementOfSeq
<1>10. \A i \in 1 .. n : creating[i].place \in Place \ {p}
  BY <1>1, <1>9 DEF LoadablesInv, Underway, Creations
<1>11. \A i \in 1 .. n : Underway(loadable[creating[i].place], creating[i])
  BY DEF LoadablesInv
<1>12. \A i, j \in 1 .. n : creating[i].place = creating[j].place => i = j
  BY DEF LoadablesInv
<1>13. \A q \in Place : loadable[q] = NoLoadable \/
         /\ m_objects[q] = loadable[q].class
         /\ Ready(loadable[q]) \/ \E i \in 1 .. n : creating[i].place = q
  BY DEF LoadablesInv
<1> HIDE DEF n
<1>14. 1 .. n + 1 = 1 .. n \cup {n + 1} /\ n + 1 \notin 1 .. n
  BY <1>9
<1>15. /\ loadable' \in [Place -> Loadables] /\ DOMAIN m_objects' = Place
       /\ loadable'[p] = l /\ m_objects'[p] = k
       /\ \A q \in Place : q # p => loadable'[q] = loadable[q] /\ m_objects'[q] = m_objects[q]
  BY <1>1, <1>4, <1>7
<1>16. ASSUME NEW q \in Place
       PROVE  loadable'[q] = NoLoadable \/
                /\ m_objects'[q] = loadable'[q].class
                /\ Ready(loadable'[q]) \/ \E i \in 1 .. n + 1 : creating'[i].place = q
  <2>1. CASE q = p
    BY <1>4, <1>5, <1>8, <1>14, <1>15, <2>1
  <2>2. CASE q # p
    BY <1>8, <1>13, <1>14, <1>15, <2>2
  <2> QED
    BY <2>1, <2>2
<1>17. ASSUME NEW i \in 1 .. n + 1
       PROVE  Underway(loadable'[creating'[i].place], creating'[i])
  <2>1. CASE i = n + 1
    BY <1>5, <1>6, <1>8, <1>15, <2>1
  <2>2. CASE i \in 1 .. n
    BY <1>8, <1>10, <1>11, <1>15, <2>2
  <2> QED
    BY <1>14, <2>1, <2>2
<1>18. \A i, j \in 1 .. n + 1 : creating'[i].place = creating'[j].place => i = j
  BY <1>5, <1>8, <1>10, <1>12, <1>14
<1> QED
  BY <1>8, <1>15, <1>16, <1>17, <1>18 DEF LoadablesInv, Ready, Underway, NoLoadable, n

\* The innermost creation, and what it creates.
LEMMA LastCreation ==
  ASSUME LoadablesInv, creating # <<>>
  PROVE  /\ Len(creating) \in Nat \ {0} /\ Len(creating) \in 1 .. Len(creating)
         /\ Last(creating) = creating[Len(creating)] /\ Last(creating) \in Creations
         /\ Last(creating).place \in Place
         /\ Underway(loadable[Last(creating).place], Last(creating))
         /\ loadable[Last(creating).place] \in Loadables
         /\ m_objects[Last(creating).place] = loadable[Last(creating).place].class
<1> DEFINE n == Len(creating)  c == creating[n]
<1>1. creating \in Seq(Creations) /\ loadable \in [Place -> Loadables]
  BY DEF LoadablesInv
<1>2. n \in Nat \ {0}
  BY <1>1, EmptySeq, LenProperties
<1> HIDE DEF n
<1>3. n \in 1 .. n
  BY <1>2
<1>4. c \in Creations
  BY <1>1, <1>3, ElementOfSeq DEF n
<1>5. Underway(loadable[c.place], c)
  BY <1>3 DEF LoadablesInv, n
<1>6. Last(creating) = c
  BY DEF Last, n
<1>7. c.place \in Place
  BY <1>4 DEF Creations
<1>8. m_objects[c.place] = loadable[c.place].class
  BY <1>5, <1>7 DEF LoadablesInv, Underway
<1> HIDE DEF c
<1>9. /\ Last(creating) \in Creations /\ Last(creating).place \in Place
      /\ Underway(loadable[Last(creating).place], Last(creating))
      /\ loadable[Last(creating).place] \in Loadables
      /\ m_objects[Last(creating).place] = loadable[Last(creating).place].class
  BY <1>1, <1>4, <1>5, <1>6, <1>7, <1>8
<1> QED
  BY <1>2, <1>3, <1>6, <1>9 DEF c, n

\* The innermost creation goes one step on, and changes only what it creates.
LEMMA InnermostKeeps ==
  ASSUME LoadablesInv, creating # <<>>, NEW l \in Loadables, NEW c \in Creations,
         c.place = Last(creating).place, Underway(l, c),
         l.class = loadable[c.place].class,
         loadable' = [loadable EXCEPT ![c.place] = l],
         creating' = [creating EXCEPT ![Len(creating)] = c],
         m_objects' = m_objects
  PROVE  LoadablesInv'
<1> DEFINE n == Len(creating)  q == c.place
<1>1. /\ n \in Nat \ {0} /\ n \in 1 .. n /\ creating[n].place = q /\ q \in Place
      /\ m_objects[q] = l.class
  BY LastCreation
<1>2. creating \in Seq(Creations) /\ loadable \in [Place -> Loadables] /\ DOMAIN m_objects = Place
  BY DEF LoadablesInv
<1>3. /\ \A i \in 1 .. n : Underway(loadable[creating[i].place], creating[i])
      /\ \A i, j \in 1 .. n : creating[i].place = creating[j].place => i = j
      /\ \A p \in Place : loadable[p] = NoLoadable \/
           /\ m_objects[p] = loadable[p].class
           /\ Ready(loadable[p]) \/ \E i \in 1 .. n : creating[i].place = p
  BY DEF LoadablesInv
<1>4. \A i \in 1 .. n : creating[i].place \in Place
  <2>1. \A i \in 1 .. n : creating[i] \in Creations
    BY <1>2, ElementOfSeq
  <2> QED
    BY <2>1 DEF Creations
<1>5. creating \in [1 .. n -> Creations] /\ creating' = [creating EXCEPT ![n] = c]
  BY <1>2, LenProperties
<1> HIDE DEF n
<1>6. /\ creating' \in [1 .. n -> Creations] /\ creating'[n] = c
      /\ \A i \in 1 .. n : i # n => creating'[i] = creating[i]
  BY <1>1, <1>5
<1>7. creating' \in Seq(Creations) /\ Len(creating') = n
  <2> DEFINE w == creating'
  <2>1. w \in [1 .. n -> Creations] /\ n \in Nat
    BY <1>1, <1>6
  <2> HIDE DEF w
  <2>2. w \in Seq(Creations) /\ Len(w) = n
    BY <2>1, SeqDef, LenProperties
  <2> QED
    BY <2>2 DEF w
<1>8. /\ loadable' \in [Place -> Loadables] /\ loadable'[q] = l
      /\ \A p \in Place : p # q => loadable'[p] = loadable[p]
  BY <1>1, <1>2
<1>9. \A i \in 1 .. n : creating'[i].place = creating[i].place
  BY <1>1, <1>6
<1> HIDE DEF q
<1>10. ASSUME NEW p \in Place
       PROVE  loadable'[p] = NoLoadable \/
                /\ m_objects'[p] = loadable'[p].class
                /\ Ready(loadable'[p]) \/ \E i \in 1 .. n : creating'[i].place = p
  <2>1. CASE p = q
    BY <1>1, <1>8, <1>9, <2>1
  <2>2. CASE p # q
    BY <1>3, <1>8, <1>9, <2>2
  <2> QED
    BY <2>1, <2>2
<1>11. ASSUME NEW i \in 1 .. n
       PROVE  Underway(loadable'[creating'[i].place], creating'[i])
  <2>1. CASE i = n
    BY <1>1, <1>6, <1>8, <1>9, <2>1
  <2>2. CASE i # n
    <3>1. creating[i].place # q /\ creating[i].place \in Place
      BY <1>1, <1>3, <1>4, <2>2
    <3> QED
      BY <1>3, <1>6, <1>8, <2>2, <3>1
  <2> QED
    BY <2>1, <2>2
<1>12. \A i, j \in 1 .. n : creating'[i].place = creating'[j].place => i = j
  BY <1>3, <1>9
<1> DEFINE v == loadable'  w == creating'
<1>13. /\ v \in [Place -> Loadables] /\ w \in Seq(Creations) /\ Len(w) = n
       /\ \A p \in Place : v[p] = NoLoadable \/
            /\ m_objects'[p] = v[p].class
            /\ Ready(v[p]) \/ \E i \in 1 .. n : w[i].place = p
       /\ \A i \in 1 .. n : Underway(v[w[i].place], w[i])
       /\ \A i, j \in 1 .. n : w[i].place = w[j].place => i = j
  BY <1>7, <1>8, <1>10, <1>11, <1>12
<1> QED
  BY <1>2, <1>13 DEF LoadablesInv, Ready, Underway, NoLoadable

LEMMA InitBeginKeeps ==
  ASSUME LoadablesInv, InitBegin
  PROVE  LoadablesInv'
<1> DEFINE c == Last(creating)  n == Len(creating)  q == c.place  r == loadable[q]
           x == r.m_initFunctions[c.at + 1]
           l == [r EXCEPT !.ran = Append(r.ran, x)]
           d == [c EXCEPT !.at = c.at + 1, !.running = TRUE]
<1>1. /\ creating # <<>> /\ c.at < Len(r.m_initFunctions)
      /\ creating' = [creating EXCEPT ![n].at = @ + 1, ![n].running = TRUE]
      /\ loadable' = [loadable EXCEPT ![q].ran = Append(@, x)]
      /\ m_objects' = m_objects
  BY DEF InitBegin
<1>2. /\ n \in 1 .. n /\ c = creating[n] /\ c \in Creations /\ q \in Place
      /\ r \in Loadables /\ Underway(r, c)
      /\ loadable \in [Place -> Loadables]
  BY <1>1, LastCreation DEF LoadablesInv
<1>3. creating' = [creating EXCEPT ![n] = d]
  BY <1>1, <1>2 DEF Creations
<1>4. loadable' = [loadable EXCEPT ![q] = l]
  BY <1>1, <1>2
<1>5. d \in Creations /\ d.place = q /\ d.at = c.at + 1
  <2> HIDE DEF c
  <2>1. c.at + 1 \in Nat
    BY <1>2 DEF Creations
  <2> QED
    BY <1>2, <2>1 DEF Creations
<1> DEFINE s == r.registeredInits  m == c.at
<1>6. /\ s \in Seq(Nat) /\ m \in Nat /\ m < Len(s) /\ x = s[m + 1]
      /\ r.ran = SubSeq(s, 1, m)
  BY <1>1, <1>2 DEF Underway, Loadables, Creations
<1> HIDE DEF s, m, x
<1>7. Append(SubSeq(s, 1, m), s[m + 1]) = SubSeq(s, 1, m + 1)
      /\ SubSeq(s, 1, m) \in Seq(Nat) /\ s[m + 1] \in Nat
  BY <1>6, OneMore
<1>8. Append(r.ran, x) = SubSeq(s, 1, m + 1) /\ Append(r.ran, x) \in Seq(Nat)
  <2>1. SubSeq(s, 1, m + 1) \in Seq(Nat)
    BY <1>7, AppendProperties
  <2> QED
    BY <1>6, <1>7, <2>1
<1> HIDE DEF r
<1>9. /\ l \in Loadables /\ l.class = r.class /\ l.m_released = r.m_released
      /\ l.m_initFunctions = r.m_initFunctions /\ l.registeredInits = s
      /\ l.ran = SubSeq(s, 1, m + 1)
  BY <1>2, <1>8 DEF Loadables, s
<1> HIDE DEF l, d, c, q
<1>10. l # NoLoadable
  <2>1. NoLoadable.ran = <<>>
    BY DEF NoLoadable
  <2>2. l.ran # <<>>
    <3> DEFINE a == SubSeq(s, 1, m)  e == s[m + 1]
    <3>1. a \in Seq(Nat) /\ e \in Nat /\ l.ran = Append(a, e)
      BY <1>7, <1>9
    <3> HIDE DEF a, e
    <3> QED
      BY <3>1, AppendProperties
  <2> QED
    BY <2>1, <2>2
<1>11. Underway(l, d)
  <2> DEFINE k == Len(s)
  <2>1. k \in Nat /\ m < k /\ m \in Nat
    BY <1>6, LenProperties
  <2> HIDE DEF k
  <2>2. m + 1 \in 0 .. k
    BY <2>1
  <2> QED
    BY <1>2, <1>5, <1>9, <1>10, <2>2 DEF Underway, k, m, s
<1> QED
  BY <1>1, <1>3, <1>4, <1>5, <1>9, <1>11, InnermostKeeps DEF c, q, r, n

LEMMA InitEndKeeps ==
  ASSUME LoadablesInv, InitEnd
  PROVE  LoadablesInv'
<1> DEFINE c == Last(creating)  n == Len(creating)  q == c.place  l == loadable[q]
           d == [c EXCEPT !.running = FALSE]
<1>1. /\ creating # <<>>
      /\ creating' = [creating EXCEPT ![n].running = FALSE]
      /\ loadable' = loadable /\ m_objects' = m_objects
  BY DEF InitEnd
<1>2. /\ n \in 1 .. n /\ c = creating[n] /\ c \in Creations /\ q \in Place
      /\ l \in Loadables /\ Underway(l, c)
      /\ loadable \in [Place -> Loadables]
  BY <1>1, LastCreation DEF LoadablesInv
<1>3. creating' = [creating EXCEPT ![n] = d]
  BY <1>1, <1>2 DEF Creations
<1>4. loadable' = [loadable EXCEPT ![q] = l]
  BY <1>1, <1>2
<1>5. d \in Creations /\ d.place = q /\ d.at = c.at
  BY <1>2 DEF Creations
<1> HIDE DEF l, d, q, c
<1>6. Underway(l, d)
  BY <1>2, <1>5 DEF Underway
<1> QED
  BY <1>1, <1>2, <1>3, <1>4, <1>5, <1>6, InnermostKeeps DEF c, q, l, n

LEMMA CreateEndKeeps ==
  ASSUME LoadablesInv, CreateEnd
  PROVE  LoadablesInv'
<1> DEFINE n == Len(creating)  c == Last(creating)  q == c.place  r == loadable[q]
           released == [r EXCEPT !.m_initFunctions = <<>>, !.m_released = TRUE]
           cast == r.class = c.type
           l == IF cast THEN released ELSE NoLoadable
<1>1. /\ creating # <<>> /\ creating' = Front(creating) /\ m_objects' = m_objects
      /\ loadable' = [loadable EXCEPT ![q] =
           IF cast THEN [@ EXCEPT !.m_initFunctions = <<>>, !.m_released = TRUE]
                   ELSE NoLoadable]
      /\ c.at = Len(r.m_initFunctions)
  BY DEF CreateEnd
<1>2. /\ n \in Nat \ {0} /\ n \in 1 .. n /\ c = creating[n] /\ c \in Creations /\ q \in Place
      /\ r \in Loadables /\ Underway(r, c) /\ m_objects[q] = r.class
  BY <1>1, LastCreation
<1>3. /\ creating \in Seq(Creations) /\ loadable \in [Place -> Loadables]
      /\ DOMAIN m_objects = Place
      /\ \A i \in 1 .. n : Underway(loadable[creating[i].place], creating[i])
      /\ \A i, j \in 1 .. n : creating[i].place = creating[j].place => i = j
      /\ \A p \in Place : loadable[p] = NoLoadable \/
           /\ m_objects[p] = loadable[p].class
           /\ Ready(loadable[p]) \/ \E i \in 1 .. n : creating[i].place = p
  BY DEF LoadablesInv
<1>4. loadable' = [loadable EXCEPT ![q] = l]
  BY <1>1, <1>2, <1>3
<1>5. r.ran = r.registeredInits
  BY <1>1, <1>2, SubSeqFull DEF Underway, Loadables
<1>6. <<>> \in Seq(Nat)
  OBVIOUS
<1> HIDE DEF r
<1>7. /\ released \in Loadables /\ released.class = r.class /\ Ready(released)
  BY <1>2, <1>5, <1>6 DEF Loadables, Ready
<1> HIDE DEF released, cast
<1>8. /\ l \in Loadables
      /\ l = NoLoadable \/ (m_objects[q] = l.class /\ Ready(l))
  BY <1>2, <1>7, NoLoadableIs
<1> HIDE DEF l
<1>9. /\ creating' \in Seq(Creations) /\ Len(creating') = n - 1
      /\ \A i \in 1 .. n - 1 : creating'[i] = creating[i]
  BY <1>1, <1>3, FrontProperties
<1>10. \A i \in 1 .. n : creating[i].place \in Place
  <2>1. \A i \in 1 .. n : creating[i] \in Creations
    BY <1>3, ElementOfSeq
  <2> QED
    BY <2>1 DEF Creations
<1> HIDE DEF n, q
<1>11. /\ loadable' \in [Place -> Loadables] /\ loadable'[q] = l
       /\ \A p \in Place : p # q => loadable'[p] = loadable[p]
  BY <1>2, <1>3, <1>4, <1>8
<1>12. /\ \A i \in 1 .. n - 1 : i \in 1 .. n /\ i # n
       /\ \A i \in 1 .. n : i # n => i \in 1 .. n - 1
  BY <1>2
<1>13. \A i \in 1 .. n - 1 : creating[i].place \in Place /\ creating[i].place # q
  BY <1>2, <1>3, <1>10, <1>12 DEF q
<1>14. ASSUME NEW p \in Place
       PROVE  loadable'[p] = NoLoadable \/
                /\ m_objects'[p] = loadable'[p].class
                /\ Ready(loadable'[p]) \/ \E i \in 1 .. n - 1 : creating'[i].place = p
  <2>1. CASE p = q
    BY <1>1, <1>8, <1>11, <2>1
  <2>2. CASE p # q
    <3>1. \A i \in 1 .. n : creating[i].place = p => i # n
      BY <1>2, <2>2 DEF q
    <3> QED
      BY <1>1, <1>3, <1>9, <1>11, <1>12, <2>2, <3>1
  <2> QED
    BY <2>1, <2>2
<1>15. ASSUME NEW i \in 1 .. n - 1
       PROVE  Underway(loadable'[creating'[i].place], creating'[i])
  BY <1>3, <1>9, <1>11, <1>12, <1>13
<1>16. \A i, j \in 1 .. n - 1 : creating'[i].place = creating'[j].place => i = j
  BY <1>3, <1>9, <1>12
<1> DEFINE v == loadable'  w == creating'  m == n - 1
<1>17. /\ v \in [Place -> Loadables] /\ w \in Seq(Creations) /\ Len(w) = m
       /\ \A p \in Place : v[p] = NoLoadable \/
            /\ m_objects'[p] = v[p].class
            /\ Ready(v[p]) \/ \E i \in 1 .. m : w[i].place = p
       /\ \A i \in 1 .. m : Underway(v[w[i].place], w[i])
       /\ \A i, j \in 1 .. m : w[i].place = w[j].place => i = j
  BY <1>9, <1>11, <1>14, <1>15, <1>16
<1> HIDE DEF m
<1> QED
  BY <1>1, <1>3, <1>17 DEF LoadablesInv, Ready, Underway, NoLoadable

LEMMA DeleteKeeps ==
  ASSUME LoadablesInv, NEW p \in Place, Delete(p)
  PROVE  LoadablesInv'
<1>1. /\ loadable[p].m_released /\ loadable' = [loadable EXCEPT ![p] = NoLoadable]
      /\ creating' = creating /\ m_objects' = m_objects
  BY DEF Delete
<1>2. /\ loadable \in [Place -> Loadables] /\ creating \in Seq(Creations)
      /\ DOMAIN m_objects = Place
  BY DEF LoadablesInv
<1>3. /\ loadable' \in [Place -> Loadables] /\ loadable'[p] = NoLoadable
      /\ \A q \in Place \ {p} : loadable'[q] = loadable[q]
  BY <1>1, <1>2, NoLoadableIs
<1>4. \A i \in 1 .. Len(creating) : creating[i].place \in Place \ {p}
  <2> TAKE i \in 1 .. Len(creating)
  <2>1. creating[i] \in Creations /\ ~loadable[creating[i].place].m_released
    BY <1>2, ElementOfSeq DEF LoadablesInv, Underway
  <2> QED
    BY <1>1, <2>1 DEF Creations
<1>5. \A i \in 1 .. Len(creating) : loadable'[creating[i].place] = loadable[creating[i].place]
  BY <1>3, <1>4
<1>6. \A q \in Place : loadable'[q] = NoLoadable \/ loadable'[q] = loadable[q]
  BY <1>3
<1> DEFINE v == loadable'  n == Len(creating)
<1>7. /\ \A q \in Place : v[q] = NoLoadable \/
           /\ m_objects[q] = v[q].class
           /\ Ready(v[q]) \/ \E i \in 1 .. n : creating[i].place = q
      /\ \A i \in 1 .. n : Underway(v[creating[i].place], creating[i])
      /\ \A i, j \in 1 .. n : creating[i].place = creating[j].place => i = j
  BY <1>5, <1>6 DEF LoadablesInv
<1>8. (\A q \in Place : loadable[q] = NoLoadable \/
         /\ m_objects[q] = loadable[q].class
         /\ \/ Ready(loadable[q])
            \/ \E i \in 1 .. Len(creating) : creating[i].place = q)'
  BY <1>1, <1>7 DEF Ready, NoLoadable
<1>9. (\A i \in 1 .. Len(creating) : Underway(loadable[creating[i].place], creating[i]))'
  BY <1>1, <1>7 DEF Underway, NoLoadable
<1>10. (\A i, j \in 1 .. Len(creating) : creating[i].place = creating[j].place => i = j)'
  BY <1>1, <1>7
<1> QED
  BY <1>1, <1>2, <1>3, <1>8, <1>9, <1>10 DEF LoadablesInv

LEMMA LoadablesStep ==
  ASSUME TemplatesInv, LoadablesInv, [NextAssets]_assetVars
  PROVE  LoadablesInv'
<1>1. CASE \E id \in DOMAIN m_templates, p \in Place, T \in Class, inits \in {0, 2} :
             CreateBegin(id, p, T, inits)
  BY <1>1, CreateBeginKeeps
<1>2. CASE InitBegin
  BY <1>2, InitBeginKeeps
<1>3. CASE InitEnd
  BY <1>3, InitEndKeeps
<1>4. CASE CreateEnd
  BY <1>4, CreateEndKeeps
<1>5. CASE \E p \in Place : Delete(p)
  BY <1>5, DeleteKeeps
<1>6. CASE UNCHANGED <<loadable, creating, m_objects>>
  BY <1>6 DEF LoadablesInv, Ready, Underway, NoLoadable
<1>7. \/ \E id \in DOMAIN m_templates, p \in Place, T \in Class, inits \in {0, 2} :
             CreateBegin(id, p, T, inits)
      \/ InitBegin \/ InitEnd \/ CreateEnd \/ \E p \in Place : Delete(p)
      \/ UNCHANGED <<loadable, creating, m_objects>>
  BY DEF NextAssets, assetVars, creationVars, RegisterType, InstallExecutor, StartedBy,
         ProcessFile, ParseAsset, fullPath, createTemplate, ProceedEnd, ParseEnd, CreateFails
<1> QED
  BY <1>1, <1>2, <1>3, <1>4, <1>5, <1>6, <1>7

(***************************************************************************)
(* However creations nest, a loadable that is there is being created by    *)
(* one call or was handed out ready: all the init functions its            *)
(* constructor registered ran, each once and in their order; the factory   *)
(* knows its class; and although executors keep one path for all files and *)
(* for the objects inside their assets, what was resolved for a file lies  *)
(* in its folder, except behind an object met in a program started by a    *)
(* relative path.                                                          *)
(***************************************************************************)
THEOREM HandedOutReady == SpecAssets => []LoadablesReady
<1>1. InitAssets => ParsingInv /\ TemplatesInv /\ LoadablesInv
  BY AssetsInit
<1>2. ParsingInv /\ TemplatesInv /\ LoadablesInv /\ [NextAssets]_assetVars
        => (ParsingInv /\ TemplatesInv /\ LoadablesInv)'
  BY ParsingStep, TemplatesStep, LoadablesStep
<1>3. ASSUME TemplatesInv, LoadablesInv
      PROVE  LoadablesReady
  <2>1. DOMAIN creating = 1 .. Len(creating)
    BY <1>3, LenProperties DEF LoadablesInv
  <2>2. ASSUME NEW p \in Place, loadable[p] # NoLoadable, ~Ready(loadable[p])
        PROVE  /\ ~loadable[p].m_released
               /\ \E i \in DOMAIN creating :
                    /\ \A j \in DOMAIN creating : creating[j].place = p <=> j = i
                    /\ loadable[p].ran = SubSeq(loadable[p].registeredInits, 1, creating[i].at)
    <3>1. PICK i \in 1 .. Len(creating) : creating[i].place = p
      BY <1>3, <2>2 DEF LoadablesInv
    <3>2. /\ Underway(loadable[p], creating[i])
          /\ \A j \in 1 .. Len(creating) : creating[i].place = creating[j].place => i = j
      BY <1>3, <3>1 DEF LoadablesInv
    <3>3. \A j \in 1 .. Len(creating) : creating[j].place = p <=> j = i
      BY <3>1, <3>2
    <3> QED
      BY <2>1, <3>2, <3>3 DEF Underway
  <2>3. \A p \in Place : loadable[p] # NoLoadable =>
          m_objects[p] = loadable[p].class /\ InTheirFolder(loadable[p].assets)
    BY <1>3 DEF LoadablesInv, TemplatesInv
  <2>4. \A id \in DOMAIN m_templates : InTheirFolder(m_templates[id].assets)
    BY <1>3 DEF TemplatesInv
  <2> QED
    BY <2>2, <2>3, <2>4 DEF LoadablesReady, Ready
<1> QED
  BY <1>1, <1>2, <1>3, PTL DEF SpecAssets

-----------------------------------------------------------------------------
(* PhysicalObject: numbers, and the replica of what rests *)

Number == Int \cup {NotFinite}
Angle == 0 .. Turn - 1

Kinematic(N) == [value : N, velocity : N, acceleration : N]
Turning == [value : Angle, velocity : Int, acceleration : Int]
Bodies(N) ==
  [position : Kinematic(N), rotation : Turning, m_mass : Int, m_friction : Int,
   m_rotationMatrix : Angle, m_blockFrictionPerTick : BOOLEAN]

\* What numbers there are: only finite ones, until the object was asked to
\* gravitate to where it is.
Numbers == IF centred THEN Number ELSE Int

BodiesInv ==
  /\ centred \in BOOLEAN
  /\ body \in Bodies(Numbers)
  /\ replica \in Bodies(Numbers)
  /\ sentBody \in Seq(Bodies(Numbers))

(***************************************************************************)
(* Arithmetic on finite numbers stays finite, and on any numbers among     *)
(* them; division does unless it is by zero.                               *)
(***************************************************************************)
LEMMA Arithmetic ==
  ASSUME NEW N, N \in {Int, Number}, NEW v \in N, NEW w \in N
  PROVE  /\ plus(v, w) \in N /\ times(v, w) \in N /\ minus(v, w) \in N
         /\ abs(v) \in N /\ sgn(v) \in N
         /\ (v \in Int /\ w \in Int) => /\ plus(v, w) = v + w
                                        /\ times(v, w) = v * w
                                        /\ minus(v, w) = v - w
<1>1. NotFinite \notin Int
  BY PhysicsAssumption
<1>2. CASE v \in Int /\ w \in Int
  <2>1. v * w \in Int /\ v + w \in Int /\ w * (-1) = -w /\ v + (-w) = v - w /\ -1 \in Int
    BY <1>2
  <2>2. finite(v) /\ finite(w) /\ finite(-1) /\ finite(-w)
    BY <1>1, <1>2, <2>1 DEF finite
  <2>3. plus(v, w) = v + w /\ times(v, w) = v * w /\ times(w, -1) = -w /\ plus(v, -w) = v - w
    BY <2>1, <2>2 DEF plus, times
  <2>4. minus(v, w) = v - w
    BY <2>3 DEF minus
  <2>5. abs(v) \in Int /\ sgn(v) \in Int
    BY <1>2, <2>2 DEF abs, sgn
  <2>6. v - w \in Int
    BY <1>2
  <2> QED
    BY <2>1, <2>3, <2>4, <2>5, <2>6 DEF Number
<1>3. CASE ~(v \in Int /\ w \in Int)
  <2>1. N = Number /\ (v = NotFinite \/ w = NotFinite)
    BY <1>3 DEF Number
  <2>2. plus(v, w) = NotFinite /\ times(v, w) = NotFinite
    BY <2>1 DEF plus, times, finite
  <2>3. times(w, -1) = NotFinite \/ v = NotFinite
    BY <2>1 DEF times, finite
  <2>4. minus(v, w) = NotFinite
    BY <2>3 DEF minus, plus, finite
  <2>5. abs(v) \in Number /\ sgn(v) \in Number
    BY <2>1 DEF abs, sgn, finite, Number
  <2> QED
    BY <2>1, <2>2, <2>4, <2>5, <1>3 DEF Number
<1> QED
  BY <1>2, <1>3

LEMMA Signs ==
  ASSUME NEW N, N \in {Int, Number}, NEW v \in N
  PROVE  abs(v) \in N /\ sgn(v) \in N
<1>1. v \in N
  OBVIOUS
<1> QED
  BY <1>1, Arithmetic

LEMMA WithZero ==
  ASSUME NEW v \in Number
  PROVE  plus(v, 0) = v /\ (v \in Int => times(0, v) = 0)
<1>1. 0 # NotFinite /\ NotFinite \notin Int
  BY PhysicsAssumption
<1>2. CASE v = NotFinite
  BY <1>1, <1>2 DEF plus, finite
<1>3. CASE v \in Int
  <2>1. finite(v) /\ finite(0) /\ v + 0 = v /\ 0 * v = 0
    BY <1>1, <1>3 DEF finite
  <2> QED
    BY <2>1 DEF plus, times
<1> QED
  BY <1>2, <1>3 DEF Number

LEMMA Division ==
  ASSUME NEW N, N \in {Int, Number}, NEW v \in N, NEW w \in N, w # 0
  PROVE  over(v, w) \in N
<1>1. NotFinite \notin Int
  BY PhysicsAssumption
<1>2. CASE v \in Int /\ w \in Int
  <2>1. finite(v) /\ finite(w)
    BY <1>1, <1>2 DEF finite
  <2>2. abs(v) \in Int /\ abs(w) \in Int /\ abs(w) > 0 /\ sgn(v) \in Int /\ sgn(w) \in Int
    BY <1>2, <2>1 DEF abs, sgn
  <2>3. abs(v) \div abs(w) \in Int
    BY <2>2
  <2>4. sgn(v) * sgn(w) * (abs(v) \div abs(w)) \in Int
    <3> DEFINE q == abs(v) \div abs(w)  r == sgn(v) s == sgn(w)
    <3> HIDE DEF q, r, s
    <3>1. q \in Int /\ r \in Int /\ s \in Int
      BY <2>2, <2>3 DEF q, r, s
    <3>2. r * s \in Int
      BY <3>1
    <3> DEFINE t == r * s
    <3> HIDE DEF t
    <3>3. t * q \in Int
      BY <3>1, <3>2 DEF t
    <3> QED
      BY <3>3 DEF q, r, s, t
  <2> QED
    BY <2>1, <2>4 DEF over, Number
<1>3. CASE ~(v \in Int /\ w \in Int)
  <2>1. N = Number /\ (v = NotFinite \/ w = NotFinite)
    BY <1>3 DEF Number
  <2> QED
    BY <2>1 DEF over, finite, Number
<1> QED
  BY <1>2, <1>3

\* What cmpf takes for zero, and only that, is divided by.
LEMMA NullOfZero == null(0)
<1>1. 0 # NotFinite /\ 0 - 0 = 0 /\ 0 < Eps
  BY PhysicsAssumption
<1> QED
  BY <1>1 DEF null, cmpf, finite, abs

LEMMA Cosines ==
  ASSUME NEW v \in Int
  PROVE  cosine(v) \in Int
BY PhysicsAssumption DEF cosine, finite

LEMMA Angles ==
  ASSUME NEW v \in Int
  PROVE  constrainRadians(v) \in Angle
BY PhysicsAssumption DEF constrainRadians, finite, Angle, Turn

LEMMA AngleDifference ==
  ASSUME NEW v \in Int, NEW w \in Int
  PROVE  radiansDifference(v, w) \in Int
<1>1. minus(v, w) = v - w /\ v - w \in Int
  BY Arithmetic
<1> QED
  BY <1>1, PhysicsAssumption DEF radiansDifference, finite, Turn

LEMMA Limited ==
  ASSUME NEW N, N \in {Int, Number}, NEW v \in N, NEW w \in N, NEW limit \in Int
  PROVE  limited(v, w, limit) \in N
<1>1. 0 \in N /\ limit \in N
  BY DEF Number
<1>2. times(v, 0) \in N
  BY <1>1, Arithmetic
<1>3. ASSUME ~null(limit), finite(w), ~(abs(w) > abs(limit))
      PROVE  over(times(v, abs(limit) - abs(w)), abs(limit)) \in N
  <2>1. w \in Int /\ limit # 0
    BY <1>3, NullOfZero DEF Number, finite
  <2>2. abs(limit) \in Int /\ abs(w) \in Int /\ abs(limit) # 0
    BY <2>1 DEF abs
  <2>3. abs(limit) - abs(w) \in N /\ abs(limit) \in N
    BY <2>2 DEF Number
  <2>4. times(v, abs(limit) - abs(w)) \in N
    BY <2>3, Arithmetic
  <2> QED
    BY <2>2, <2>3, <2>4, Division
<1> QED
  BY <1>2, <1>3 DEF limited

LEMMA Falling ==
  ASSUME NEW N, N \in {Int, Number}, NEW v \in N, NEW c \in Int
  PROVE  falling(v, c) \in N
<1>1. ASSUME finite(v), v > c
      PROVE  over(c, v + 1 - c) \in N
  <2>1. v \in Int
    BY <1>1 DEF Number, finite
  <2>2. v + 1 - c \in Int /\ v + 1 - c # 0
    BY <2>1, <1>1
  <2>3. c \in N /\ v + 1 - c \in N
    BY <2>2 DEF Number
  <2> QED
    BY <2>2, <2>3, Division
<1> QED
  BY <1>1 DEF falling

-----------------------------------------------------------------------------
(***************************************************************************)
(* A body that is accelerated by a number is one of numbers.               *)
(***************************************************************************)
LEMMA Accelerated ==
  ASSUME NEW N, N \in {Int, Number}, NEW b \in Bodies(N)
  PROVE  /\ \A f \in N : [b EXCEPT !.position = addAcceleration(@, f)] \in Bodies(N)
         /\ \A f \in Int : [b EXCEPT !.rotation = addAcceleration(@, f)] \in Bodies(N)
<1>1. /\ b.position \in Kinematic(N) /\ b.rotation \in Turning
      /\ b.m_mass \in Int /\ b.m_friction \in Int /\ b.m_rotationMatrix \in Angle
      /\ b.m_blockFrictionPerTick \in BOOLEAN
  BY DEF Bodies
<1>2. ASSUME NEW f \in N
      PROVE  addAcceleration(b.position, f) \in Kinematic(N)
  <2>1. b.position.acceleration \in N
    BY <1>1 DEF Kinematic
  <2>2. plus(b.position.acceleration, f) \in N
    BY <2>1, Arithmetic
  <2> QED
    BY <1>1, <2>2 DEF Kinematic, addAcceleration
<1>3. ASSUME NEW f \in Int
      PROVE  addAcceleration(b.rotation, f) \in Turning
  <2>1. b.rotation.acceleration \in Int
    BY <1>1 DEF Turning
  <2>2. plus(b.rotation.acceleration, f) \in Int
    BY <2>1, Arithmetic
  <2> QED
    BY <1>1, <2>2 DEF Turning, addAcceleration
<1> QED
  BY <1>2, <1>3 DEF Bodies

LEMMA NumbersAre == Numbers \in {Int, Number} /\ Int \subseteq Numbers
BY DEF Numbers, Number

\* What every force does, and every change to a body.
Touched == BodiesInv' /\ needSync'

LEMMA ChangeTouches ==
  ASSUME BodiesInv, NEW b \in Bodies(Numbers), Change(b)
  PROVE  Touched
<1>1. /\ body' = b /\ needSync' = TRUE /\ replica' = replica
      /\ sentBody' = sentBody /\ centred' = centred
  BY DEF Change
<1>2. Numbers' = Numbers
  BY <1>1 DEF Numbers
<1> QED
  BY <1>1, <1>2 DEF Touched, BodiesInv

LEMMA MassIs ==
  ASSUME BodiesInv, ~null(body.m_mass)
  PROVE  body.m_mass \in Int /\ body.m_mass \in Numbers /\ body.m_mass # 0
BY NumbersAre, NullOfZero DEF BodiesInv, Bodies

LEMMA ForcedIs ==
  ASSUME BodiesInv
  PROVE  /\ \A f \in Numbers : forced(body, f) \in Bodies(Numbers)
         /\ \A b \in Bodies(Numbers) : b.m_mass = body.m_mass =>
              \A f \in Int : turned(b, f) \in Bodies(Numbers)
<1>0. body \in Bodies(Numbers)
  BY DEF BodiesInv
<1>1. ASSUME NEW f \in Numbers
      PROVE  forced(body, f) \in Bodies(Numbers)
  <2>1. CASE Accelerates(f)
    <3>1. over(f, body.m_mass) \in Numbers
      BY <2>1, MassIs, NumbersAre, Division DEF Accelerates
    <3> QED
      BY <1>0, <2>1, <3>1, NumbersAre, Accelerated DEF forced
  <2>2. CASE ~Accelerates(f)
    BY <1>0, <2>2 DEF forced
  <2> QED
    BY <2>1, <2>2
<1>2. ASSUME NEW b \in Bodies(Numbers), b.m_mass = body.m_mass, NEW f \in Int
      PROVE  turned(b, f) \in Bodies(Numbers)
  <2>1. CASE Accelerates(f)
    <3>1. over(f, b.m_mass) \in Int
      BY <1>2, <2>1, MassIs, Division DEF Accelerates
    <3> QED
      BY <2>1, <3>1, NumbersAre, Accelerated DEF turned
  <2>2. CASE ~Accelerates(f)
    BY <2>2 DEF turned
  <2> QED
    BY <2>1, <2>2
<1> QED
  BY <1>1, <1>2

LEMMA ForceTouches ==
  ASSUME BodiesInv, NEW f \in Numbers
  PROVE  /\ addForce(f) => Touched
         /\ \A limit \in Int : addLimitedForce(f, limit) => Touched
<1>0. body \in Bodies(Numbers)
  BY DEF BodiesInv
<1>1. ASSUME addForce(f)
      PROVE  Touched
  <2>1. forced(body, f) \in Bodies(Numbers)
    BY ForcedIs
  <2>2. Change(forced(body, f))
    BY <1>1 DEF addForce
  <2> QED
    BY <2>1, <2>2, ChangeTouches
<1>2. ASSUME NEW limit \in Int, addLimitedForce(f, limit)
      PROVE  Touched
  <2> DEFINE g == limited(over(f, body.m_mass), body.position.velocity, limit)
  <2>1. over(f, body.m_mass) \in Numbers
    BY <1>2, MassIs, NumbersAre, Division DEF addLimitedForce, Accelerates
  <2>2. body.position.velocity \in Numbers
    BY <1>0 DEF Bodies, Kinematic
  <2>3. g \in Numbers
    BY <2>1, <2>2, NumbersAre, Limited
  <2>4. [body EXCEPT !.position = addAcceleration(@, g)] \in Bodies(Numbers)
    BY <1>0, <2>3, NumbersAre, Accelerated
  <2>5. Change([body EXCEPT !.position = addAcceleration(@, g)])
    BY <1>2 DEF addLimitedForce
  <2> QED
    BY <2>4, <2>5, ChangeTouches
<1> QED
  BY <1>1, <1>2

LEMMA RotationForceTouches ==
  ASSUME BodiesInv, NEW f \in Int
  PROVE  /\ addRotationForce(f) => Touched
         /\ \A limit \in Int : addLimitedRotationForce(f, limit) => Touched
<1>0. body \in Bodies(Numbers)
  BY DEF BodiesInv
<1>1. ASSUME addRotationForce(f)
      PROVE  Touched
  <2>1. turned(body, f) \in Bodies(Numbers)
    BY <1>0, ForcedIs
  <2>2. Change(turned(body, f))
    BY <1>1 DEF addRotationForce
  <2> QED
    BY <2>1, <2>2, ChangeTouches
<1>2. ASSUME NEW limit \in Int, addLimitedRotationForce(f, limit)
      PROVE  Touched
  <2> DEFINE g == limited(over(f, body.m_mass), body.rotation.velocity, limit)
  <2>1. over(f, body.m_mass) \in Int
    BY <1>2, MassIs, Division DEF addLimitedRotationForce, Accelerates
  <2>2. body.rotation.velocity \in Int
    BY <1>0 DEF Bodies, Turning
  <2>3. g \in Int
    BY <2>1, <2>2, Limited
  <2>4. [body EXCEPT !.rotation = addAcceleration(@, g)] \in Bodies(Numbers)
    BY <1>0, <2>3, NumbersAre, Accelerated
  <2>5. Change([body EXCEPT !.rotation = addAcceleration(@, g)])
    BY <1>2 DEF addLimitedRotationForce
  <2> QED
    BY <2>4, <2>5, ChangeTouches
<1> QED
  BY <1>1, <1>2

LEMMA BodyIs ==
  ASSUME BodiesInv
  PROVE  /\ body.position.value \in Numbers /\ body.position.velocity \in Numbers
         /\ body.rotation.value \in Int /\ body.rotation.velocity \in Int
         /\ body.m_rotationMatrix \in Int
BY DEF BodiesInv, Bodies, Kinematic, Turning, Angle

LEMMA ForcesTouch ==
  ASSUME BodiesInv, Forces
  PROVE  Touched
<1>1. PICK f \in Strength, p \in Point :
        \/ addForwardForce(f)
        \/ \E side \in {-1, 1} : addSideForce(f, side)
        \/ \E side \in -1 .. 1 : addLimitedSideForce(f, side, f)
        \/ addPursuitForce(p, f)
        \/ addRestoringForce(p, f)
        \/ addFollowForce(p, f, f)
        \/ addDistanceRelatedForce(p, f, f)
        \/ addGravityForce(p, f)
  BY DEF Forces
<1>2. f \in Int /\ p \in Int /\ f \in Numbers /\ p \in Numbers
  BY PhysicsAssumption, NumbersAre
<1> DEFINE d == minus(p, body.position.value)
<1>3. d \in Numbers
  BY <1>2, BodyIs, NumbersAre, Arithmetic
<1>4. ASSUME NEW side \in -1 .. 1
      PROVE  times(cosine(plus(body.rotation.value, side)), f) \in Numbers
  <2>1. plus(body.rotation.value, side) \in Int
    BY BodyIs, Arithmetic
  <2>2. cosine(plus(body.rotation.value, side)) \in Numbers
    BY <2>1, Cosines, NumbersAre
  <2> QED
    BY <1>2, <2>2, NumbersAre, Arithmetic
<1>5. CASE addForwardForce(f)
  <2>1. cosine(body.m_rotationMatrix) \in Numbers
    BY BodyIs, Cosines, NumbersAre
  <2>2. times(cosine(body.m_rotationMatrix), f) \in Numbers
    BY <1>2, <2>1, NumbersAre, Arithmetic
  <2> QED
    BY <1>5, <2>2, ForceTouches DEF addForwardForce
<1>6. CASE \E side \in {-1, 1} : addSideForce(f, side)
  BY <1>4, <1>6, ForceTouches DEF addSideForce
<1>7. CASE \E side \in -1 .. 1 : addLimitedSideForce(f, side, f)
  BY <1>2, <1>4, <1>7, ForceTouches DEF addLimitedSideForce
<1>8. CASE addPursuitForce(p, f)
  <2>1. f # 0
    BY <1>8, NullOfZero DEF addPursuitForce
  <2>2. minus(d, body.position.velocity) \in Numbers
    BY <1>3, BodyIs, NumbersAre, Arithmetic
  <2>3. over(minus(d, body.position.velocity), f) \in Numbers
    BY <1>2, <2>1, <2>2, NumbersAre, Division
  <2> QED
    BY <1>8, <2>3, ForceTouches DEF addPursuitForce
<1>9. CASE addRestoringForce(p, f)
  <2>1. restoringForce(p, f) \in Numbers
    BY <1>2, <1>3, NumbersAre, Arithmetic DEF restoringForce
  <2> QED
    BY <1>9, <2>1, ForceTouches DEF addRestoringForce
<1>10. CASE addFollowForce(p, f, f)
  <2> DEFINE gap == minus(f, abs(d))
             way == over(abs(d), gap)
             side == IF null(d) THEN 0 ELSE sgn(d)
  <2>1. ~null(gap) /\ addForce(times(times(side, times(way, way)), f))
    BY <1>10 DEF addFollowForce
  <2>2. abs(d) \in Numbers /\ sgn(d) \in Numbers
    BY <1>3, NumbersAre, Signs
  <2>3. gap \in Numbers
    BY <1>2, <2>2, NumbersAre, Arithmetic
  <2>4. gap # 0
    BY <2>1, NullOfZero
  <2>5. way \in Numbers
    BY <2>2, <2>3, <2>4, NumbersAre, Division
  <2>6. times(way, way) \in Numbers
    BY <2>5, NumbersAre, Arithmetic
  <2>7. side \in Numbers
    BY <2>2, NumbersAre
  <2> HIDE DEF side, way
  <2>8. times(side, times(way, way)) \in Numbers
    BY <2>6, <2>7, NumbersAre, Arithmetic
  <2>9. times(times(side, times(way, way)), f) \in Numbers
    BY <1>2, <2>8, NumbersAre, Arithmetic
  <2> QED
    BY <2>1, <2>9, ForceTouches
<1>11. CASE addDistanceRelatedForce(p, f, f)
  <2>1. abs(d) \in Numbers /\ sgn(d) \in Numbers
    BY <1>3, NumbersAre, Signs
  <2>2. falling(abs(d), f) \in Numbers
    BY <1>2, <2>1, NumbersAre, Falling
  <2>3. times(sgn(d), falling(abs(d), f)) \in Numbers
    BY <2>1, <2>2, NumbersAre, Arithmetic
  <2>4. times(times(sgn(d), falling(abs(d), f)), f) \in Numbers
    BY <1>2, <2>3, NumbersAre, Arithmetic
  <2>5. distanceRelatedForce(p, f, f) \in Numbers
    BY <2>4, NumbersAre DEF distanceRelatedForce
  <2> QED
    BY <1>11, <2>5, ForceTouches DEF addDistanceRelatedForce
<1>12. CASE addGravityForce(p, f)
  <2> DEFINE g == over(times(d, f), times(d, d))
  <2> HIDE DEF d
  <2>1. /\ Accelerates(g)
        /\ body' = [body EXCEPT !.position = addAcceleration(@, over(g, body.m_mass))]
        /\ needSync' = TRUE
        /\ centred' = (centred \/ d = 0)
        /\ sentBody' = sentBody /\ replica' = replica
    BY <1>12 DEF addGravityForce, d
  <2>2. times(d, f) \in Numbers /\ times(d, d) \in Numbers
    BY <1>2, <1>3, NumbersAre, Arithmetic
  <2>3. centred \in BOOLEAN /\ body \in Bodies(Numbers)
        /\ replica \in Bodies(Numbers) /\ sentBody \in Seq(Bodies(Numbers))
    BY DEF BodiesInv
  <2>4. centred' \in BOOLEAN
    BY <2>1, <2>3
  <2>5. Int \subseteq Number
    BY DEF Number
  <2>6. CASE d = 0 /\ ~centred
    <3>1. Numbers = Int /\ Numbers' = Number
      BY <2>1, <2>6 DEF Numbers
    <3>2. Bodies(Int) \subseteq Bodies(Number)
      BY <2>5 DEF Bodies, Kinematic
    <3>3. body \in Bodies(Number) /\ replica \in Bodies(Number) /\ sentBody \in Seq(Bodies(Number))
      <4>1. Seq(Bodies(Int)) \subseteq Seq(Bodies(Number))
        BY <3>2
      <4> QED
        BY <2>3, <3>1, <3>2, <4>1
    <3>4. times(d, d) = 0 /\ times(d, f) \in Number
      <4>1. d \in Int /\ d * d = 0
        BY <2>6
      <4> QED
        BY <2>2, <2>5, <3>1, <4>1, Arithmetic
    <3>5. g = NotFinite
      BY <3>4 DEF over
    <3>6. over(g, body.m_mass) = NotFinite /\ NotFinite \in Number
      BY <3>5 DEF over, finite, Number
    <3>7. body' \in Bodies(Number)
      BY <2>1, <3>3, <3>6, Accelerated
    <3> QED
      BY <2>1, <2>4, <3>1, <3>3, <3>7 DEF Touched, BodiesInv
  <2>7. CASE ~(d = 0 /\ ~centred)
    <3>1. Numbers' = Numbers
      BY <2>1, <2>3, <2>7 DEF Numbers
    <3>2. g \in Numbers
      <4>1. CASE centred
        <5>1. Numbers = Number
          BY <4>1 DEF Numbers
        <5>2. CASE times(d, d) = 0
          BY <5>1, <5>2 DEF over, Number
        <5>3. CASE times(d, d) # 0
          BY <2>2, <5>3, NumbersAre, Division
        <5> QED
          BY <5>2, <5>3
      <4>2. CASE ~centred
        <5>1. d \in Int /\ d # 0
          BY <1>3, <2>7, <4>2 DEF Numbers
        <5>2. d * d # 0
          BY <5>1
        <5>3. times(d, d) # 0
          BY <5>1, <5>2, Arithmetic
        <5> QED
          BY <2>2, <5>3, NumbersAre, Division
      <4> QED
        BY <4>1, <4>2
    <3>3. over(g, body.m_mass) \in Numbers
      BY <2>1, <3>2, MassIs, NumbersAre, Division DEF Accelerates
    <3>4. body' \in Bodies(Numbers)
      BY <2>1, <2>3, <3>3, NumbersAre, Accelerated
    <3> QED
      BY <2>1, <2>3, <2>4, <3>1, <3>4 DEF Touched, BodiesInv
  <2> QED
    BY <2>6, <2>7
<1> QED
  BY <1>1, <1>5, <1>6, <1>7, <1>8, <1>9, <1>10, <1>11, <1>12

LEMMA RotationForcesTouch ==
  ASSUME BodiesInv, RotationForces
  PROVE  Touched
<1>1. PICK f \in Strength, angle \in 0 .. Turn - 1 :
        \/ addRotationGravityForce(angle, f)
        \/ addRotationPursuitForce(angle, f)
        \/ addRotationFollowForce(angle, f, f)
        \/ addRotationRestoringForce(angle, f)
        \/ addTargetRotationForse(angle, f, f)
        \/ addDistanceRelatedRotationForce(angle, f, f)
  BY DEF RotationForces
<1>2. f \in Int /\ -f \in Int /\ -1 \in Int /\ angle \in Int /\ body.rotation.value \in Int
      /\ body.rotation.velocity \in Int
  BY PhysicsAssumption, BodyIs
<1> DEFINE d == radiansDifference(angle, body.rotation.value)
<1>3. d \in Int
  BY <1>2, AngleDifference
<1>4. CASE addRotationGravityForce(angle, f)
  <2>1. d # 0
    BY <1>4, NullOfZero DEF addRotationGravityForce
  <2>2. over(f, d) \in Int
    BY <1>2, <1>3, <2>1, Division
  <2> QED
    BY <1>4, <2>2, RotationForceTouches DEF addRotationGravityForce
<1>5. CASE addRotationPursuitForce(angle, f)
  <2>1. f # 0
    BY <1>5, NullOfZero DEF addRotationPursuitForce
  <2>2. minus(d, body.rotation.velocity) \in Int
    BY <1>2, <1>3, Arithmetic
  <2>3. over(minus(d, body.rotation.velocity), f) \in Int
    BY <1>2, <2>1, <2>2, Division
  <2> QED
    BY <1>5, <2>3, RotationForceTouches DEF addRotationPursuitForce
<1>6. CASE addRotationFollowForce(angle, f, f)
  <2>1. minus(f, d) \in Int
    BY <1>2, <1>3, Arithmetic
  <2>2. minus(f, d) # 0
    BY <1>6, NullOfZero DEF addRotationFollowForce
  <2>3. over(d, minus(f, d)) \in Int
    BY <1>3, <2>1, <2>2, Division
  <2>4. abs(over(d, minus(f, d))) \in Int
    BY <2>3, Signs
  <2>5. times(abs(over(d, minus(f, d))), f) \in Int
    BY <1>2, <2>4, Arithmetic
  <2> QED
    BY <1>6, <2>5, RotationForceTouches DEF addRotationFollowForce
<1>7. CASE addRotationRestoringForce(angle, f)
  <2>1. rotationRestoringForce(angle, f) \in Int
    BY <1>2, <1>3, Arithmetic DEF rotationRestoringForce
  <2> QED
    BY <1>7, <2>1, RotationForceTouches DEF addRotationRestoringForce
<1>8. CASE addTargetRotationForse(angle, f, f)
  BY <1>2, <1>8, RotationForceTouches DEF addTargetRotationForse
<1>9. CASE addDistanceRelatedRotationForce(angle, f, f)
  <2>1. abs(d) \in Int
    BY <1>3, Signs
  <2>2. falling(abs(d), f) \in Int
    BY <1>2, <2>1, Falling
  <2>3. times(falling(abs(d), f), -1) \in Int
    BY <1>2, <2>2, Arithmetic
  <2>4. times(falling(abs(d), f), f) \in Int
        /\ times(times(falling(abs(d), f), -1), f) \in Int
    BY <1>2, <2>2, <2>3, Arithmetic
  <2>5. distanceRelatedRotationForce(angle, f, f) \in Int
    BY <2>4 DEF distanceRelatedRotationForce
  <2> QED
    BY <1>9, <2>5, RotationForceTouches DEF addDistanceRelatedRotationForce
<1> QED
  BY <1>1, <1>4, <1>5, <1>6, <1>7, <1>8, <1>9

LEMMA JointsTouch ==
  ASSUME BodiesInv, Joints
  PROVE  Touched
<1>1. PICK f \in Strength, p \in Point, angle \in 0 .. Turn - 1 :
        connectNodes(p, angle, f) \/ dockNodes(p, angle, f)
  BY DEF Joints
<1> DEFINE q == minus(p, rotatedOffset)
           r == radiansDifference(angle, Node)
<1>2. /\ f \in Int /\ p \in Int /\ angle \in Int /\ Node \in Int /\ f \in Numbers
      /\ 8 \in Int /\ 1 \in Int /\ 0 \in Numbers /\ -1 \in Int
  BY PhysicsAssumption, NumbersAre DEF Node
<1>3. rotatedOffset \in Int
  BY BodyIs, Cosines DEF rotatedOffset
<1>4. q \in Int /\ q \in Numbers
  BY <1>2, <1>3, NumbersAre, Arithmetic
<1>5. r \in Int
  BY <1>2, AngleDifference
<1> DEFINE d == minus(q, body.position.value)
           e == radiansDifference(r, body.rotation.value)
<1>6. d \in Numbers
  BY <1>4, BodyIs, NumbersAre, Arithmetic
<1>7. e \in Int
  BY <1>5, BodyIs, AngleDifference
<1>8. ASSUME NEW g \in Numbers, NEW h \in Int, pulled(g, h)
      PROVE  Touched
  <2>1. forced(body, g) \in Bodies(Numbers)
    BY ForcedIs
  <2>2. forced(body, g).m_mass = body.m_mass
    BY DEF forced, BodiesInv, Bodies
  <2>3. turned(forced(body, g), h) \in Bodies(Numbers)
    BY <2>1, <2>2, ForcedIs
  <2>4. Change(turned(forced(body, g), h))
    BY <1>8 DEF pulled
  <2> QED
    BY <2>3, <2>4, ChangeTouches
<1> HIDE DEF q, r
<1>9. CASE connectNodes(p, angle, f)
  <2>1. restoringForce(q, f) \in Numbers
    BY <1>2, <1>6, NumbersAre, Arithmetic DEF restoringForce
  <2>2. rotationRestoringForce(r, f) \in Int
    BY <1>2, <1>7, Arithmetic DEF rotationRestoringForce
  <2>3. pulled(restoringForce(q, f), rotationRestoringForce(r, f))
    BY <1>9 DEF connectNodes, q, r
  <2> QED
    BY <1>8, <2>1, <2>2, <2>3
<1>10. CASE dockNodes(p, angle, f)
  <2>1. abs(d) \in Numbers /\ sgn(d) \in Numbers
    BY <1>6, NumbersAre, Signs
  <2>2. falling(abs(d), 8) \in Numbers
    BY <1>2, <2>1, NumbersAre, Falling
  <2>3. times(sgn(d), falling(abs(d), 8)) \in Numbers
    BY <2>1, <2>2, NumbersAre, Arithmetic
  <2>4. times(times(sgn(d), falling(abs(d), 8)), f) \in Numbers
    BY <1>2, <2>3, NumbersAre, Arithmetic
  <2>5. distanceRelatedForce(q, 8, f) \in Numbers
    BY <1>2, <2>4 DEF distanceRelatedForce
  <2>6. abs(e) \in Int
    BY <1>7, Signs
  <2>7. falling(abs(e), 1) \in Int
    BY <1>2, <2>6, Falling
  <2>8. times(falling(abs(e), 1), -1) \in Int
    BY <1>2, <2>7, Arithmetic
  <2>9. times(falling(abs(e), 1), f) \in Int
        /\ times(times(falling(abs(e), 1), -1), f) \in Int
    BY <1>2, <2>7, <2>8, Arithmetic
  <2>10. distanceRelatedRotationForce(r, 1, f) \in Int
    BY <2>9 DEF distanceRelatedRotationForce
  <2>11. pulled(distanceRelatedForce(q, 8, f), distanceRelatedRotationForce(r, 1, f))
    BY <1>10 DEF dockNodes, q, r
  <2> QED
    BY <1>8, <2>5, <2>10, <2>11
<1> QED
  BY <1>1, <1>9, <1>10

(***************************************************************************)
(* Friction is proportional to the velocity: without one there is none,    *)
(* and it makes no acceleration of what has none vanish.                   *)
(***************************************************************************)
LEMMA FrictionOf ==
  ASSUME NEW N, N \in {Int, Number}, NEW b \in Bodies(N)
  PROVE  LET c == withFriction(b)
         IN /\ c \in Bodies(N)
            /\ c.position.value = b.position.value /\ c.rotation.value = b.rotation.value
            /\ c.position.velocity = b.position.velocity
            /\ c.rotation.velocity = b.rotation.velocity
            /\ c.m_mass = b.m_mass /\ c.m_friction = b.m_friction
            /\ b.position.velocity = 0 =>
                 c.position.acceleration = b.position.acceleration
            /\ b.rotation.velocity = 0 =>
                 c.rotation.acceleration = b.rotation.acceleration
<1>1. /\ b.position \in Kinematic(N) /\ b.rotation \in Turning
      /\ b.m_mass \in Int /\ b.m_friction \in Int /\ b.m_rotationMatrix \in Angle
      /\ b.m_blockFrictionPerTick \in BOOLEAN
  BY DEF Bodies
<1>2. CASE null(b.m_mass)
  BY <1>2 DEF withFriction
<1>3. CASE ~null(b.m_mass)
  <2> DEFINE f == over(b.m_friction, b.m_mass)
             p == addFriction(b.position, f)
             r == addFriction(b.rotation, f)
             g == times(b.position.velocity, times(f, -1))
             h == times(b.rotation.velocity, times(f, -1))
  <2>1. f \in Int
    BY <1>1, <1>3, NullOfZero, Division
  <2>2. times(f, -1) \in Int /\ times(f, -1) \in N
    BY <2>1, Arithmetic DEF Number
  <2>3. g \in N
    BY <1>1, <2>2, Arithmetic DEF Kinematic
  <2>4. h \in Int
    BY <1>1, <2>2, Arithmetic DEF Turning
  <2>5. p = [b.position EXCEPT !.acceleration = plus(@, g)]
        /\ r = [b.rotation EXCEPT !.acceleration = plus(@, h)]
    BY DEF addFriction, addAcceleration
  <2>6. b.position.acceleration \in N /\ b.rotation.acceleration \in Int
    BY <1>1 DEF Kinematic, Turning
  <2>7. plus(b.position.acceleration, g) \in N /\ plus(b.rotation.acceleration, h) \in Int
    BY <2>3, <2>4, <2>6, Arithmetic
  <2>8. p \in Kinematic(N) /\ r \in Turning
    BY <1>1, <2>5, <2>7 DEF Kinematic, Turning
  <2>9. p.value = b.position.value /\ p.velocity = b.position.velocity
        /\ r.value = b.rotation.value /\ r.velocity = b.rotation.velocity
        /\ p.acceleration = plus(b.position.acceleration, g)
        /\ r.acceleration = plus(b.rotation.acceleration, h)
    BY <1>1, <2>5 DEF Kinematic, Turning
  <2>10. ASSUME b.position.velocity = 0
         PROVE  plus(b.position.acceleration, g) = b.position.acceleration
    <3>1. g = 0
      BY <2>2, <2>10, WithZero DEF Number
    <3>2. b.position.acceleration \in Number
      BY <2>6 DEF Number
    <3> QED
      BY <3>1, <3>2, WithZero
  <2>11. ASSUME b.rotation.velocity = 0
         PROVE  plus(b.rotation.acceleration, h) = b.rotation.acceleration
    <3>1. h = 0
      BY <2>2, <2>11, WithZero DEF Number
    <3>2. b.rotation.acceleration \in Number
      BY <2>6 DEF Number
    <3> QED
      BY <3>1, <3>2, WithZero
  <2> DEFINE q == IF b.m_blockFrictionPerTick THEN b.position ELSE p
  <2>12. withFriction(b) = [b EXCEPT !.rotation = r, !.position = q]
    BY <1>3 DEF withFriction
  <2> HIDE DEF p, r, f, g, h
  <2>13. q \in Kinematic(N) /\ q.value = b.position.value
         /\ q.velocity = b.position.velocity
         /\ (b.position.velocity = 0 => q.acceleration = b.position.acceleration)
    BY <1>1, <2>8, <2>9, <2>10
  <2> HIDE DEF q
  <2>14. withFriction(b) \in Bodies(N)
    BY <1>1, <2>8, <2>12, <2>13 DEF Bodies
  <2>15. withFriction(b).rotation = r /\ withFriction(b).position = q
         /\ withFriction(b).m_mass = b.m_mass /\ withFriction(b).m_friction = b.m_friction
    BY <1>1, <2>12 DEF Bodies
  <2> QED
    BY <2>9, <2>11, <2>13, <2>14, <2>15
<1> QED
  BY <1>2, <1>3

LEMMA Accepted ==
  ASSUME NEW N, N \in {Int, Number}, NEW k, NEW v \in N, k.value = v,
         k.velocity \in N, k.acceleration \in N
  PROVE  /\ accept(k) \in Kinematic(N)
         /\ (k.velocity = 0 /\ k.acceleration = 0) =>
              accept(k) = [value |-> v, velocity |-> 0, acceleration |-> 0]
<1> DEFINE w == plus(k.velocity, k.acceleration)
<1>1. w \in N /\ 0 \in N
  BY Arithmetic DEF Number
<1>2. plus(v, w) \in N
  BY <1>1, Arithmetic
<1>3. accept(k) = [value |-> plus(v, w), velocity |-> w, acceleration |-> 0]
  BY DEF accept
<1>4. ASSUME k.velocity = 0, k.acceleration = 0
      PROVE  w = 0 /\ plus(v, 0) = v
  <2>1. v \in Number /\ 0 \in Number
    BY DEF Number
  <2> QED
    BY <1>4, <2>1, WithZero
<1> HIDE DEF w
<1> QED
  BY <1>1, <1>2, <1>3, <1>4 DEF Kinematic

(***************************************************************************)
(* A tick leaves of a body that rests everything as it is.                 *)
(***************************************************************************)
Same(b, c) ==
  /\ b.position = c.position /\ b.rotation = c.rotation
  /\ b.m_mass = c.m_mass /\ b.m_friction = c.m_friction

LEMMA TickKeeps ==
  ASSUME NEW N, N \in {Int, Number}, NEW b \in Bodies(N)
  PROVE  /\ proceeded(withFriction(b)) \in Bodies(N)
         /\ Rests(withFriction(b)) => Rests(b)
         /\ Rests(b) => Same(proceeded(withFriction(b)), b)
<1> DEFINE c == withFriction(b)
           e == proceeded(c)
           r == accept(c.rotation)
           angle == constrainRadians(r.value)
<1>1. /\ c \in Bodies(N)
      /\ c.position.value = b.position.value /\ c.rotation.value = b.rotation.value
      /\ c.position.velocity = b.position.velocity
      /\ c.rotation.velocity = b.rotation.velocity
      /\ c.m_mass = b.m_mass /\ c.m_friction = b.m_friction
      /\ b.position.velocity = 0 => c.position.acceleration = b.position.acceleration
      /\ b.rotation.velocity = 0 => c.rotation.acceleration = b.rotation.acceleration
  BY FrictionOf
<1>2. Rests(c) <=> Rests(b)
  BY <1>1 DEF Rests
<1> HIDE DEF c
<1>3. /\ c.position \in Kinematic(N) /\ c.rotation \in Turning
      /\ c.m_mass \in Int /\ c.m_friction \in Int
      /\ c = [position |-> c.position, rotation |-> c.rotation, m_mass |-> c.m_mass,
              m_friction |-> c.m_friction, m_rotationMatrix |-> c.m_rotationMatrix,
              m_blockFrictionPerTick |-> c.m_blockFrictionPerTick]
  BY <1>1 DEF Bodies
<1>4. /\ b.position = [value |-> b.position.value, velocity |-> b.position.velocity,
                       acceleration |-> b.position.acceleration]
      /\ b.rotation = [value |-> b.rotation.value, velocity |-> b.rotation.velocity,
                       acceleration |-> b.rotation.acceleration]
      /\ b.position.value \in N /\ b.rotation.value \in Angle /\ b.rotation.value \in Int
  BY DEF Bodies, Kinematic, Turning, Angle
<1>5. /\ accept(c.position) \in Kinematic(N)
      /\ Rests(b) => accept(c.position) = b.position
  <2>1. c.position.velocity \in N /\ c.position.acceleration \in N
    BY <1>3 DEF Kinematic
  <2>2. /\ accept(c.position) \in Kinematic(N)
        /\ (c.position.velocity = 0 /\ c.position.acceleration = 0) =>
             accept(c.position)
               = [value |-> b.position.value, velocity |-> 0, acceleration |-> 0]
    BY <1>1, <1>4, <2>1, Accepted
  <2> QED
    BY <1>1, <1>4, <2>2 DEF Rests
<1>6. /\ r \in Kinematic(Int)
      /\ Rests(b) => r = b.rotation
  <2>1. c.rotation.velocity \in Int /\ c.rotation.acceleration \in Int
    BY <1>3 DEF Turning
  <2>2. /\ r \in Kinematic(Int)
        /\ (c.rotation.velocity = 0 /\ c.rotation.acceleration = 0) =>
             r = [value |-> b.rotation.value, velocity |-> 0, acceleration |-> 0]
    BY <1>1, <1>4, <2>1, Accepted
  <2> QED
    BY <1>1, <1>4, <2>2 DEF Rests
<1> HIDE DEF r
<1>7. angle \in Angle /\ (Rests(b) => angle = b.rotation.value)
  <2>1. r.value \in Int
    BY <1>6 DEF Kinematic
  <2>2. b.rotation.value % Turn = b.rotation.value /\ finite(b.rotation.value)
    BY <1>4, PhysicsAssumption DEF Angle, Turn, finite
  <2> QED
    BY <1>6, <2>1, <2>2, Angles DEF constrainRadians
<1> HIDE DEF angle
<1>8. e = [c EXCEPT !.rotation = [r EXCEPT !.value = angle], !.m_rotationMatrix = angle,
                    !.position = accept(c.position), !.m_blockFrictionPerTick = FALSE]
  BY DEF proceeded, r, angle
<1>9. [r EXCEPT !.value = angle] \in Turning
  BY <1>6, <1>7 DEF Kinematic, Turning
<1>10. e \in Bodies(N)
  BY <1>3, <1>5, <1>7, <1>8, <1>9 DEF Bodies
<1>11. /\ e.position = accept(c.position) /\ e.rotation = [r EXCEPT !.value = angle]
       /\ e.m_mass = c.m_mass /\ e.m_friction = c.m_friction
  BY <1>3, <1>8
<1>12. ASSUME Rests(b)
       PROVE  [r EXCEPT !.value = angle] = b.rotation
  BY <1>4, <1>6, <1>7, <1>12
<1> QED
  BY <1>1, <1>2, <1>5, <1>10, <1>11, <1>12 DEF Same, c

(***************************************************************************)
(* The inductive invariant: bodies of numbers; what the replica is, or is  *)
(* to be by the package on its way, is the body as it was written, and as  *)
(* it still is if it rests and has nothing to synchronize.                 *)
(***************************************************************************)
Written == IF sentBody = <<>> THEN replica ELSE Head(sentBody)

PhysicsInv ==
  /\ BodiesInv
  /\ needSync \in BOOLEAN /\ crawled \in BOOLEAN
  /\ Len(sentBody) <= 1
  /\ (~needSync /\ ~crawled /\ Rests(body)) => Same(Written, body)

LEMMA PhysicsInit == InitPhysics => PhysicsInv
<1> SUFFICES ASSUME InitPhysics
             PROVE  PhysicsInv
  OBVIOUS
<1>1. AtRest \in Kinematic(Int) /\ AtRest \in Turning
  BY DEF AtRest, Kinematic, Turning, Angle, Turn
<1>2. body \in Bodies(Int)
  BY <1>1, PhysicsAssumption DEF InitPhysics, Bodies, Angle, Turn
<1>3. Numbers = Int /\ sentBody \in Seq(Bodies(Int)) /\ Len(sentBody) <= 1
  BY DEF InitPhysics, Numbers
<1> QED
  BY <1>2, <1>3 DEF InitPhysics, PhysicsInv, BodiesInv

LEMMA TouchedKeeps ==
  ASSUME PhysicsInv, Touched, crawled' = crawled, sentBody' = sentBody
  PROVE  PhysicsInv'
BY DEF PhysicsInv, Touched

LEMMA PhysicsStep == PhysicsInv /\ [NextPhysics]_physicsVars => PhysicsInv'
<1> SUFFICES ASSUME PhysicsInv, [NextPhysics]_physicsVars
             PROVE  PhysicsInv'
  OBVIOUS
<1>1. /\ BodiesInv /\ needSync \in BOOLEAN /\ crawled \in BOOLEAN /\ centred \in BOOLEAN
      /\ body \in Bodies(Numbers) /\ replica \in Bodies(Numbers)
      /\ sentBody \in Seq(Bodies(Numbers)) /\ Len(sentBody) <= 1
      /\ (~needSync /\ ~crawled /\ Rests(body)) => Same(Written, body)
  BY DEF PhysicsInv, BodiesInv
<1>2. ASSUME NEW b \in Bodies(Numbers), Change(b)
      PROVE  PhysicsInv'
  <2>1. Touched
    BY <1>1, <1>2, ChangeTouches
  <2> QED
    BY <1>2, <2>1, TouchedKeeps DEF Change
<1>3. CASE proceedPhysics
  <2> DEFINE b == withFriction(body)
  <2>1. /\ body' = proceeded(b)
        /\ needSync' = (needSync \/ noticed(b))
        /\ crawled' = (crawled \/ (~moves(b) /\ ~Rests(b)))
        /\ sentBody' = sentBody /\ replica' = replica /\ centred' = centred
    BY <1>3 DEF proceedPhysics
  <2>2. proceeded(b) \in Bodies(Numbers) /\ (Rests(b) => Rests(body))
        /\ (Rests(body) => Same(proceeded(b), body))
    BY <1>1, NumbersAre, TickKeeps
  <2> HIDE DEF b
  <2>3. Numbers' = Numbers /\ Written' = Written
    BY <2>1 DEF Numbers, Written
  <2>4. BodiesInv'
    BY <1>1, <2>1, <2>2, <2>3 DEF BodiesInv
  <2>5. ASSUME ~needSync', ~crawled'
        PROVE  Same(Written, body)'
    <3>1. ~needSync /\ ~crawled /\ ~moves(b) /\ (moves(b) \/ Rests(b))
      BY <2>1, <2>5 DEF noticed
    <3>2. Rests(body)
      BY <2>2, <3>1
    <3> QED
      BY <1>1, <2>1, <2>2, <2>3, <3>1, <3>2 DEF Same
  <2>6. needSync' \in BOOLEAN /\ crawled' \in BOOLEAN /\ Len(sentBody') <= 1
    BY <1>1, <2>1 DEF noticed, moves
  <2> QED
    BY <2>4, <2>5, <2>6 DEF PhysicsInv
<1>4. CASE \E f \in {0} \cup Strength : setMass(f) \/ setFriction(f)
  <2>1. PICK f \in {0} \cup Strength : setMass(f) \/ setFriction(f)
    BY <1>4
  <2>2. f \in Int
    BY PhysicsAssumption
  <2>3. [body EXCEPT !.m_mass = f] \in Bodies(Numbers)
        /\ [body EXCEPT !.m_friction = f] \in Bodies(Numbers)
    BY <1>1, <2>2 DEF Bodies
  <2> QED
    BY <1>2, <2>1, <2>3 DEF setMass, setFriction
<1>5. CASE blockFrictionPerTick
  <2>1. [body EXCEPT !.m_blockFrictionPerTick = TRUE] \in Bodies(Numbers)
    BY <1>1 DEF Bodies
  <2> QED
    BY <1>2, <1>5, <2>1 DEF blockFrictionPerTick
<1>6. CASE \E p \in Point, r \in 0 .. Turn - 1 : resetPhysicsProperties(p, r, p, r)
  <2>1. PICK p \in Point, r \in 0 .. Turn - 1 : resetPhysicsProperties(p, r, p, r)
    BY <1>6
  <2> DEFINE b == [body EXCEPT !.position.value = p, !.position.velocity = p,
                               !.rotation.value = r, !.rotation.velocity = r]
  <2>2. p \in Numbers /\ p \in Int /\ r \in Angle /\ r \in Numbers /\ r \in Int
    BY PhysicsAssumption, NumbersAre DEF Angle, Turn
  <2>3. body.position \in Kinematic(Numbers) /\ body.rotation \in Turning
    BY <1>1 DEF Bodies
  <2>4. [body.position EXCEPT !.value = p, !.velocity = p] \in Kinematic(Numbers)
        /\ [body.rotation EXCEPT !.value = r, !.velocity = r] \in Turning
    BY <2>2, <2>3 DEF Kinematic, Turning
  <2>5. b = [body EXCEPT !.position = [body.position EXCEPT !.value = p, !.velocity = p],
                         !.rotation = [body.rotation EXCEPT !.value = r, !.velocity = r]]
    BY <1>1, <2>3 DEF Bodies, Kinematic, Turning
  <2>6. b \in Bodies(Numbers)
    BY <1>1, <2>4, <2>5 DEF Bodies
  <2> HIDE DEF b
  <2>7. Change(b)
    BY <2>1 DEF resetPhysicsProperties, b
  <2> QED
    BY <1>2, <2>6, <2>7
<1>7. CASE Forces
  <2>1. Touched
    BY <1>1, <1>7, ForcesTouch
  <2>2. crawled' = crawled /\ sentBody' = sentBody
    BY <1>7 DEF Forces, addForwardForce, addSideForce, addLimitedSideForce,
         addPursuitForce, addRestoringForce, addFollowForce, addDistanceRelatedForce,
         addGravityForce, addForce, addLimitedForce, Change
  <2> QED
    BY <2>1, <2>2, TouchedKeeps
<1>8. CASE RotationForces
  <2>1. Touched
    BY <1>1, <1>8, RotationForcesTouch
  <2>2. crawled' = crawled /\ sentBody' = sentBody
    BY <1>8 DEF RotationForces, addRotationGravityForce, addRotationPursuitForce,
         addRotationFollowForce, addRotationRestoringForce, addTargetRotationForse,
         addDistanceRelatedRotationForce, addRotationForce, addLimitedRotationForce, Change
  <2> QED
    BY <2>1, <2>2, TouchedKeeps
<1>9. CASE Joints
  <2>1. Touched
    BY <1>1, <1>9, JointsTouch
  <2>2. crawled' = crawled /\ sentBody' = sentBody
    BY <1>9 DEF Joints, connectNodes, dockNodes, pulled, Change
  <2> QED
    BY <2>1, <2>2, TouchedKeeps
<1>10. CASE writeNet
  <2>1. /\ sentBody = <<>> /\ sentBody' = <<body>> /\ body' = body /\ replica' = replica
        /\ needSync' = FALSE /\ crawled' = FALSE /\ centred' = centred
    BY <1>10 DEF writeNet
  <2>2. sentBody' \in Seq(Bodies(Numbers)) /\ Len(sentBody') = 1 /\ Head(sentBody') = body
        /\ sentBody' # <<>>
    BY <1>1, <2>1
  <2>3. Numbers' = Numbers /\ Written' = body'
    BY <2>1, <2>2 DEF Numbers, Written
  <2>4. Same(Written, body)'
    BY <2>3 DEF Same
  <2>5. Len(sentBody') <= 1
    BY <2>2
  <2> QED
    BY <1>1, <2>1, <2>2, <2>3, <2>4, <2>5 DEF PhysicsInv, BodiesInv
<1>11. CASE readNet
  <2>1. /\ sentBody # <<>> /\ replica' = Head(sentBody) /\ sentBody' = Tail(sentBody)
        /\ body' = body /\ needSync' = needSync /\ crawled' = crawled /\ centred' = centred
    BY <1>11 DEF readNet
  <2>2. Len(sentBody) = 1
    <3>1. Len(sentBody) \in Nat /\ Len(sentBody) # 0
      BY <1>1, <2>1, EmptySeq, LenProperties
    <3>2. Len(sentBody) <= 1
      BY <1>1
    <3> DEFINE n == Len(sentBody)
    <3> HIDE DEF n
    <3>3. n \in Nat /\ n # 0 /\ n <= 1
      BY <3>1, <3>2 DEF n
    <3>4. n = 1
      BY <3>3
    <3> QED
      BY <3>4 DEF n
  <2>3. Head(sentBody) \in Bodies(Numbers) /\ Tail(sentBody) = <<>>
    BY <1>1, <2>1, <2>2
  <2>4. Numbers' = Numbers /\ Written' = Written
    BY <2>1, <2>3 DEF Numbers, Written
  <2>5. sentBody' \in Seq(Bodies(Numbers)) /\ Len(sentBody') <= 1
    <3>1. sentBody' = <<>> /\ <<>> \in Seq(Bodies(Numbers)) /\ Len(<<>>) = 0
      BY <2>1, <2>3
    <3> QED
      BY <3>1
  <2>6. (~needSync' /\ ~crawled' /\ Rests(body')) => Same(Written', body')
    BY <1>1, <2>1, <2>4
  <2> QED
    BY <1>1, <2>1, <2>3, <2>4, <2>5, <2>6 DEF PhysicsInv, BodiesInv
<1>12. CASE replicaProceeds
  <2>1. /\ replica' = proceeded(withFriction(replica))
        /\ body' = body /\ needSync' = needSync /\ sentBody' = sentBody
        /\ crawled' = crawled /\ centred' = centred
    BY <1>12 DEF replicaProceeds
  <2>2. replica' \in Bodies(Numbers) /\ (Rests(replica) => Same(replica', replica))
    BY <1>1, <2>1, NumbersAre, TickKeeps
  <2>3. Numbers' = Numbers
    BY <2>1 DEF Numbers
  <2>4. ASSUME ~needSync, ~crawled, Rests(body)
        PROVE  Same(Written', body)
    <3>1. Same(Written, body)
      BY <1>1, <2>4
    <3>2. CASE sentBody = <<>>
      BY <2>1, <2>2, <2>4, <3>1, <3>2 DEF Same, Written, Rests
    <3>3. CASE sentBody # <<>>
      BY <2>1, <3>1, <3>3 DEF Written
    <3> QED
      BY <3>2, <3>3
  <2> QED
    BY <1>1, <2>1, <2>2, <2>3, <2>4 DEF PhysicsInv, BodiesInv
<1>13. CASE UNCHANGED physicsVars
  <2>1. Numbers' = Numbers /\ Written' = Written
    BY <1>13 DEF physicsVars, Numbers, Written
  <2> QED
    BY <1>1, <1>13, <2>1 DEF physicsVars, PhysicsInv, BodiesInv
<1> QED
  BY <1>3, <1>4, <1>5, <1>6, <1>7, <1>8, <1>9, <1>10, <1>11, <1>12, <1>13 DEF NextPhysics

LEMMA PhysicsInductive == SpecPhysics => []PhysicsInv
BY PhysicsInit, PhysicsStep, PTL DEF SpecPhysics

(***************************************************************************)
(* An object that rests and has nothing to synchronize is where its        *)
(* replica is, for any forces, masses and coefficients.                    *)
(***************************************************************************)
THEOREM ReplicaAgrees == SpecPhysics => []RestingReplicaAgrees
<1>1. PhysicsInv => RestingReplicaAgrees
  BY DEF PhysicsInv, RestingReplicaAgrees, Written, Same
<1> QED
  BY <1>1, PhysicsInductive, PTL

(***************************************************************************)
(* No force makes of a number what is none, but gravity towards the place  *)
(* where the object is.                                                    *)
(***************************************************************************)
THEOREM OnlyCentredLosesNumbers == SpecPhysics => []NumbersStayFinite
<1>1. PhysicsInv => NumbersStayFinite
  <2> SUFFICES ASSUME PhysicsInv, ~centred, NEW b \in {body, replica}
               PROVE  NotFinite \notin Numbers3(b.position) \cup Numbers3(b.rotation)
                        \cup {b.m_mass, b.m_friction, b.m_rotationMatrix}
    BY DEF NumbersStayFinite
  <2>1. b \in Bodies(Int)
    BY DEF PhysicsInv, BodiesInv, Numbers
  <2> QED
    BY <2>1, PhysicsAssumption DEF Bodies, Kinematic, Turning, Angle, Numbers3
<1> QED
  BY <1>1, PhysicsInductive, PTL

-----------------------------------------------------------------------------
(* FlagParser: the program runs if its arguments are well formed *)

\* Where the arguments have f's names, and a name where a value is due.
NamedAt(a, f) == {i \in 1 .. Len(a) : a[i] \in Names(f)}
Ambiguous(a) == \E i \in 1 .. Len(a) - 1 : Takes(a[i]) /\ IsName(a[i + 1])

\* The arguments q are those of a at the places K, in order: h says which.
Places(h, q, a, K) ==
  /\ h \in [1 .. Len(q) -> K]
  /\ \A i, j \in 1 .. Len(q) : i < j => h[i] < h[j]
  /\ \A i \in 1 .. Len(q) : q[i] = a[h[i]]
  /\ \A p \in K : \E i \in 1 .. Len(q) : h[i] = p

\* The places once argument k of n is taken away.
Without(h, k, n) == [i \in 1 .. n - 1 |-> h[IF i < k THEN i ELSE i + 1]]

\* An argument taken away leaves the others where they were.
LEMMA PlacesWithout ==
  ASSUME NEW S, NEW a, NEW q \in Seq(S), NEW K \in SUBSET Nat, NEW h, Places(h, q, a, K),
         NEW k \in 1 .. Len(q)
  PROVE  Places(Without(h, k, Len(q)), RemoveAt(q, k), a, K \ {h[k]})
<1> DEFINE n == Len(q)
           r == RemoveAt(q, k)
           old(i) == IF i < k THEN i ELSE i + 1
           g == [i \in 1 .. n - 1 |-> h[old(i)]]
<1>1. /\ n \in Nat /\ Len(r) = n - 1
      /\ \A i \in 1 .. n - 1 : r[i] = IF i < k THEN q[i] ELSE q[i + 1]
  BY LenProperties, RemoveAtProperties
<1>2. /\ h \in [1 .. n -> K]
      /\ \A i, j \in 1 .. n : i < j => h[i] < h[j]
      /\ \A i \in 1 .. n : q[i] = a[h[i]]
      /\ \A p \in K : \E j \in 1 .. n : h[j] = p
  BY DEF Places
<1>3. k \in 1 .. n
  OBVIOUS
<1> HIDE DEF n, r
<1>4. \A i \in 1 .. n - 1 : old(i) \in 1 .. n /\ old(i) # k
  BY <1>1, <1>3
<1>5. \A i, j \in 1 .. n : h[i] = h[j] => i = j
  <2> SUFFICES ASSUME NEW i \in 1 .. n, NEW j \in 1 .. n, h[i] = h[j], i # j
               PROVE  FALSE
    OBVIOUS
  <2>1. h[i] \in Nat /\ h[j] \in Nat
    BY <1>2
  <2>2. i < j \/ j < i
    BY <1>1
  <2>3. h[i] < h[j] \/ h[j] < h[i]
    BY <1>2, <2>2
  <2> QED
    BY <2>1, <2>3
<1>6. g \in [1 .. n - 1 -> K \ {h[k]}]
  <2> SUFFICES ASSUME NEW i \in 1 .. n - 1
               PROVE  h[old(i)] \in K \ {h[k]}
    OBVIOUS
  <2>1. old(i) \in 1 .. n /\ old(i) # k
    BY <1>4
  <2> HIDE DEF old
  <2> QED
    BY <1>2, <1>3, <1>5, <2>1
<1>7. \A i \in 1 .. n - 1 : g[i] = h[old(i)]
  OBVIOUS
<1> HIDE DEF g
<1>8. \A i, j \in 1 .. n - 1 : i < j => g[i] < g[j]
  <2> SUFFICES ASSUME NEW i \in 1 .. n - 1, NEW j \in 1 .. n - 1, i < j
               PROVE  g[i] < g[j]
    OBVIOUS
  <2>1. old(i) \in 1 .. n /\ old(j) \in 1 .. n
    BY <1>4
  <2>2. old(i) < old(j)
    BY <1>1, <1>3
  <2>3. g[i] = h[old(i)] /\ g[j] = h[old(j)]
    BY <1>7
  <2> HIDE DEF old
  <2> QED
    BY <1>2, <2>1, <2>2, <2>3
<1>9. \A i \in 1 .. n - 1 : r[i] = a[g[i]]
  <2> SUFFICES ASSUME NEW i \in 1 .. n - 1
               PROVE  r[i] = a[g[i]]
    OBVIOUS
  <2>1. r[i] = q[old(i)]
    BY <1>1
  <2>2. old(i) \in 1 .. n /\ g[i] = h[old(i)]
    BY <1>4, <1>7
  <2> HIDE DEF old
  <2> QED
    BY <1>2, <2>1, <2>2
<1>10. ASSUME NEW p \in K \ {h[k]}
       PROVE  \E i \in 1 .. n - 1 : g[i] = p
  <2>1. PICK j \in 1 .. n : h[j] = p
    <3>1. p \in K
      OBVIOUS
    <3> QED
      BY <1>2, <3>1
  <2>2. j # k
    BY <2>1
  <2>3. PICK i \in 1 .. n - 1 : old(i) = j
    <3>1. CASE j < k
      <4>1. j \in 1 .. n - 1 /\ old(j) = j
        BY <1>1, <1>3, <3>1
      <4> QED
        BY <4>1
    <3>2. CASE j > k
      <4>1. j - 1 \in 1 .. n - 1 /\ old(j - 1) = j
        BY <1>1, <1>3, <3>2
      <4> QED
        BY <4>1
    <3> QED
      BY <1>1, <1>3, <2>2, <3>1, <3>2
  <2> QED
    BY <1>7, <2>1, <2>3
<1>11. Places(g, r, a, K \ {h[k]})
  BY <1>1, <1>6, <1>8, <1>9, <1>10 DEF Places
<1>12. g = Without(h, k, n)
  BY DEF Without, g
<1> QED
  BY <1>11, <1>12 DEF n, r

\* Places next to each other stay next to each other.
LEMMA NextPlace ==
  ASSUME NEW q, Len(q) \in Nat, NEW a, NEW K \in SUBSET Nat, NEW h, Places(h, q, a, K),
         NEW k \in 1 .. Len(q), h[k] + 1 \in K
  PROVE  k + 1 \in 1 .. Len(q) /\ h[k + 1] = h[k] + 1
<1> DEFINE n == Len(q)
<1>1. /\ n \in Nat /\ k \in 1 .. n /\ h \in [1 .. n -> Nat]
      /\ \A i, j \in 1 .. n : i < j => h[i] < h[j]
      /\ \A p \in K : \E i \in 1 .. n : h[i] = p
  BY DEF Places
<1> HIDE DEF n
<1>2. PICK m \in 1 .. n : h[m] = h[k] + 1
  BY <1>1
<1>3. h[k] \in Nat
  BY <1>1
<1>4. m > k
  <2>1. ~(m < k)
    <3> SUFFICES ASSUME m < k
                 PROVE  FALSE
      OBVIOUS
    <3>1. h[m] < h[k]
      BY <1>1
    <3> QED
      BY <1>2, <1>3, <3>1
  <2>2. m # k
    BY <1>2, <1>3
  <2> QED
    BY <1>1, <2>1, <2>2
<1>5. k + 1 \in 1 .. n
  BY <1>1, <1>4
<1>6. ~(k + 1 < m)
  <2> SUFFICES ASSUME k + 1 < m
               PROVE  FALSE
    OBVIOUS
  <2>1. h[k] < h[k + 1]
    BY <1>1, <1>5
  <2>2. h[k + 1] < h[m]
    BY <1>1, <1>5
  <2>3. h[k + 1] \in Nat
    BY <1>1, <1>5
  <2> QED
    BY <1>2, <1>3, <2>1, <2>2, <2>3
<1>7. m = k + 1
  BY <1>1, <1>4, <1>6
<1> QED
  BY <1>2, <1>5, <1>7 DEF n

LEMMA FoundAt ==
  ASSUME NEW S, NEW q \in Seq(S), NEW c
  PROVE  /\ find(q, c) \in 0 .. Len(q)
         /\ find(q, c) # 0 => q[find(q, c)] = c
         /\ find(q, c) = 0 => \A i \in 1 .. Len(q) : q[i] # c
<1>1. DOMAIN q = 1 .. Len(q) /\ Len(q) \in Nat
  BY LenProperties
<1> DEFINE n == Len(q)
           T == {i \in 1 .. n : q[i] = c}
<1>2. CASE \E i \in DOMAIN q : q[i] = c
  <2>1. T # {} /\ T \in SUBSET Nat
    BY <1>1, <1>2
  <2>2. PICK i \in T : \A j \in T : i <= j
    BY <2>1, LeastElement
  <2>3. i \in DOMAIN q /\ q[i] = c
    BY <1>1
  <2>4. \A j \in 1 .. i - 1 : q[j] # c
    <3> SUFFICES ASSUME NEW j \in 1 .. i - 1, q[j] = c
                 PROVE  FALSE
      OBVIOUS
    <3>1. i \in 1 .. n /\ n \in Nat
      BY <1>1
    <3> HIDE DEF n
    <3>2. j \in 1 .. n
      BY <3>1
    <3>3. i <= j
      BY <2>2, <3>2
    <3> QED
      BY <3>1, <3>3
  <2>5. find(q, c) = CHOOSE k \in DOMAIN q : q[k] = c /\ \A j \in 1 .. k - 1 : q[j] # c
    BY <1>2 DEF find
  <2>6. find(q, c) \in DOMAIN q /\ q[find(q, c)] = c
    BY <2>3, <2>4, <2>5
  <2> HIDE DEF n
  <2>7. find(q, c) \in 1 .. n /\ n \in Nat
    BY <1>1, <2>6 DEF n
  <2>8. find(q, c) \in 0 .. n /\ find(q, c) # 0
    BY <2>7
  <2> QED
    BY <2>6, <2>8 DEF n
<1>3. CASE ~\E i \in DOMAIN q : q[i] = c
  <2>1. find(q, c) = 0
    BY <1>3 DEF find
  <2> HIDE DEF n
  <2>2. 0 \in 0 .. n
    BY <1>1 DEF n
  <2> QED
    BY <1>1, <1>3, <2>1, <2>2 DEF n
<1> QED
  BY <1>2, <1>3

\* Where one of f's names is found, 0 for nowhere.
Spot(q, f) == IF find(q, f.shortName) > 0 THEN find(q, f.shortName) ELSE find(q, f.longName)

LEMMA SpotFound ==
  ASSUME NEW S, NEW q \in Seq(S), NEW f
  PROVE  /\ Spot(q, f) \in 0 .. Len(q)
         /\ Spot(q, f) # 0 => q[Spot(q, f)] \in Names(f)
         /\ Spot(q, f) = 0 => \A i \in 1 .. Len(q) : q[i] \notin Names(f)
<1> DEFINE n == Len(q)
           k == find(q, f.shortName)
           l == find(q, f.longName)
<1>1. /\ k \in 0 .. n /\ (k # 0 => q[k] = f.shortName)
      /\ (k = 0 => \A i \in 1 .. n : q[i] # f.shortName)
  BY FoundAt
<1>2. /\ l \in 0 .. n /\ (l # 0 => q[l] = f.longName)
      /\ (l = 0 => \A i \in 1 .. n : q[i] # f.longName)
  BY FoundAt
<1>3. Spot(q, f) = IF k > 0 THEN k ELSE l
  BY DEF Spot
<1>4. n \in Nat
  BY LenProperties
<1> HIDE DEF n, k, l
<1>5. CASE k > 0
  BY <1>1, <1>3, <1>4, <1>5 DEF Names, n
<1>6. CASE ~(k > 0)
  <2>1. k = 0 /\ Spot(q, f) = l
    BY <1>1, <1>3, <1>4, <1>6
  <2> QED
    BY <1>1, <1>2, <2>1 DEF Names, n
<1> QED
  BY <1>5, <1>6

\* What a declaration takes, by where the name is found.
LEMMA PoppedAt ==
  ASSUME NEW q \in Seq(FlagArgument), NEW f
  PROVE  LET k == Spot(q, f)
         IN /\ popBoolArg(q, f) =
                 IF k = 0 THEN [value |-> "false", rest |-> q]
                 ELSE [value |-> "true", rest |-> RemoveAt(q, k)]
            /\ popArgAfter(q, f) =
                 IF k = 0 THEN [value |-> NotFound, rest |-> q]
                 ELSE IF k = Len(q) THEN [value |-> Missing, rest |-> q]
                 ELSE [value |-> q[k + 1], rest |-> RemoveAt(RemoveAt(q, k), k)]
<1> DEFINE n == Len(q)
           k == find(q, f.shortName)
           l == find(q, f.longName)
           popped(m) == IF m = 0 THEN [value |-> NotFound, rest |-> q]
                        ELSE IF m = n THEN [value |-> Missing, rest |-> q]
                        ELSE [value |-> q[m + 1], rest |-> RemoveAt(RemoveAt(q, m), m)]
<1>1. k \in 0 .. n /\ l \in 0 .. n /\ n \in Nat
  BY FoundAt, LenProperties
<1>2. /\ popAfter(q, f.shortName) = popped(k) /\ popAfter(q, f.longName) = popped(l)
  BY Zenon DEF popAfter
<1>3. \A i \in 1 .. n : q[i] # NotFound
  <2> SUFFICES ASSUME NEW i \in 1 .. n
               PROVE  q[i] # NotFound
    OBVIOUS
  <2>1. q[i] \in FlagArgument
    BY ElementOfSeq
  <2> QED
    BY <2>1, FlagParserAssumption DEF FlagErrors
<1>4. Missing # NotFound
  BY DEF Missing, NotFound
<1>5. popped(k).value = NotFound <=> k = 0
  <2> HIDE DEF n, k
  <2>1. CASE k = 0
    BY <2>1
  <2>2. CASE k # 0 /\ k = n
    BY <1>4, <2>2
  <2>3. CASE k # 0 /\ k # n
    <3>1. k + 1 \in 1 .. n
      BY <1>1, <2>3
    <3> QED
      BY <1>3, <2>3, <3>1
  <2> QED
    BY <2>1, <2>2, <2>3
<1>6. popArgAfter(q, f) = IF popped(k).value = NotFound THEN popped(l) ELSE popped(k)
  <2>1. popArgAfter(q, f) = IF popAfter(q, f.shortName).value = NotFound
                            THEN popAfter(q, f.longName) ELSE popAfter(q, f.shortName)
    BY DEF popArgAfter
  <2> HIDE DEF popped
  <2> QED
    BY <1>2, <2>1
<1>7. popBoolArg(q, f) = [value |-> IF Spot(q, f) > 0 THEN "true" ELSE "false",
                          rest |-> IF Spot(q, f) > 0 THEN RemoveAt(q, Spot(q, f)) ELSE q]
  BY Zenon DEF popBoolArg, Spot
<1>8. Spot(q, f) = IF k > 0 THEN k ELSE l
  BY DEF Spot
<1> HIDE DEF n, k, l, popped
<1>9. popArgAfter(q, f) = popped(Spot(q, f))
  <2>1. CASE k = 0
    BY <1>1, <1>5, <1>6, <1>8, <2>1
  <2>2. CASE k # 0
    <3>1. k > 0
      BY <1>1, <2>2
    <3> QED
      BY <1>5, <1>6, <1>8, <2>2, <3>1
  <2> QED
    BY <2>1, <2>2
<1>10. Spot(q, f) \in 0 .. n
  BY <1>1, <1>8
<1> DEFINE s == Spot(q, f)
<1> HIDE DEF s
<1>11. popBoolArg(q, f) = IF s = 0 THEN [value |-> "false", rest |-> q]
                          ELSE [value |-> "true", rest |-> RemoveAt(q, s)]
  <2>1. s > 0 <=> s # 0
    BY <1>1, <1>10 DEF s
  <2>2. popBoolArg(q, f) = [value |-> IF s > 0 THEN "true" ELSE "false",
                            rest |-> IF s > 0 THEN RemoveAt(q, s) ELSE q]
    BY <1>7 DEF s
  <2> QED
    BY <2>1, <2>2, Zenon
<1> QED
  BY <1>9, <1>11 DEF s, popped, n

\* What f's declaration gives, v, and the places of what it takes, t: nothing if
\* none of its names is there, and nothing if its value is missing.
Outcome(a, f, v, t) ==
  \/ /\ NamedAt(a, f) = {} /\ t = {}
     /\ v = IF f.kind = "bool" THEN "false" ELSE IF f.mandatory THEN NotFound ELSE "default"
  \/ \E i \in NamedAt(a, f) :
       \/ f.kind = "bool" /\ v = "true" /\ t = {i}
       \/ f.kind # "bool" /\ i + 1 <= Len(a) /\ v = parsed(a[i + 1], f) /\ t = {i, i + 1}
       \/ f.kind # "bool" /\ i = Len(a) /\ v = Missing /\ t = {}

\* The places that no declaration took.
LeftOf(a, T, D) == {i \in 1 .. Len(a) : \A g \in D : i \notin T[g]}

LEMMA KindsOfFlags ==
  /\ \A f \in AllFlags : f.kind # "bool" => f \in Flag
  /\ \A f, g \in AllFlags : f # g => Names(f) \cap Names(g) = {}
<1>1. help.kind = "bool" /\ version.kind = "bool"
  BY DEF help, version
<1> QED
  BY <1>1, FlagParserAssumption DEF AllFlags

LEMMA TakesIsName ==
  ASSUME NEW f \in AllFlags, f.kind # "bool", NEW c \in Names(f)
  PROVE  Takes(c) /\ IsName(c)
BY KindsOfFlags DEF Takes, IsName

\* Nobody else takes a name of f, or what follows it.
LEMMA NameIsLeft ==
  ASSUME NEW a, Len(a) \in Nat, ~Ambiguous(a), NEW D \in SUBSET AllFlags, NEW T, NEW v,
         \A g \in D : Outcome(a, g, v[g], T[g]),
         NEW f \in AllFlags, f \notin D, NEW i \in NamedAt(a, f)
  PROVE  /\ i \in LeftOf(a, T, D)
         /\ (f.kind # "bool" /\ i + 1 <= Len(a)) => i + 1 \in LeftOf(a, T, D)
<1> DEFINE n == Len(a)
<1>1. n \in Nat /\ i \in 1 .. n /\ a[i] \in Names(f)
  BY DEF NamedAt
<1>2. ASSUME NEW j \in 1 .. n, j + 1 \in 1 .. n
      PROVE  ~(Takes(a[j]) /\ IsName(a[j + 1]))
  <2>1. j \in 1 .. n - 1
    <3> HIDE DEF n
    <3> QED
      BY <1>1, <1>2
  <2> QED
    BY <2>1 DEF Ambiguous
<1>3. ASSUME NEW g \in D, NEW l \in T[g]
      PROVE  \/ l \in NamedAt(a, g)
             \/ g.kind # "bool" /\ \E j \in NamedAt(a, g) : l = j + 1 /\ l <= n
  <2>1. Outcome(a, g, v[g], T[g])
    OBVIOUS
  <2>2. T[g] # {}
    OBVIOUS
  <2>3. PICK j \in NamedAt(a, g) : T[g] = {j} \/ (g.kind # "bool" /\ T[g] = {j, j + 1} /\ j + 1 <= n)
    BY <2>1, <2>2 DEF Outcome
  <2> QED
    BY <2>3
<1>4. \A g \in D : g \in AllFlags /\ g # f /\ Names(g) \cap Names(f) = {}
  BY KindsOfFlags
<1>5. IsName(a[i])
  BY <1>1 DEF IsName
<1>6. ASSUME NEW g \in D
      PROVE  i \notin T[g]
  <2> SUFFICES ASSUME i \in T[g]
               PROVE  FALSE
    OBVIOUS
  <2>1. i \notin NamedAt(a, g)
    BY <1>1, <1>4 DEF NamedAt
  <2>2. PICK j \in NamedAt(a, g) : g.kind # "bool" /\ i = j + 1
    BY <1>3, <2>1
  <2>3. j \in 1 .. n /\ a[j] \in Names(g)
    BY DEF NamedAt
  <2>4. Takes(a[j])
    BY <1>4, <2>2, <2>3, TakesIsName
  <2> QED
    BY <1>1, <1>2, <1>5, <2>2, <2>3, <2>4
<1>7. ASSUME f.kind # "bool", i + 1 <= n, NEW g \in D
      PROVE  i + 1 \notin T[g]
  <2> SUFFICES ASSUME i + 1 \in T[g]
               PROVE  FALSE
    OBVIOUS
  <2>1. i + 1 \in 1 .. n
    <3> HIDE DEF n
    <3> QED
      BY <1>1, <1>7
  <2>2. ~IsName(a[i + 1])
    BY <1>1, <1>2, <1>7, <2>1, TakesIsName
  <2>3. i + 1 \notin NamedAt(a, g)
    BY <1>4, <2>2 DEF NamedAt, IsName
  <2>4. PICK j \in NamedAt(a, g) : i + 1 = j + 1
    BY <1>3, <2>3
  <2>5. j \in Nat /\ a[j] \in Names(g)
    BY <1>1 DEF NamedAt
  <2>6. i = j
    BY <1>1, <2>4, <2>5
  <2> QED
    BY <1>1, <1>4, <2>5, <2>6
<1>8. i \in LeftOf(a, T, D)
  BY <1>1, <1>6 DEF LeftOf
<1>9. ASSUME f.kind # "bool", i + 1 <= n
      PROVE  i + 1 \in LeftOf(a, T, D)
  <2>1. i + 1 \in 1 .. n
    <3> HIDE DEF n
    <3> QED
      BY <1>1, <1>9
  <2> QED
    BY <1>7, <1>9, <2>1 DEF LeftOf
<1> QED
  BY <1>8, <1>9

\* What is left of the arguments, whatever has been declared in whatever order:
\* all but what those flags take of the arguments as they were.
Remaining(a, q, v, D) ==
  \E T : /\ \A g \in D : Outcome(a, g, v[g], T[g])
         /\ \E h : Places(h, q, a, LeftOf(a, T, D))

\* A declaration takes its own, and leaves what remains then.
LEMMA Declared ==
  ASSUME NEW a \in Seq(FlagArgument), ~Ambiguous(a), NEW q \in Seq(FlagArgument),
         NEW D \in SUBSET AllFlags, NEW T, NEW v, NEW h,
         \A g \in D : Outcome(a, g, v[g], T[g]), Places(h, q, a, LeftOf(a, T, D)),
         NEW f \in AllFlags, f \notin D
  PROVE  LET r == declared(q, f)
         IN /\ r.rest \in Seq(FlagArgument)
            /\ \E t, g : /\ Outcome(a, f, r.value, t)
                         /\ Places(g, r.rest, a, LeftOf(a, T, D) \ t)
<1> DEFINE n == Len(a)
           N == Len(q)
           K == LeftOf(a, T, D)
           k == Spot(q, f)
           r == declared(q, f)
<1>1. n \in Nat /\ N \in Nat /\ DOMAIN q = 1 .. N
  BY LenProperties
<1>2. K \in SUBSET (1 .. n) /\ K \in SUBSET Nat
  BY DEF LeftOf
<1>3. /\ h \in [1 .. N -> K]
      /\ \A i \in 1 .. N : q[i] = a[h[i]]
      /\ \A p \in K : \E i \in 1 .. N : h[i] = p
  BY DEF Places
<1>4. /\ k \in 0 .. N /\ (k # 0 => q[k] \in Names(f))
      /\ (k = 0 => \A i \in 1 .. N : q[i] \notin Names(f))
  BY SpotFound
<1>5. \A i \in NamedAt(a, f) : /\ i \in K /\ i \in 1 .. n
                               /\ (f.kind # "bool" /\ i + 1 <= n) => i + 1 \in K
  BY <1>1, NameIsLeft DEF NamedAt
<1>6. k = 0 => NamedAt(a, f) = {}
  <2> SUFFICES ASSUME k = 0, NEW i \in NamedAt(a, f)
               PROVE  FALSE
    OBVIOUS
  <2>1. PICK j \in 1 .. N : h[j] = i
    BY <1>3, <1>5
  <2>2. q[j] \in Names(f)
    BY <1>3, <2>1 DEF NamedAt
  <2> QED
    BY <1>4, <2>2
<1>7. k # 0 => k \in 1 .. N /\ h[k] \in NamedAt(a, f) /\ h[k] \in K
  <2> SUFFICES ASSUME k # 0
               PROVE  k \in 1 .. N /\ h[k] \in NamedAt(a, f) /\ h[k] \in K
    OBVIOUS
  <2>1. k \in 1 .. N
    <3> HIDE DEF N, k
    <3> QED
      BY <1>1, <1>4
  <2>2. h[k] \in K /\ a[h[k]] \in Names(f)
    BY <1>3, <1>4, <2>1
  <2> QED
    BY <1>2, <2>1, <2>2 DEF NamedAt
<1>8. /\ popBoolArg(q, f) = IF k = 0 THEN [value |-> "false", rest |-> q]
                            ELSE [value |-> "true", rest |-> RemoveAt(q, k)]
      /\ popArgAfter(q, f) = IF k = 0 THEN [value |-> NotFound, rest |-> q]
                             ELSE IF k = N THEN [value |-> Missing, rest |-> q]
                             ELSE [value |-> q[k + 1], rest |-> RemoveAt(RemoveAt(q, k), k)]
  BY PoppedAt
<1> HIDE DEF n, N, K, k, r
<1>9. \A t : t = {} => K \ t = K
  OBVIOUS
<1>10. CASE k # 0 /\ f.kind = "bool"
  <2>1. r = [value |-> "true", rest |-> RemoveAt(q, k)]
    BY <1>8, <1>10 DEF r, declared
  <2>2. Places(Without(h, k, N), RemoveAt(q, k), a, K \ {h[k]})
    BY <1>2, <1>7, <1>10, PlacesWithout DEF N, K
  <2>3. RemoveAt(q, k) \in Seq(FlagArgument)
    BY <1>1, <1>7, <1>10, RemoveAtProperties
  <2>4. Outcome(a, f, "true", {h[k]})
    BY <1>7, <1>10 DEF Outcome
  <2>5. r.value = "true" /\ r.rest = RemoveAt(q, k)
    BY <2>1
  <2> QED
    BY <2>2, <2>3, <2>4, <2>5 DEF r, K
<1>11. CASE k = 0 /\ f.kind = "bool"
  <2>1. r = [value |-> "false", rest |-> q]
    BY <1>8, <1>11 DEF r, declared
  <2>2. Outcome(a, f, "false", {})
    BY <1>6, <1>11 DEF Outcome
  <2>3. Places(h, q, a, K \ {})
    BY <1>9 DEF K
  <2>4. r.value = "false" /\ r.rest = q
    BY <2>1
  <2> QED
    BY <2>2, <2>3, <2>4 DEF r, K
<1> DEFINE c == popArgAfter(q, f)
           w == parsed(c.value, f)
<1>12. f.kind # "bool" =>
         r = [c EXCEPT !.value = IF w = NotFound /\ ~f.mandatory THEN "default" ELSE w]
  BY DEF r, declared
<1>13. NotFound \in FlagErrors /\ Missing \in FlagErrors /\ Missing # NotFound
  BY DEF FlagErrors, NotFound, Missing
<1>14. CASE k = 0 /\ f.kind # "bool"
  <2>1. c = [value |-> NotFound, rest |-> q]
    BY <1>8, <1>14
  <2>2. w = NotFound
    BY <1>13, <2>1 DEF parsed
  <2> HIDE DEF c, w
  <2>3. r.rest = q /\ r.value = IF f.mandatory THEN NotFound ELSE "default"
    BY <1>12, <1>14, <2>1, <2>2
  <2>4. Outcome(a, f, r.value, {})
    BY <1>6, <1>14, <2>3 DEF Outcome
  <2>5. Places(h, q, a, K \ {})
    BY <1>9 DEF K
  <2> QED
    BY <2>3, <2>4, <2>5 DEF r, K
<1>15. CASE k # 0 /\ k = N /\ f.kind # "bool"
  <2>1. c = [value |-> Missing, rest |-> q]
    BY <1>8, <1>15
  <2>2. w = Missing
    BY <1>13, <2>1 DEF parsed
  <2> HIDE DEF c, w
  <2>3. r.rest = q /\ r.value = Missing
    BY <1>12, <1>13, <1>15, <2>1, <2>2
  <2>4. h[k] = n
    <3> SUFFICES ASSUME h[k] # n
                 PROVE  FALSE
      OBVIOUS
    <3> DEFINE p == h[k]
    <3>4. p \in 1 .. n /\ p # n
      BY <1>2, <1>7, <1>15
    <3> HIDE DEF p
    <3>5. p + 1 <= n
      BY <1>1, <3>4
    <3>1. h[k] \in 1 .. n /\ h[k] + 1 <= n
      BY <3>4, <3>5 DEF p
    <3>2. h[k] + 1 \in K
      BY <1>5, <1>7, <1>15, <3>1
    <3>3. k + 1 \in 1 .. N
      BY <1>1, <1>2, <1>7, <1>15, <3>2, NextPlace DEF N, K
    <3> QED
      BY <1>1, <1>15, <3>3
  <2>5. Outcome(a, f, r.value, {})
    BY <1>7, <1>15, <2>3, <2>4 DEF Outcome, n
  <2>6. Places(h, q, a, K \ {})
    BY <1>9 DEF K
  <2> QED
    BY <2>3, <2>5, <2>6 DEF r, K
<1>16. CASE k # 0 /\ k # N /\ f.kind # "bool"
  <2> DEFINE p == h[k]
             q1 == RemoveAt(q, k)
             q2 == RemoveAt(q1, k)
  <2>1. c = [value |-> q[k + 1], rest |-> q2]
    BY <1>8, <1>16
  <2>2. k \in 1 .. N /\ k + 1 \in 1 .. N /\ k \in 1 .. N - 1 /\ p \in K /\ p \in 1 .. n
    <3>1. k \in 1 .. N /\ k # N
      BY <1>7, <1>16
    <3>2. k + 1 \in 1 .. N /\ k \in 1 .. N - 1
      BY <1>1, <3>1
    <3>3. p \in K /\ p \in 1 .. n
      BY <1>2, <1>7, <1>16
    <3> QED
      BY <3>1, <3>2, <3>3
  <2>3. h[k + 1] > p /\ h[k + 1] \in K /\ h[k + 1] \in 1 .. n
    <3>1. k < k + 1 /\ h[k + 1] \in K
      BY <1>1, <1>3, <2>2
    <3>2. h[k] < h[k + 1]
      BY <2>2, <3>1 DEF Places, N
    <3> QED
      BY <1>2, <3>1, <3>2
  <2>4. p + 1 <= n
    BY <1>1, <2>2, <2>3
  <2>5. p + 1 \in K
    BY <1>5, <1>7, <1>16, <2>4
  <2>6. h[k + 1] = p + 1
    BY <1>1, <1>2, <2>2, <2>5, NextPlace DEF N, K
  <2>7. q[k + 1] = a[p + 1]
    BY <1>3, <2>2, <2>6
  <2> DEFINE g == Without(h, k, N)
  <2>8. Places(g, q1, a, K \ {p})
    BY <1>2, <2>2, PlacesWithout DEF N, K
  <2>9. q1 \in Seq(FlagArgument) /\ Len(q1) = N - 1
    <3>1. k \in 1 .. Len(q)
      BY <2>2 DEF N
    <3> QED
      BY ONLY <3>1, q \in Seq(FlagArgument), RemoveAtProperties DEF N
  <2>10. g[k] = p + 1
    <3>1. ~(k < k)
      BY <1>1, <2>2
    <3> QED
      BY <2>2, <2>6, <3>1 DEF Without
  <2>11. k \in 1 .. Len(q1) /\ DOMAIN q1 = 1 .. Len(q1)
    BY <2>2, <2>9, LenProperties
  <2> HIDE DEF p, q1, g
  <2> DEFINE g1 == Without(g, k, Len(q1))
  <2>12. Places(g1, q2, a, (K \ {p}) \ {g[k]})
    <3>1. K \ {p} \in SUBSET Nat
      BY <1>2
    <3> QED
      BY <2>8, <2>9, <2>11, <3>1, PlacesWithout
  <2>13. q2 \in Seq(FlagArgument)
    BY <2>9, <2>11, RemoveAtProperties
  <2>14. (K \ {p}) \ {g[k]} = K \ {p, p + 1}
    BY <2>10
  <2>15. w = parsed(a[p + 1], f)
    BY <2>1, <2>7
  <2>16. w # NotFound
    <3>1. p + 1 \in 1 .. n
      BY <1>1, <2>2, <2>4
    <3>2. a[p + 1] \in FlagArgument
      BY <3>1, ElementOfSeq DEF n
    <3>3. ParsingFailed # NotFound
      BY DEF ParsingFailed, NotFound
    <3>4. \A b \in DOMAIN Numeral : number(b) # NotFound
      BY <1>13, FlagParserAssumption
    <3>5. a[p + 1] # NotFound
      BY <1>13, <3>2, FlagParserAssumption
    <3>6. a[p + 1] \notin FlagErrors
      BY <3>2, FlagParserAssumption
    <3> HIDE DEF w
    <3> QED
      BY <2>15, <3>3, <3>4, <3>5, <3>6 DEF parsed
  <2> HIDE DEF c, w, q2, g1
  <2>17. r.rest = q2 /\ r.value = w
    BY <1>12, <1>16, <2>1, <2>16
  <2>18. Outcome(a, f, r.value, {p, p + 1})
    BY <1>7, <1>16, <2>4, <2>15, <2>17 DEF Outcome, n, p
  <2> QED
    BY <2>12, <2>13, <2>14, <2>17, <2>18 DEF r, K
<1> QED
  BY <1>10, <1>11, <1>14, <1>15, <1>16

\* Two places of one flag's names, none of them after a flag that takes it.
LEMMA TwoPlaces ==
  ASSUME NEW a, Len(a) \in Nat, ~Ambiguous(a), NEW f \in AllFlags, f.kind # "bool",
         NEW i \in NamedAt(a, f), NEW j \in NamedAt(a, f)
  PROVE  j # i + 1
<1> DEFINE n == Len(a)
<1> SUFFICES ASSUME j = i + 1
             PROVE  FALSE
  OBVIOUS
<1>1. n \in Nat /\ i \in 1 .. n /\ j \in 1 .. n /\ a[i] \in Names(f) /\ a[j] \in Names(f)
  BY DEF NamedAt
<1>2. Takes(a[i]) /\ IsName(a[i + 1])
  BY <1>1, TakesIsName
<1>3. i \in 1 .. n - 1
  <2> HIDE DEF n
  <2> QED
    BY <1>1
<1> QED
  BY <1>2, <1>3 DEF Ambiguous

\* If nothing is left, every flag's names stand in one place at most.
LEMMA OnceEach ==
  ASSUME NEW a, Len(a) \in Nat, ~Ambiguous(a), NEW T, NEW v,
         \A g \in AllFlags : Outcome(a, g, v[g], T[g]), LeftOf(a, T, AllFlags) = {},
         NEW f \in AllFlags, NEW i \in NamedAt(a, f), NEW j \in NamedAt(a, f)
  PROVE  i = j
<1> DEFINE n == Len(a)
<1>1. n \in Nat /\ i \in 1 .. n /\ j \in 1 .. n
  BY DEF NamedAt
<1> DEFINE D == AllFlags \ {f}
<1>2. i \in LeftOf(a, T, D) /\ j \in LeftOf(a, T, D)
  <2>1. D \in SUBSET AllFlags /\ f \notin D /\ \A g \in D : Outcome(a, g, v[g], T[g])
    OBVIOUS
  <2> HIDE DEF D
  <2> QED
    BY <2>1, NameIsLeft
<1>3. i \in T[f] /\ j \in T[f]
  BY <1>1, <1>2 DEF LeftOf
<1>4. Outcome(a, f, v[f], T[f])
  OBVIOUS
<1>5. PICK m \in NamedAt(a, f) : T[f] = {m} \/ (f.kind # "bool" /\ T[f] = {m, m + 1})
  BY <1>3, <1>4 DEF Outcome
<1>6. CASE T[f] = {m}
  BY <1>3, <1>6
<1>7. CASE f.kind # "bool" /\ T[f] = {m, m + 1}
  <2>1. m + 1 \notin NamedAt(a, f)
    BY <1>7, TwoPlaces
  <2> QED
    BY <1>3, <1>7, <2>1
<1> QED
  BY <1>5, <1>6, <1>7

\* The arguments read from the left: what does not follow a flag that takes it
\* begins something.
Begins(a, i) == i = 1 \/ ~Takes(a[i - 1])

GoodAfter(a, f, i) ==
  /\ i + 1 \in 1 .. Len(a)
  /\ f.kind = "number" => a[i + 1] \in DOMAIN Numeral

WellFormed(a) ==
  /\ \A i \in 1 .. Len(a) : Begins(a, i) => IsName(a[i])
  /\ \A f \in AllFlags : \A i, j \in NamedAt(a, f) : i = j
  /\ \A f \in Flag : f.mandatory => NamedAt(a, f) # {}
  /\ \A f \in Flag : f.kind # "bool" => \A i \in NamedAt(a, f) : GoodAfter(a, f, i)

\* No declaration gave an error and nothing is left.
NoError(a, v, T) ==
  /\ LeftOf(a, T, AllFlags) = {}
  /\ \A f \in Flag : v[f] \notin FlagErrors

LEMMA Errors ==
  /\ NotFound \in FlagErrors /\ Missing \in FlagErrors /\ ParsingFailed \in FlagErrors
  /\ "true" \notin FlagErrors /\ "false" \notin FlagErrors /\ "default" \notin FlagErrors
  /\ \A c \in FlagArgument : c \notin FlagErrors
  /\ \A c \in DOMAIN Numeral : number(c) \notin FlagErrors
<1>1. \A c \in DOMAIN Numeral : number(c) \notin FlagErrors
  BY FlagParserAssumption
<1>2. \A c \in FlagArgument : c \notin FlagErrors
  BY FlagParserAssumption
<1> QED
  BY <1>1, <1>2 DEF FlagErrors, NotFound, Missing, ParsingFailed

\* A value is no error exactly if it is good.
LEMMA GoodIsParsed ==
  ASSUME NEW c \in FlagArgument, NEW f \in Flag, f.kind # "bool"
  PROVE  parsed(c, f) \notin FlagErrors <=> (f.kind = "number" => c \in DOMAIN Numeral)
<1>1. f.kind \in {"number", "string"} /\ c \notin FlagErrors
  BY FlagParserAssumption
<1>2. CASE f.kind = "string"
  BY <1>1, <1>2 DEF parsed
<1>3. CASE f.kind = "number" /\ c \in DOMAIN Numeral
  <2>1. parsed(c, f) = number(c)
    BY <1>1, <1>3 DEF parsed
  <2> QED
    BY <1>3, <2>1, Errors
<1>4. CASE f.kind = "number" /\ c \notin DOMAIN Numeral
  <2>1. parsed(c, f) = ParsingFailed
    BY <1>1, <1>4 DEF parsed
  <2> QED
    BY <1>4, <2>1, Errors
<1> QED
  BY <1>1, <1>2, <1>3, <1>4

LEMMA NoErrorIsWellFormed ==
  ASSUME NEW a \in Seq(FlagArgument), ~Ambiguous(a), NEW T, NEW v,
         \A g \in AllFlags : Outcome(a, g, v[g], T[g]), NoError(a, v, T)
  PROVE  WellFormed(a)
<1> DEFINE n == Len(a)
<1>1. n \in Nat
  BY LenProperties
<1>2. \A f \in AllFlags : \A i, j \in NamedAt(a, f) : i = j
  BY <1>1, OnceEach DEF NoError
<1>3. \A f \in Flag : f \in AllFlags /\ Outcome(a, f, v[f], T[f]) /\ v[f] \notin FlagErrors
  BY DEF AllFlags, NoError
<1>4. ASSUME NEW f \in Flag, f.mandatory
      PROVE  NamedAt(a, f) # {}
  <2>1. f.kind # "bool"
    BY <1>4, FlagParserAssumption
  <2> QED
    BY <1>3, <1>4, <2>1, Errors DEF Outcome
<1>5. ASSUME NEW f \in Flag, f.kind # "bool", NEW i \in NamedAt(a, f)
      PROVE  GoodAfter(a, f, i)
  <2>1. i \in 1 .. n
    BY DEF NamedAt
  <2>2. i + 1 <= n /\ v[f] = parsed(a[i + 1], f)
    <3>1. PICK m \in NamedAt(a, f) : \/ m + 1 <= n /\ v[f] = parsed(a[m + 1], f)
                                     \/ v[f] = Missing
      BY <1>3, <1>5 DEF Outcome
    <3>2. m = i
      BY <1>2, <1>3
    <3> QED
      BY <1>3, <3>1, <3>2, Errors
  <2>3. i + 1 \in 1 .. n
    <3> HIDE DEF n
    <3> QED
      BY <1>1, <2>1, <2>2
  <2>4. a[i + 1] \in FlagArgument
    BY <2>3, ElementOfSeq
  <2> QED
    BY <1>3, <1>5, <2>2, <2>3, <2>4, GoodIsParsed DEF GoodAfter
<1>6. ASSUME NEW i \in 1 .. n, Begins(a, i)
      PROVE  IsName(a[i])
  <2>1. PICK g \in AllFlags : i \in T[g]
    BY DEF NoError, LeftOf
  <2>2. Outcome(a, g, v[g], T[g])
    OBVIOUS
  <2>3. PICK m \in NamedAt(a, g) : T[g] = {m} \/ (g.kind # "bool" /\ T[g] = {m, m + 1})
    BY <2>1, <2>2 DEF Outcome
  <2>4. m \in 1 .. n /\ a[m] \in Names(g)
    BY DEF NamedAt
  <2>5. CASE i = m
    BY <2>4, <2>5 DEF IsName
  <2>6. CASE g.kind # "bool" /\ i = m + 1
    <3>1. Takes(a[m])
      BY <2>4, <2>6, TakesIsName
    <3>2. i # 1 /\ i - 1 = m
      <4> HIDE DEF n
      <4> QED
        BY <1>1, <2>4, <2>6
    <3> QED
      BY <1>6, <3>1, <3>2 DEF Begins
  <2> QED
    BY <2>1, <2>3, <2>5, <2>6
<1> QED
  BY <1>2, <1>4, <1>5, <1>6 DEF WellFormed

LEMMA WellFormedOutcome ==
  ASSUME NEW a \in Seq(FlagArgument), WellFormed(a), NEW f \in AllFlags, NEW v, NEW t,
         Outcome(a, f, v, t), NEW i \in NamedAt(a, f)
  PROVE  \/ f.kind = "bool" /\ v = "true" /\ t = {i}
         \/ f.kind # "bool" /\ i + 1 <= Len(a) /\ v = parsed(a[i + 1], f) /\ t = {i, i + 1}
<1>1. PICK m \in NamedAt(a, f) :
        \/ f.kind = "bool" /\ v = "true" /\ t = {m}
        \/ f.kind # "bool" /\ m + 1 <= Len(a) /\ v = parsed(a[m + 1], f) /\ t = {m, m + 1}
        \/ f.kind # "bool" /\ m = Len(a) /\ v = Missing /\ t = {}
  BY DEF Outcome
<1>2. m = i
  BY DEF WellFormed
<1>3. f.kind # "bool" => i # Len(a)
  <2> SUFFICES ASSUME f.kind # "bool"
               PROVE  i # Len(a)
    OBVIOUS
  <2>1. f \in Flag
    BY KindsOfFlags
  <2>2. i + 1 \in 1 .. Len(a)
    BY <2>1 DEF WellFormed, GoodAfter
  <2> DEFINE n == Len(a)
  <2>3. n \in Nat /\ i + 1 \in 1 .. n /\ i \in 1 .. n
    BY <2>2, LenProperties DEF NamedAt
  <2> HIDE DEF n
  <2>4. i # n
    BY <2>3
  <2> QED
    BY <2>4 DEF n
<1> QED
  BY <1>1, <1>2, <1>3

LEMMA WellFormedIsNoError ==
  ASSUME NEW a \in Seq(FlagArgument), ~Ambiguous(a), NEW T, NEW v,
         \A g \in AllFlags : Outcome(a, g, v[g], T[g]), WellFormed(a)
  PROVE  NoError(a, v, T)
<1> DEFINE n == Len(a)
<1>1. n \in Nat
  BY LenProperties
<1>2. ASSUME NEW i \in 1 .. n
      PROVE  \E g \in AllFlags : i \in T[g]
  <2>1. CASE Begins(a, i)
    <3>1. PICK g \in AllFlags : a[i] \in Names(g)
      BY <2>1 DEF WellFormed, IsName
    <3>2. i \in NamedAt(a, g) /\ Outcome(a, g, v[g], T[g])
      BY <3>1 DEF NamedAt
    <3>3. T[g] = {i} \/ T[g] = {i, i + 1}
      BY <3>2, WellFormedOutcome
    <3> QED
      BY <3>3
  <2>2. CASE ~Begins(a, i)
    <3>1. i # 1 /\ Takes(a[i - 1])
      BY <2>2 DEF Begins
    <3>2. PICK g \in Flag : g.kind # "bool" /\ a[i - 1] \in Names(g)
      BY <3>1 DEF Takes
    <3>3. i - 1 \in 1 .. n /\ (i - 1) + 1 = i
      <4> HIDE DEF n
      <4> QED
        BY <1>1, <1>2, <3>1
    <3>4. i - 1 \in NamedAt(a, g) /\ g \in AllFlags
      BY <3>2, <3>3 DEF NamedAt, AllFlags
    <3>5. Outcome(a, g, v[g], T[g])
      BY <3>4
    <3>6. T[g] = {i - 1, (i - 1) + 1}
      BY <3>2, <3>4, <3>5, WellFormedOutcome
    <3> QED
      BY <3>3, <3>4, <3>6
  <2> QED
    BY <2>1, <2>2
<1>3. LeftOf(a, T, AllFlags) = {}
  BY <1>2 DEF LeftOf
<1>4. ASSUME NEW f \in Flag
      PROVE  v[f] \notin FlagErrors
  <2>1. f \in AllFlags /\ Outcome(a, f, v[f], T[f])
    BY DEF AllFlags
  <2>2. CASE NamedAt(a, f) = {}
    <3>1. ~f.mandatory
      BY <2>2 DEF WellFormed
    <3>2. v[f] = "false" \/ v[f] = "default"
      BY <2>1, <2>2, <3>1 DEF Outcome
    <3> QED
      BY <3>2, Errors
  <2>3. CASE NamedAt(a, f) # {}
    <3>1. PICK i \in NamedAt(a, f) : TRUE
      BY <2>3
    <3>2. \/ f.kind = "bool" /\ v[f] = "true"
          \/ f.kind # "bool" /\ v[f] = parsed(a[i + 1], f)
      BY <2>1, WellFormedOutcome
    <3>3. f.kind # "bool" => GoodAfter(a, f, i)
      BY DEF WellFormed
    <3>4. f.kind # "bool" => a[i + 1] \in FlagArgument
      BY <3>3, ElementOfSeq DEF GoodAfter
    <3> QED
      BY <3>2, <3>3, <3>4, Errors, GoodIsParsed DEF GoodAfter
  <2> QED
    BY <2>2, <2>3
<1> QED
  BY <1>3, <1>4 DEF NoError

\* NamePositions reads the arguments from the left as Begins says.
LEMMA NamePositionsBegin ==
  ASSUME Len(argv) \in Nat, ~Ambiguous(argv)
  PROVE  NamePositions = {i \in 1 .. Len(argv) : Begins(argv, i)}
<1> DEFINE n == Len(argv)
           Rec(s) == s = [i \in 0 .. n |-> IF i = 0 THEN TRUE
                                           ELSE ~(s[i - 1] /\ Takes(argv[i]))]
           start == CHOOSE s : Rec(s)
           b(i) == i = 0 \/ ~Takes(argv[i])
           w == [i \in 0 .. n |-> b(i)]
<1>1. n \in Nat
  OBVIOUS
<1>2. ASSUME NEW i \in 1 .. n, Takes(argv[i])
      PROVE  b(i - 1)
  <2> SUFFICES ASSUME i - 1 # 0, Takes(argv[i - 1])
               PROVE  FALSE
    OBVIOUS
  <2>1. i - 1 \in 1 .. n - 1 /\ (i - 1) + 1 = i
    <3> HIDE DEF n
    <3> QED
      BY <1>1, <1>2
  <2>2. IsName(argv[i])
    BY <1>2 DEF Takes, IsName, AllFlags
  <2> QED
    BY <2>1, <2>2 DEF Ambiguous
<1> HIDE DEF n
<1>3. Rec(w)
  <2>1. ASSUME NEW i \in 1 .. n
        PROVE  b(i) = ~(w[i - 1] /\ Takes(argv[i]))
    <3>1. i - 1 \in 0 .. n /\ i # 0
      BY <1>1
    <3>2. w[i - 1] = b(i - 1)
      BY <3>1
    <3> QED
      BY <1>2, <3>1, <3>2
  <2>2. ASSUME NEW i \in 0 .. n
        PROVE  b(i) = IF i = 0 THEN TRUE ELSE ~(w[i - 1] /\ Takes(argv[i]))
    <3>1. CASE i = 0
      BY <3>1
    <3>2. CASE i # 0
      <4>1. i \in 1 .. n
        BY <1>1, <3>2
      <4> QED
        BY <2>1, <3>2, <4>1
    <3> QED
      BY <3>1, <3>2
  <2> QED
    BY <2>2
<1>4. Rec(start)
  <2> HIDE DEF Rec, w
  <2> QED
    BY <1>3
<1>5. /\ start[0]
      /\ \A i \in 1 .. n : start[i] = ~(start[i - 1] /\ Takes(argv[i]))
  <2> HIDE DEF start
  <2>1. \A i \in 0 .. n : start[i] = IF i = 0 THEN TRUE ELSE ~(start[i - 1] /\ Takes(argv[i]))
    BY <1>4
  <2>2. 0 \in 0 .. n /\ \A i \in 1 .. n : i \in 0 .. n /\ i # 0
    BY <1>1
  <2> QED
    BY <2>1, <2>2
<1> HIDE DEF start
<1> DEFINE P == {i \in Nat : i <= n => (start[i] <=> b(i))}
<1>6. P = Nat
  <2>1. 0 \in P
    BY <1>5
  <2>2. ASSUME NEW i \in P
        PROVE  i + 1 \in P
    <3> SUFFICES ASSUME i + 1 <= n
                 PROVE  start[i + 1] <=> b(i + 1)
      OBVIOUS
    <3>1. i \in Nat /\ i <= n /\ i + 1 \in 1 .. n /\ (i + 1) - 1 = i
      BY <1>1
    <3>2. start[i] <=> b(i)
      BY <3>1
    <3>3. start[i + 1] = ~(start[i] /\ Takes(argv[i + 1]))
      BY <1>5, <3>1
    <3>4. Takes(argv[i + 1]) => b(i)
      BY <1>2, <3>1
    <3>5. i + 1 # 0
      BY <3>1
    <3> QED
      BY <3>2, <3>3, <3>4, <3>5
  <2>3. P \in SUBSET Nat
    OBVIOUS
  <2> HIDE DEF P
  <2> QED
    BY <2>1, <2>2, <2>3, Induction
<1>7. \A i \in 1 .. n : start[i - 1] <=> Begins(argv, i)
  <2> SUFFICES ASSUME NEW i \in 1 .. n
               PROVE  start[i - 1] <=> Begins(argv, i)
    OBVIOUS
  <2>1. i - 1 \in Nat /\ i - 1 <= n /\ (i - 1 = 0 <=> i = 1)
    BY <1>1
  <2>2. start[i - 1] <=> b(i - 1)
    BY <1>6, <2>1
  <2> QED
    BY <2>1, <2>2 DEF Begins
<1>8. NamePositions = {i \in 1 .. n : start[i - 1]}
  BY DEF NamePositions, start, n
<1> QED
  BY <1>7, <1>8 DEF n

\* What was parsed before, and v for f.
With(w, D, f, v) == [g \in D \cup {f} |-> IF g = f THEN v ELSE w[g]]

\* One more declaration.
LEMMA RemainingOn ==
  ASSUME NEW a \in Seq(FlagArgument), ~Ambiguous(a), NEW q \in Seq(FlagArgument),
         NEW D \in SUBSET AllFlags, NEW w, Remaining(a, q, w, D), NEW f \in AllFlags, f \notin D
  PROVE  LET r == declared(q, f)
         IN /\ r.rest \in Seq(FlagArgument)
            /\ Remaining(a, r.rest, With(w, D, f, r.value), D \cup {f})
<1> DEFINE r == declared(q, f)
           E == D \cup {f}
           u == With(w, D, f, r.value)
<1>1. PICK T, h : /\ \A g \in D : Outcome(a, g, w[g], T[g])
                  /\ Places(h, q, a, LeftOf(a, T, D))
  BY DEF Remaining
<1>2. /\ r.rest \in Seq(FlagArgument)
      /\ \E t, g : /\ Outcome(a, f, r.value, t)
                   /\ Places(g, r.rest, a, LeftOf(a, T, D) \ t)
  BY <1>1, Declared, Zenon
<1> HIDE DEF r
<1>3. PICK t, h2 : Outcome(a, f, r.value, t) /\ Places(h2, r.rest, a, LeftOf(a, T, D) \ t)
  BY <1>2
<1> DEFINE U == [g \in E |-> IF g = f THEN t ELSE T[g]]
<1>4. ASSUME NEW g \in E
      PROVE  Outcome(a, g, u[g], U[g])
  <2>1. CASE g = f
    <3>1. u[g] = r.value /\ U[g] = t
      BY <2>1 DEF With
    <3> QED
      BY <1>3, <2>1, <3>1
  <2>2. CASE g # f
    <3>1. g \in D /\ u[g] = w[g] /\ U[g] = T[g]
      BY <2>2 DEF With
    <3> QED
      BY <1>1, <3>1
  <2> QED
    BY <2>1, <2>2
<1>5. LeftOf(a, U, E) = LeftOf(a, T, D) \ t
  <2>1. U[f] = t /\ \A g \in D : U[g] = T[g] /\ g \in E
    OBVIOUS
  <2>2. f \in E /\ \A g \in E : g \in D \/ g = f
    OBVIOUS
  <2> HIDE DEF U, E
  <2> QED
    BY <2>1, <2>2 DEF LeftOf
<1> HIDE DEF U, u
<1>6. Remaining(a, r.rest, u, E)
  BY <1>3, <1>4, <1>5 DEF Remaining
<1> QED
  BY <1>2, <1>6 DEF r, u

\* Every flag of v that is there has its value.
Valued(a, v) ==
  \A f \in Flag : \A i \in NamedAt(a, f) :
    v[f] = IF f.kind = "bool" THEN "true" ELSE parsed(a[i + 1], f)

\* All declared: the program has no error exactly if its arguments are well formed,
\* and then every flag that is there has its value.
LEMMA AllDeclared ==
  ASSUME NEW a \in Seq(FlagArgument), ~Ambiguous(a), NEW q, Len(q) \in Nat, NEW w,
         Remaining(a, q, w, AllFlags)
  PROVE  /\ (Len(q) = 0 /\ \A f \in Flag : w[f] \notin FlagErrors) <=> WellFormed(a)
         /\ WellFormed(a) => Valued(a, w)
<1>1. PICK T, h : /\ \A g \in AllFlags : Outcome(a, g, w[g], T[g])
                  /\ Places(h, q, a, LeftOf(a, T, AllFlags))
  BY DEF Remaining
<1>2. Len(q) = 0 <=> LeftOf(a, T, AllFlags) = {}
  <2> DEFINE n == Len(q)
             K == LeftOf(a, T, AllFlags)
  <2>1. h \in [1 .. n -> K] /\ \A p \in K : \E i \in 1 .. n : h[i] = p
    BY <1>1 DEF Places
  <2>2. n \in Nat
    OBVIOUS
  <2> HIDE DEF n, K
  <2>3. n = 0 <=> K = {}
    <3>1. CASE n = 0
      <4>1. 1 .. n = {}
        BY <3>1
      <4> QED
        BY <2>1, <3>1, <4>1
    <3>2. CASE n # 0
      <4>1. 1 \in 1 .. n
        BY <2>2, <3>2
      <4> QED
        BY <2>1, <3>2, <4>1
    <3> QED
      BY <3>1, <3>2
  <2> QED
    BY <2>3 DEF n, K
<1>3. (Len(q) = 0 /\ \A f \in Flag : w[f] \notin FlagErrors) <=> NoError(a, w, T)
  BY <1>2 DEF NoError
<1>4. NoError(a, w, T) <=> WellFormed(a)
  BY <1>1, NoErrorIsWellFormed, WellFormedIsNoError
<1>5. ASSUME WellFormed(a), NEW f \in Flag, NEW i \in NamedAt(a, f)
      PROVE  w[f] = IF f.kind = "bool" THEN "true" ELSE parsed(a[i + 1], f)
  <2>1. f \in AllFlags /\ Outcome(a, f, w[f], T[f])
    BY <1>1 DEF AllFlags
  <2> QED
    BY <1>5, <2>1, WellFormedOutcome
<1> QED
  BY <1>3, <1>4, <1>5 DEF Valued

\* A set with no two members has at most one.
LEMMA AtMostOne ==
  ASSUME NEW n \in Nat, NEW S \in SUBSET (1 .. n)
  PROVE  Cardinality(S) <= 1 <=> \A i, j \in S : i = j
<1>1. IsFiniteSet(S)
  <2>1. IsFiniteSet(1 .. n)
    BY FS_Interval
  <2> QED
    BY <2>1, FS_Subset
<1>2. CASE \A i, j \in S : i = j
  <2>1. CASE S = {}
    BY <1>2, <2>1, FS_EmptySet
  <2>2. CASE S # {}
    <3>1. PICK i \in S : TRUE
      BY <2>2
    <3>2. S = {i}
      BY <1>2, <3>1
    <3>3. Cardinality(S) = 1
      BY <3>2, FS_Singleton
    <3> QED
      BY <1>2, <3>3
  <2> QED
    BY <2>1, <2>2
<1>3. ASSUME NEW i \in S, NEW j \in S, i # j
      PROVE  ~(Cardinality(S) <= 1)
  <2>1. IsFiniteSet({i, j}) /\ Cardinality({i, j}) = 2
    <3>1. IsFiniteSet({i}) /\ Cardinality({i}) = 1
      BY FS_Singleton
    <3>2. j \notin {i} /\ {i} \cup {j} = {i, j}
      BY <1>3
    <3>3. IsFiniteSet({i} \cup {j}) /\ Cardinality({i} \cup {j}) = Cardinality({i}) + 1
      BY <3>1, <3>2, FS_AddElement
    <3> QED
      BY <3>1, <3>2, <3>3
  <2>2. {i, j} \in SUBSET S
    OBVIOUS
  <2>3. Cardinality({i, j}) <= Cardinality(S) /\ Cardinality(S) \in Nat
    BY <1>1, <2>2, FS_Subset, FS_CardinalityType
  <2> QED
    BY <2>1, <2>3
<1> QED
  BY <1>2, <1>3

\* The program runs exactly if its arguments are well formed, with their values.
RunsWellFormed ==
  /\ stage # "error" <=> WellFormed(argv)
  /\ WellFormed(argv) => Valued(argv, m_parsedFlags)

\* While flags are declared, what is left is what those declared do not take.
FlagInv ==
  /\ argv \in Seq(FlagArgument) /\ m_arguments \in Seq(FlagArgument)
  /\ DOMAIN m_parsedFlags \in SUBSET Flag
  /\ stage = "none" => DOMAIN m_parsedFlags = {}
  /\ (stage = "declaring" /\ ~Ambiguous(argv)) =>
       Remaining(argv, m_arguments, m_parsedFlags, DOMAIN m_parsedFlags)
  /\ (stage \notin {"none", "declaring"} /\ ~Ambiguous(argv)) => RunsWellFormed

\* That is the run's property.
LEMMA FlagsGoal ==
  ASSUME argv \in Seq(FlagArgument),
         (stage \notin {"none", "declaring"} /\ ~Ambiguous(argv)) => RunsWellFormed
  PROVE  RunsIfWellFormed
<1> DEFINE at(f) == {i \in NamePositions : argv[i] \in Names(f)}
           n == Len(argv)
<1>1. n \in Nat /\ DOMAIN argv = 1 .. n
  BY LenProperties
<1> SUFFICES ASSUME stage \notin {"none", "declaring"}, ~Ambiguous(argv)
             PROVE  LET wellFormed ==
                          /\ \A i \in NamePositions : IsName(argv[i])
                          /\ \A f \in AllFlags : Cardinality(at(f)) <= 1
                          /\ \A f \in Flag :
                               /\ f.mandatory => at(f) # {}
                               /\ f.kind # "bool" => \A i \in at(f) : GoodValue(f, i)
                    IN /\ (stage # "error") <=> wellFormed
                       /\ (stage # "error") => \A f \in Flag : \A i \in at(f) :
                            m_parsedFlags[f] = IF f.kind = "bool" THEN "true"
                                               ELSE parsed(argv[i + 1], f)
  BY DEF RunsIfWellFormed, Ambiguous
<1>2. NamePositions = {i \in 1 .. n : Begins(argv, i)}
  BY <1>1, NamePositionsBegin
<1>3. ASSUME NEW f \in AllFlags
      PROVE  at(f) = NamedAt(argv, f)
  <2> SUFFICES ASSUME NEW i \in 1 .. n, argv[i] \in Names(f)
               PROVE  Begins(argv, i)
    BY <1>2 DEF NamedAt
  <2> SUFFICES ASSUME i # 1, Takes(argv[i - 1])
               PROVE  FALSE
    BY DEF Begins
  <2>1. i - 1 \in 1 .. n - 1 /\ (i - 1) + 1 = i
    <3> HIDE DEF n
    <3> QED
      BY <1>1
  <2>2. IsName(argv[i])
    BY DEF IsName
  <2> QED
    BY <2>1, <2>2 DEF Ambiguous
<1>4. \A f \in Flag : f \in AllFlags
  BY DEF AllFlags
<1>5. \A f, i : GoodValue(f, i) <=> GoodAfter(argv, f, i)
  BY <1>1 DEF GoodValue, GoodAfter
<1>6. \A f \in AllFlags : Cardinality(NamedAt(argv, f)) <= 1 <=>
                            \A i, j \in NamedAt(argv, f) : i = j
  <2> SUFFICES ASSUME NEW f \in AllFlags
               PROVE  Cardinality(NamedAt(argv, f)) <= 1 <=>
                        \A i, j \in NamedAt(argv, f) : i = j
    OBVIOUS
  <2>1. NamedAt(argv, f) \in SUBSET (1 .. n)
    BY DEF NamedAt
  <2> QED
    BY <1>1, <2>1, AtMostOne
<1>7. (\A i \in NamePositions : IsName(argv[i])) <=>
        \A i \in 1 .. n : Begins(argv, i) => IsName(argv[i])
  BY <1>2
<1> HIDE DEF at
<1>8. (\A f \in AllFlags : Cardinality(at(f)) <= 1) <=>
        \A f \in AllFlags : \A i, j \in NamedAt(argv, f) : i = j
  BY <1>3, <1>6
<1>9. (\A f \in Flag : /\ f.mandatory => at(f) # {}
                       /\ f.kind # "bool" => \A i \in at(f) : GoodValue(f, i)) <=>
        /\ \A f \in Flag : f.mandatory => NamedAt(argv, f) # {}
        /\ \A f \in Flag : f.kind # "bool" => \A i \in NamedAt(argv, f) : GoodAfter(argv, f, i)
  BY <1>3, <1>4, <1>5
<1>10. stage # "error" <=>
         /\ \A i \in NamePositions : IsName(argv[i])
         /\ \A f \in AllFlags : Cardinality(at(f)) <= 1
         /\ \A f \in Flag : /\ f.mandatory => at(f) # {}
                            /\ f.kind # "bool" => \A i \in at(f) : GoodValue(f, i)
  BY <1>7, <1>8, <1>9, Zenon DEF RunsWellFormed, WellFormed, n
<1>11. stage # "error" => \A f \in Flag : \A i \in at(f) :
         m_parsedFlags[f] = IF f.kind = "bool" THEN "true" ELSE parsed(argv[i + 1], f)
  BY <1>3, <1>4 DEF RunsWellFormed, Valued
<1> QED
  BY <1>10, <1>11, Zenon

LEMMA RestTyped ==
  ASSUME NEW q \in Seq(FlagArgument), NEW f
  PROVE  declared(q, f).rest \in Seq(FlagArgument)
<1> DEFINE n == Len(q)
           k == Spot(q, f)
<1>1. k \in 0 .. n /\ n \in Nat
  BY SpotFound, LenProperties
<1>2. declared(q, f).rest = IF f.kind = "bool" THEN popBoolArg(q, f).rest
                           ELSE popArgAfter(q, f).rest
  BY DEF declared
<1>3. k # 0 => RemoveAt(q, k) \in Seq(FlagArgument) /\ Len(RemoveAt(q, k)) = n - 1
  <2> SUFFICES ASSUME k # 0
               PROVE  RemoveAt(q, k) \in Seq(FlagArgument) /\ Len(RemoveAt(q, k)) = n - 1
    OBVIOUS
  <2>1. k \in 1 .. n
    <3> HIDE DEF n, k
    <3> QED
      BY <1>1
  <2> QED
    BY <2>1, RemoveAtProperties
<1>4. (k # 0 /\ k # n) => RemoveAt(RemoveAt(q, k), k) \in Seq(FlagArgument)
  <2> SUFFICES ASSUME k # 0, k # n
               PROVE  RemoveAt(RemoveAt(q, k), k) \in Seq(FlagArgument)
    OBVIOUS
  <2> DEFINE r == RemoveAt(q, k)
  <2>1. k \in 1 .. n - 1
    <3> HIDE DEF n, k
    <3> QED
      BY <1>1
  <2>2. r \in Seq(FlagArgument) /\ k \in 1 .. Len(r)
    BY <1>3, <2>1
  <2> HIDE DEF r
  <2>3. RemoveAt(r, k) \in Seq(FlagArgument)
    BY <2>2, RemoveAtProperties
  <2> QED
    BY <2>3 DEF r
<1>5. popBoolArg(q, f).rest = IF k = 0 THEN q ELSE RemoveAt(q, k)
  BY PoppedAt
<1>6. popArgAfter(q, f).rest = IF k = 0 \/ k = n THEN q ELSE RemoveAt(RemoveAt(q, k), k)
  BY PoppedAt
<1> HIDE DEF n, k
<1> QED
  BY <1>2, <1>3, <1>4, <1>5, <1>6

LEMMA FlagInit == InitFlags => FlagInv
<1> SUFFICES ASSUME InitFlags
             PROVE  FlagInv
  OBVIOUS
<1>1. argv \in Seq(FlagArgument) /\ m_arguments \in Seq(FlagArgument) /\ stage = "none"
  BY EmptySeq DEF InitFlags
<1>2. DOMAIN m_parsedFlags = {}
  BY DEF InitFlags
<1> QED
  BY <1>1, <1>2 DEF FlagInv

LEMMA FlagStart ==
  ASSUME FlagInv, NEW n \in 0 .. MaxArguments, NEW args \in [1 .. n -> FlagArgument], Start(args)
  PROVE  FlagInv'
<1>1. args \in Seq(FlagArgument)
  <2>1. n \in Nat
    BY FlagParserAssumption
  <2> QED
    BY <2>1, SeqDef
<1>2. argv' = args /\ m_arguments' = args /\ stage' = "declaring" /\ m_parsedFlags' = m_parsedFlags
  BY DEF Start
<1>3. DOMAIN m_parsedFlags = {}
  BY DEF FlagInv, Start
<1>4. Remaining(args, args, m_parsedFlags, {})
  <2> DEFINE N == Len(args)
             h == [i \in 1 .. N |-> i]
             K == LeftOf(args, <<>>, {})
  <2>1. K = 1 .. N /\ N \in Nat
    BY <1>1, LenProperties DEF LeftOf
  <2>2. h \in [1 .. N -> 1 .. N] /\ \A i \in 1 .. N : h[i] = i
    OBVIOUS
  <2> HIDE DEF h
  <2>3. Places(h, args, args, K)
    BY <2>1, <2>2 DEF Places
  <2> QED
    BY <2>3 DEF Remaining
<1> QED
  BY <1>1, <1>2, <1>3, <1>4 DEF FlagInv

LEMMA FlagDeclare ==
  ASSUME FlagInv, NEW f \in Flag, Declare(f)
  PROVE  FlagInv'
<1> DEFINE D == DOMAIN m_parsedFlags
           r == declared(m_arguments, f)
<1>1. /\ stage = "declaring" /\ f \notin D
      /\ m_parsedFlags' = With(m_parsedFlags, D, f, r.value)
      /\ m_arguments' = r.rest /\ argv' = argv /\ stage' = stage
  BY DEF Declare, With
<1>2. D \in SUBSET Flag /\ Flag \in SUBSET AllFlags /\ f \in AllFlags
  BY DEF FlagInv, AllFlags
<1>3. DOMAIN m_parsedFlags' = D \cup {f}
  BY <1>1 DEF With
<1>4. r.rest \in Seq(FlagArgument)
  BY RestTyped DEF FlagInv
<1>5. ~Ambiguous(argv) => Remaining(argv, r.rest, With(m_parsedFlags, D, f, r.value), D \cup {f})
  BY <1>1, <1>2, RemainingOn DEF FlagInv
<1> HIDE DEF r
<1> QED
  BY <1>1, <1>2, <1>3, <1>4, <1>5 DEF FlagInv

\* What finish does about help or version.
LEMMA OwnFlag ==
  ASSUME NEW q \in Seq(FlagArgument), NEW f \in {help, version}, NEW D \in SUBSET AllFlags,
         f \in Handled => f \notin D, NEW w, ~Ambiguous(argv), argv \in Seq(FlagArgument),
         Remaining(argv, q, w, D)
  PROVE  LET r == own(q, f)
         IN /\ r.rest \in Seq(FlagArgument)
            /\ D \cup ({f} \cap Handled) \in SUBSET AllFlags
            /\ Remaining(argv, r.rest, IF f \in Handled THEN With(w, D, f, r.value) ELSE w,
                         D \cup ({f} \cap Handled))
<1>1. f.kind = "bool"
  BY DEF help, version
<1>2. CASE f \in Handled
  <2>1. own(q, f) = declared(q, f) /\ f \in AllFlags /\ {f} \cap Handled = {f}
    BY <1>1, <1>2, Zenon DEF own, declared, AllFlags
  <2> QED
    BY <1>2, <2>1, RemainingOn
<1>3. CASE f \notin Handled
  <2>1. own(q, f).rest = q /\ {f} \cap Handled = {}
    BY <1>3 DEF own
  <2>2. D \cup ({f} \cap Handled) = D
    BY <2>1
  <2> QED
    BY <1>3, <2>1, <2>2
<1> QED
  BY <1>2, <1>3

LEMMA OwnTyped ==
  ASSUME NEW q \in Seq(FlagArgument), NEW f \in {help, version}
  PROVE  own(q, f).rest \in Seq(FlagArgument)
<1>1. f.kind = "bool"
  BY DEF help, version
<1>2. f \in Handled => own(q, f) = declared(q, f)
  BY <1>1, Zenon DEF own, declared
<1>3. f \notin Handled => own(q, f).rest = q
  BY DEF own
<1> QED
  BY <1>2, <1>3, RestTyped

LEMMA FlagFinish ==
  ASSUME FlagInv, Finish
  PROVE  FlagInv'
<1> DEFINE w == m_parsedFlags
           h == own(m_arguments, help)
           v == own(h.rest, version)
           D1 == Flag \cup ({help} \cap Handled)
           w1 == IF help \in Handled THEN With(w, Flag, help, h.value) ELSE w
           w2 == IF version \in Handled THEN With(w1, D1, version, v.value) ELSE w1
<1>1. /\ help \in Handled => help \notin Flag
      /\ version \in Handled => version \notin D1 /\ version \notin Flag
      /\ help # version /\ Flag \in SUBSET AllFlags
      /\ D1 \cup ({version} \cap Handled) = AllFlags
  <2>1. help.shortName # version.shortName
    BY DEF help, version
  <2> QED
    BY <2>1, FlagParserAssumption DEF AllFlags
<1>3. /\ stage = "declaring" /\ DOMAIN w = Flag
      /\ m_arguments' = v.rest /\ argv' = argv /\ m_parsedFlags' = w
      /\ stage' = IF hasErrors(v.rest) THEN "error"
                  ELSE IF h.value = "true" THEN "help"
                  ELSE IF v.value = "true" THEN "version"
                  ELSE "run"
  BY Zenon DEF Finish
<1>4. argv \in Seq(FlagArgument) /\ m_arguments \in Seq(FlagArgument)
  BY DEF FlagInv
<1>5. h.rest \in Seq(FlagArgument) /\ v.rest \in Seq(FlagArgument)
  BY <1>4, OwnTyped
<1> HIDE DEF w, h, v, D1
<1>6. stage' # "error" <=> ~hasErrors(v.rest)
  BY <1>3
<1>7. stage' \notin {"none", "declaring"}
  BY <1>3
<1>8. ~hasErrors(v.rest) <=> (Len(v.rest) = 0 /\ \A f \in Flag : w[f] \notin FlagErrors)
  <2>1. v.rest = <<>> <=> Len(v.rest) = 0
    BY <1>5, EmptySeq
  <2> QED
    BY <1>3, <2>1 DEF hasErrors, w
<1>9. ASSUME ~Ambiguous(argv)
      PROVE  /\ stage' # "error" <=> WellFormed(argv)
             /\ WellFormed(argv) => Valued(argv, w)
  <2>1. Remaining(argv, m_arguments, w, Flag)
    BY <1>3, <1>9 DEF FlagInv, w
  <2>2. Remaining(argv, h.rest, w1, D1) /\ D1 \in SUBSET AllFlags
    BY <1>1, <1>4, <1>9, <2>1, OwnFlag, Zenon DEF h, D1
  <2> HIDE DEF w1
  <2>3. Remaining(argv, v.rest, w2, D1 \cup ({version} \cap Handled))
    BY <1>1, <1>4, <1>5, <1>9, <2>2, OwnFlag, Zenon DEF v
  <2>4. Len(v.rest) \in Nat
    BY <1>5, LenProperties
  <2>5. \A f \in Flag : w2[f] = w[f]
    BY <1>1 DEF w1, With
  <2>6. Remaining(argv, v.rest, w2, AllFlags)
    BY <1>1, <2>3
  <2> HIDE DEF w2
  <2>7. /\ (Len(v.rest) = 0 /\ \A f \in Flag : w2[f] \notin FlagErrors) <=> WellFormed(argv)
        /\ WellFormed(argv) => Valued(argv, w2)
    BY ONLY <1>4, <1>9, <2>4, <2>6, AllDeclared
  <2> QED
    BY <1>6, <1>8, <2>5, <2>7 DEF Valued
<1>10. ~Ambiguous(argv') => RunsWellFormed'
  BY <1>3, <1>9 DEF w, RunsWellFormed
<1>11. DOMAIN m_parsedFlags' = Flag
  BY <1>3 DEF w
<1> QED
  BY <1>3, <1>4, <1>5, <1>7, <1>10, <1>11 DEF FlagInv

LEMMA FlagStep == FlagInv /\ [NextFlags]_flagVars => FlagInv'
<1> SUFFICES ASSUME FlagInv, [NextFlags]_flagVars
             PROVE  FlagInv'
  OBVIOUS
<1>1. CASE UNCHANGED flagVars
  BY <1>1 DEF FlagInv, flagVars, RunsWellFormed
<1>2. ASSUME NEW n \in 0 .. MaxArguments, NEW args \in [1 .. n -> FlagArgument], Start(args)
      PROVE  FlagInv'
  BY <1>2, FlagStart
<1>3. ASSUME NEW f \in Flag, Declare(f)
      PROVE  FlagInv'
  BY <1>3, FlagDeclare
<1>4. CASE Finish
  BY <1>4, FlagFinish
<1> QED
  BY <1>1, <1>2, <1>3, <1>4 DEF NextFlags

(***************************************************************************)
(* However the program orders its declarations, the parser lets it run     *)
(* exactly if its arguments are flags, once each, with the values they     *)
(* need, and the flags then have those values (flag and finish), unless a  *)
(* flag's name stands where a value is due.                                *)
(***************************************************************************)
THEOREM RunsOnlyWellFormed == SpecFlags => []RunsIfWellFormed
<1>1. FlagInv => RunsIfWellFormed
  BY FlagsGoal DEF FlagInv
<1> QED
  BY <1>1, FlagInit, FlagStep, PTL DEF SpecFlags
=============================================================================
