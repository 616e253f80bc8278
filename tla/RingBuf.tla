------------------------------ MODULE RingBuf ------------------------------
(***************************************************************************)
(* RingBuf<T, CAPACITY> of utility/ringbuf.h: the array, the two cursors,  *)
(* and the operations a socket performs on them.  One slot always stays    *)
(* empty, so that begin = end can only mean "empty".                       *)
(***************************************************************************)
EXTENDS Integers, Sequences

CONSTANTS CAPACITY,  \* the template parameter: slots of the array
          Elem,      \* the values stored
          None       \* std::nullopt

\* push_ability divides by CAPACITY and an empty buffer needs a slot.
ASSUME CapacityAssumption == CAPACITY \in Nat \ {0}

VARIABLES m_buf,    \* the array, indexed from 0
          m_begin,  \* the slot of the oldest element
          m_end,    \* the slot the next push fills
          result    \* what the last operation returned

vars == <<m_buf, m_begin, m_end, result>>

Slots == 0 .. CAPACITY - 1

\* Slip: no slot is left free to tell a full ring from an empty one.
push_ability_allSlots == (CAPACITY + m_begin - m_end) % CAPACITY

push_ability == (CAPACITY + m_begin - m_end - 1) % CAPACITY
len == CAPACITY - push_ability - 1
is_full == push_ability = 0
is_empty == m_begin = m_end

Returned(op, value) == [op |-> op, value |-> value]

Lesser(a, b) == IF a <= b THEN a ELSE b

(***************************************************************************)
(* The constructor leaves the array uninitialised: it holds anything.      *)
(***************************************************************************)
Init ==
  /\ m_buf \in [Slots -> Elem]
  /\ m_begin = 0
  /\ m_end = 0
  /\ result = Returned("init", None)

push(v) ==
  \/ /\ is_full
     /\ result' = Returned("push", FALSE)
     /\ UNCHANGED <<m_buf, m_begin, m_end>>
  \/ /\ ~is_full
     /\ m_buf' = [m_buf EXCEPT ![m_end] = v]
     /\ m_end' = (m_end + 1) % CAPACITY
     /\ result' = Returned("push", TRUE)
     /\ UNCHANGED m_begin

pop ==
  \/ /\ is_empty
     /\ result' = Returned("pop", None)
     /\ UNCHANGED <<m_buf, m_begin, m_end>>
  \/ /\ ~is_empty
     /\ result' = Returned("pop", m_buf[m_begin])
     /\ m_begin' = (m_begin + 1) % CAPACITY
     /\ UNCHANGED <<m_buf, m_end>>

top ==
  /\ result' = Returned("top", IF is_empty THEN None ELSE m_buf[m_begin])
  /\ UNCHANGED <<m_buf, m_begin, m_end>>

\* The copying loop walks fb from m_begin with the same wrap as pop.
peek(size) ==
  /\ result' = Returned("peek", [i \in 1 .. Lesser(size, len) |->
                                   m_buf[(m_begin + i - 1) % CAPACITY]])
  /\ UNCHANGED <<m_buf, m_begin, m_end>>

ask_len ==
  /\ result' = Returned("len", len)
  /\ UNCHANGED <<m_buf, m_begin, m_end>>

ask_push_ability ==
  /\ result' = Returned("push_ability", push_ability)
  /\ UNCHANGED <<m_buf, m_begin, m_end>>

\* A caller that peeks more than the capacity is answered as if it had
\* asked for the capacity, which bounds the sizes worth trying.
Next ==
  \/ \E v \in Elem : push(v)
  \/ pop
  \/ top
  \/ \E size \in 0 .. CAPACITY : peek(size)
  \/ ask_len
  \/ ask_push_ability

Spec == Init /\ [][Next]_vars

-----------------------------------------------------------------------------

(***************************************************************************)
(* Both cursors stay inside the array and the array keeps its type.        *)
(***************************************************************************)
TypeOK ==
  /\ m_buf \in [Slots -> Elem]
  /\ m_begin \in Slots
  /\ m_end \in Slots

(***************************************************************************)
(* The elements between the cursors, oldest first: the queue this array    *)
(* and these cursors stand for.                                            *)
(***************************************************************************)
Contents == [i \in 1 .. len |-> m_buf[(m_begin + i - 1) % CAPACITY]]

Queue == INSTANCE BoundedQueue WITH Bound <- CAPACITY - 1, items <- Contents

(***************************************************************************)
(* The ring buffer is a first-in first-out queue of CAPACITY - 1 elements: *)
(* wrapping the cursors loses, duplicates and reorders nothing, and push,  *)
(* pop, top, peek, len and push_ability answer what such a queue would.    *)
(***************************************************************************)
ImplementsQueue == Queue!Spec
=============================================================================
