--------------------------- MODULE BoundedQueue ---------------------------
(***************************************************************************)
(* What RingBuf (utility/ringbuf.h) promises to the sockets that own one:  *)
(* a first-in first-out queue that holds at most Bound elements.  Every    *)
(* operation leaves what it returned in "result", so that an               *)
(* implementation has to return the right things as well as to store them. *)
(***************************************************************************)
EXTENDS Integers, Sequences

CONSTANTS Bound,  \* how many elements fit
          Elem,   \* the elements
          None    \* std::nullopt

VARIABLES items,  \* the queued elements, oldest first
          result  \* what the last operation returned

vars == <<items, result>>

Lesser(a, b) == IF a <= b THEN a ELSE b

\* A returned value tagged with the operation that returned it.
Returned(op, value) == [op |-> op, value |-> value]

Init == items = <<>> /\ result = Returned("init", None)

Push(v) ==
  \/ /\ Len(items) < Bound
     /\ items' = Append(items, v)
     /\ result' = Returned("push", TRUE)
  \/ /\ Len(items) = Bound
     /\ result' = Returned("push", FALSE)
     /\ UNCHANGED items

Pop ==
  \/ /\ items # <<>>
     /\ items' = Tail(items)
     /\ result' = Returned("pop", Head(items))
  \/ /\ items = <<>>
     /\ result' = Returned("pop", None)
     /\ UNCHANGED items

Top ==
  /\ result' = Returned("top", IF items = <<>> THEN None ELSE Head(items))
  /\ UNCHANGED items

\* The oldest elements, at most n of them, left where they are.
Peek(n) ==
  /\ result' = Returned("peek", SubSeq(items, 1, Lesser(n, Len(items))))
  /\ UNCHANGED items

Length ==
  /\ result' = Returned("len", Len(items))
  /\ UNCHANGED items

Room ==
  /\ result' = Returned("push_ability", Bound - Len(items))
  /\ UNCHANGED items

\* Asking for more than Bound elements is answered like asking for Bound.
Next ==
  \/ \E v \in Elem : Push(v)
  \/ Pop
  \/ Top
  \/ \E n \in 0 .. Bound + 1 : Peek(n)
  \/ Length
  \/ Room

Spec == Init /\ [][Next]_vars
===========================================================================
