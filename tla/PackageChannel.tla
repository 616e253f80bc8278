--------------------------- MODULE PackageChannel ---------------------------
(***************************************************************************)
(* What package.h promises over one direction of a connection: packages    *)
(* arrive whole, in the order they were pushed, none twice and none out of *)
(* the middle.  When the connection goes down the youngest ones in flight  *)
(* may be lost, and nothing is pushed any more.                            *)
(***************************************************************************)
EXTENDS Naturals, Sequences

CONSTANT Package

VARIABLES up,       \* the connection still takes packages
          queue,    \* the packages in flight, oldest first
          received  \* the packages the reader was given, in order

vars == <<up, queue, received>>

Init == up = TRUE /\ queue = <<>> /\ received = <<>>

Send(p) ==
  /\ up
  /\ queue' = Append(queue, p)
  /\ UNCHANGED <<up, received>>

Receive ==
  /\ queue # <<>>
  /\ received' = Append(received, Head(queue))
  /\ queue' = Tail(queue)
  /\ UNCHANGED up

GoDown ==
  /\ up' = FALSE
  /\ \E n \in 0 .. Len(queue) : queue' = SubSeq(queue, 1, n)
  /\ UNCHANGED received

Next == (\E p \in Package : Send(p)) \/ Receive \/ GoDown

Spec == Init /\ [][Next]_vars
=============================================================================
