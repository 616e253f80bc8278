------------------------------ MODULE MemStream ------------------------------
(***************************************************************************)
(* Packages over one direction of a MemSocket pair (net/mem/socket.h): the *)
(* wire is a queue both sockets share, and a socket notices that the other *)
(* one is gone because it is the queue's last owner.                       *)
(***************************************************************************)
EXTENDS PackageStream

VARIABLE open  \* the ends whose socket object still exists

vars == <<streamVars, open>>

Ends == {"writer", "reader"}

\* Channel::inUse: the other end holds the queues too.
inUse == open = Ends

Init == StreamInit /\ open = Ends

\* write takes everything, or nothing once the other end is gone.
Push(p) ==
  /\ inUse
  /\ push(p, Len(Encode(p)))
  /\ UNCHANGED open

\* bufferize moves what fits into the ring, or nothing once the other end
\* is gone: what was still in the queue is then out of reach.
Pull ==
  /\ "reader" \in open
  /\ pull(IF inUse THEN IF Len(wire) <= Room THEN Len(wire) ELSE Room ELSE 0)
  /\ UNCHANGED open

\* The last owner of a socket lets go of it.
Close(end) ==
  /\ end \in open
  /\ open' = open \ {end}
  /\ UNCHANGED streamVars

Next ==
  \/ \E p \in Package : Push(p)
  \/ Pull
  \/ \E end \in Ends : Close(end)

Spec == Init /\ [][Next]_vars

-----------------------------------------------------------------------------

Channel == INSTANCE PackageChannel WITH
  up <- inUse,
  queue <- Frames(m_buf \o IF inUse THEN wire ELSE <<>>),
  received <- pulled,
  Package <- [type : Byte, payload : Payloads]

(***************************************************************************)
(* The stream of bytes implements the channel of whole packages: pushing   *)
(* adds one package at the end, pulling hands out the oldest one, moving   *)
(* bytes into the ring changes nothing, and a close loses a suffix.        *)
(***************************************************************************)
ImplementsChannel == Channel!Spec

=============================================================================
