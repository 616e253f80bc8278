----------------------------- MODULE LinuxStream -----------------------------
(***************************************************************************)
(* Packages over one direction of a TCP connection between two LinuxSocket *)
(* objects (net/linux/socket.cpp), from LinuxNetworker's listen and connect*)
(* and LinuxServer's pullConnection on.  The kernel is external: it holds  *)
(* up to SendRoom bytes, hands them over in pieces, and may reset the      *)
(* connection.  Of the calls that fail only what they do is modelled: what *)
(* leaves everything as it was is no step.                                 *)
(***************************************************************************)
EXTENDS PackageStream, FiniteSets

CONSTANT SendRoom  \* bytes the kernel holds between write and read

ASSUME SendRoomAssumption == SendRoom \in Nat \ {0}

VARIABLES client,       \* the end that connects; the server's is the other
          listener,     \* the LinuxServer: "none", "listening" or "closed"
          connection,   \* "none", "pending" in the backlog, or "accepted"
          open,         \* the ends whose socket object exists
          m_isConnected,\* what each end believes
          net,          \* "up", or "reset" once the kernel gave up
          whole         \* history: packages pushed before the first short write

setupVars == <<client, listener, connection>>
connVars == <<setupVars, open, m_isConnected, net>>
vars == <<streamVars, connVars, whole>>

Ends == {"writer", "reader"}

Init ==
  /\ StreamInit
  /\ client \in Ends
  /\ listener = "none"
  /\ connection = "none"
  /\ open = {}
  /\ m_isConnected = [end \in Ends |-> TRUE]
  /\ net = "up"
  /\ whole = 0

\* The end has had a socket object and has none any more.
Ended(end) ==
  /\ end \notin open
  /\ connection # "none"
  /\ end # client => connection = "accepted"

-----------------------------------------------------------------------------
\* LinuxNetworker::listen: socket, bind and listen.
listen ==
  /\ listener = "none"
  /\ listener' = "listening"
  /\ UNCHANGED <<streamVars, client, connection, open, m_isConnected, net, whole>>

\* LinuxNetworker::connect: the kernel connects before the server accepts, so
\* the client may write at once.  It is refused where nobody listens.
connect ==
  /\ listener = "listening" /\ connection = "none"
  /\ connection' = "pending"
  /\ open' = {client}
  /\ UNCHANGED <<streamVars, client, listener, m_isConnected, net, whole>>

\* LinuxServer::pullConnection, null if none is pending; by then the client may
\* have written and closed.
pullConnection ==
  /\ listener = "listening" /\ connection = "pending" /\ net = "up"
  /\ connection' = "accepted"
  /\ open' = open \cup (Ends \ {client})
  /\ UNCHANGED <<streamVars, client, listener, m_isConnected, net, whole>>

\* ~LinuxServer: the kernel resets what nobody accepted.
closeServer ==
  /\ listener = "listening"
  /\ listener' = "closed"
  /\ IF connection = "pending" /\ net = "up"
       THEN net' = "reset" /\ wire' = <<>>
       ELSE UNCHANGED <<net, wire>>
  /\ UNCHANGED <<m_buf, pushed, pulled, client, connection, open, m_isConnected, whole>>

-----------------------------------------------------------------------------
Free == SendRoom - Len(wire)

\* A user only pushes to a socket that isConnected().
mayPush == "writer" \in open /\ m_isConnected["writer"]

\* write on a non-blocking socket: the kernel takes what it has room for.
Push(p) ==
  /\ mayPush /\ net = "up" /\ ~Ended("reader") /\ Free > 0
  /\ IF Len(Encode(p)) <= Free
       THEN /\ push(p, Len(Encode(p)))
            /\ whole' = IF whole = Len(pushed) THEN whole + 1 ELSE whole
       ELSE push(p, Free) /\ UNCHANGED whole
  /\ UNCHANGED connVars

\* The other end closed: the kernel takes the bytes, and the answer to them
\* resets the connection.
PushToClosed ==
  /\ mayPush /\ net = "up" /\ Ended("reader")
  /\ net' = "reset"
  /\ UNCHANGED <<streamVars, setupVars, open, m_isConnected, whole>>

\* write fails with ECONNRESET.
PushReset ==
  /\ mayPush /\ net = "reset"
  /\ m_isConnected' = [m_isConnected EXCEPT !["writer"] = FALSE]
  /\ UNCHANGED <<streamVars, setupVars, open, net, whole>>

\* write fails with another errno (EAGAIN when the kernel is full, EPIPE
\* after a reset): the exception is caught nowhere and ends the process.
PushThrows ==
  /\ mayPush
  /\ net = "reset" \/ (~Ended("reader") /\ Free = 0)
  /\ open' = open \ {"writer"}
  /\ UNCHANGED <<streamVars, setupVars, m_isConnected, net, whole>>

\* bufferize reads chunks until there is nothing to read or no room.  An
\* end of file reads zero bytes, exactly like "nothing yet".
Pull(k) ==
  /\ "reader" \in open /\ net = "up"
  /\ k <= Len(wire) /\ k <= Room
  /\ pull(k)
  /\ UNCHANGED <<connVars, whole>>

\* Slip: only write looks at ECONNRESET.
PullReset_unnoticed ==
  /\ "reader" \in open /\ net = "reset"
  /\ pull(0)
  /\ UNCHANGED <<connVars, whole>>

\* bufferize fails with ECONNRESET, or does not even try as long as the ring
\* is full; the ring is still served.
PullReset ==
  /\ "reader" \in open /\ net = "reset"
  /\ m_isConnected' = [m_isConnected EXCEPT !["reader"] = @ /\ Room = 0]
  /\ pull(0)
  /\ UNCHANGED <<setupVars, open, net, whole>>

\* The destructor closes the descriptor.
Close(end) ==
  /\ end \in open
  /\ open' = open \ {end}
  /\ UNCHANGED <<streamVars, setupVars, m_isConnected, net, whole>>

\* The kernel resets the connection and drops what it held.
Reset ==
  /\ net = "up" /\ connection # "none"
  /\ net' = "reset"
  /\ wire' = <<>>
  /\ UNCHANGED <<m_buf, pushed, pulled, setupVars, open, m_isConnected, whole>>

SomePull == (\E k \in 0 .. RingRoom : Pull(k)) \/ PullReset

Next ==
  \/ listen
  \/ connect
  \/ pullConnection
  \/ closeServer
  \/ \E p \in Package : Push(p)
  \/ PushToClosed
  \/ PushReset
  \/ PushThrows
  \/ SomePull
  \/ \E end \in Ends : Close(end)
  \/ Reset

(***************************************************************************)
(* The owner of the reading end calls sync at equal intervals              *)
(* (scheduleRepeated), sync pulls until nothing comes, and the kernel      *)
(* delivers in the end what it holds.                                      *)
(***************************************************************************)
Spec == Init /\ [][Next]_vars /\ WF_vars(SomePull)

-----------------------------------------------------------------------------

Up == net = "up" /\ \A end \in Ends : ~Ended(end)

\* The first n of s, or all of s when it has fewer.
First(s, n) == SubSeq(s, 1, IF n <= Len(s) THEN n ELSE Len(s))

(***************************************************************************)
(* What the stream promises ends with the first short write: that package  *)
(* is lost, and its head and what is pushed behind it are cut anyhow.      *)
(***************************************************************************)
Channel == INSTANCE PackageChannel WITH
  up <- Up /\ whole = Len(pushed),
  queue <- First(Frames(m_buf \o wire), whole - Len(pulled)),
  received <- First(pulled, whole),
  Package <- [type : Byte, payload : Payloads]

(***************************************************************************)
(* The connection implements the channel of whole packages, in whatever    *)
(* pieces the bytes arrive, whenever it is reset, and however long the     *)
(* server left it pending.  A write that the kernel takes in part, which   *)
(* nobody notices, takes the channel down like the end of a socket: every  *)
(* package before it still arrives.                                        *)
(***************************************************************************)
ImplementsChannel == Channel!Spec

(***************************************************************************)
(* The packages pushed before the first short write come out as they were  *)
(* pushed and in that order, whatever comes out behind them.               *)
(***************************************************************************)
WholeInOrder == \A i \in 1 .. whole : i <= Len(pulled) => pulled[i] = pushed[i]

(***************************************************************************)
(* A package that fits the ring, as do all before it, and that the kernel  *)
(* took whole, as it did all before it, is handed out in the end, whether  *)
(* or not the writer is still there, unless there is no reader or the      *)
(* reader knows that the connection is broken: bufferize can see that only *)
(* while its ring has room.                                                *)
(***************************************************************************)
DeliveredOrNoticed ==
  \A i \in 1 .. MaxPackages :
    (whole >= i /\ \A j \in 1 .. i : Fits(pushed[j]))
      ~> (Len(pulled) >= i \/ "reader" \notin open \/ ~m_isConnected["reader"])

=============================================================================
