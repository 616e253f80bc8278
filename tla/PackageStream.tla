---------------------------- MODULE PackageStream ----------------------------
(***************************************************************************)
(* Package framing (utility/package.h) over one direction of a socket: a   *)
(* package is a big-endian length, a type and the payload, and the reader  *)
(* cuts the byte stream back into packages out of its ring buffer.  What   *)
(* the bytes travel through belongs to MemStream and LinuxStream.          *)
(*                                                                         *)
(* Bytes are scaled down: a byte has Base values and the length field has  *)
(* LenSize of them, so that payload bytes look like header bytes.          *)
(***************************************************************************)
EXTENDS Integers, Sequences, SequencesExt

CONSTANTS Base,        \* values of a byte (256)
          LenSize,     \* sizeof(PackageLen) (4); the type takes one byte here
          RingRoom,    \* bytes the reader's ring holds (CAPACITY - 1 = 4095)
          Payloads,    \* the payloads pushed
          MaxPackages  \* bound: packages pushed

ASSUME StreamAssumption ==
  /\ Base \in Nat \ {0, 1}
  /\ LenSize \in Nat \ {0}
  /\ RingRoom \in Nat
  /\ Payloads \subseteq Seq(0 .. Base - 1)

VARIABLES wire,    \* bytes written and not yet read
          m_buf,   \* the contents of the reader's RingBuf
          pushed,  \* history: the packages pushed
          pulled   \* history: the packages handed to readFn

streamVars == <<wire, m_buf, pushed, pulled>>

Byte == 0 .. Base - 1
Package == [type : Byte, payload : Payloads]

-----------------------------------------------------------------------------
(* Encoding *)

\* What is left of the number n without its last i bytes.
Shifted(n) ==
  LET left[i \in 0 .. LenSize] == IF i = 0 THEN n ELSE left[i - 1] \div Base
  IN left

\* WriteBuffer::write of a PackageLen: flipped to big endian, and the width
\* cuts a length that does not fit.
LenBytes(n) == [i \in 1 .. LenSize |-> Shifted(n)[LenSize - i] % Base]

\* ReadBuffer::readPrimitive of a PackageLen.
LenOf(bytes) ==
  LET value[i \in 0 .. LenSize] ==
        IF i = 0 THEN 0 ELSE value[i - 1] * Base + bytes[i]
  IN value[LenSize]

HeaderSize == LenSize + 1

Encode(p) == LenBytes(Len(p.payload)) \o <<p.type>> \o p.payload

\* packageSize of ReadPackage::pull, once the length can be peeked.
SizeOfFirst(bytes) == HeaderSize + LenOf(bytes)

\* Slip: more than the package has to be there.
HasWhole_strict(bytes) ==
  Len(bytes) >= LenSize /\ Len(bytes) > SizeOfFirst(bytes)

HasWhole(bytes) == Len(bytes) >= LenSize /\ Len(bytes) >= SizeOfFirst(bytes)

FirstOf(bytes) ==
  [type |-> bytes[HeaderSize],
   payload |-> SubSeq(bytes, HeaderSize + 1, SizeOfFirst(bytes))]

\* Slip: the header is taken for one byte shorter than it is.
DropFirst_short(bytes) == SubSeq(bytes, SizeOfFirst(bytes), Len(bytes))

DropFirst(bytes) == SubSeq(bytes, SizeOfFirst(bytes) + 1, Len(bytes))

-----------------------------------------------------------------------------

StreamInit == wire = <<>> /\ m_buf = <<>> /\ pushed = <<>> /\ pulled = <<>>

(***************************************************************************)
(* WritePackage::push when the device takes the first n bytes of the       *)
(* encoded package.  The number taken only feeds the statistics: what was  *)
(* not taken is never written again.                                       *)
(***************************************************************************)
push(p, n) ==
  /\ Len(pushed) < MaxPackages
  /\ wire' = wire \o SubSeq(Encode(p), 1, n)
  /\ pushed' = Append(pushed, p)
  /\ UNCHANGED <<m_buf, pulled>>

Room == RingRoom - Len(m_buf)

(***************************************************************************)
(* ReadPackage::pull when bufferize moves k bytes into the ring.           *)
(***************************************************************************)
pull(k) ==
  LET bytes == m_buf \o SubSeq(wire, 1, k) IN
  /\ wire' = SubSeq(wire, k + 1, Len(wire))
  /\ \/ /\ HasWhole(bytes)
        /\ pulled' = Append(pulled, FirstOf(bytes))
        /\ m_buf' = DropFirst(bytes)
     \/ /\ ~HasWhole(bytes)
        /\ m_buf' = bytes
        /\ UNCHANGED pulled
  /\ UNCHANGED pushed

-----------------------------------------------------------------------------
(* Properties shared by the streams *)

(***************************************************************************)
(* The packages a reader would cut out of these bytes, which are not more  *)
(* than the bytes.                                                         *)
(***************************************************************************)
Frames(bytes) ==
  LET frames[n \in 0 .. Len(bytes)] ==
        [b \in Seq(Byte) |->
           IF n > 0 /\ HasWhole(b)
             THEN <<FirstOf(b)>> \o frames[n - 1][DropFirst(b)] ELSE <<>>]
  IN frames[Len(bytes)][bytes]

\* The length fits its field: nothing is left of it after LenSize bytes.
LengthFits(n) == Shifted(n)[LenSize] = 0

LengthsFit == \A payload \in Payloads : LengthFits(Len(payload))

\* The ring can hold the whole package.
Fits(p) == HeaderSize + Len(p.payload) <= RingRoom

(***************************************************************************)
(* What is handed out is what was pushed, in the same order: the reader    *)
(* never takes payload bytes for a header or joins two packages.           *)
(***************************************************************************)
InOrder == IsPrefix(pulled, pushed)
=============================================================================
