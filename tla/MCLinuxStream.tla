--------------------------- MODULE MCLinuxStream ---------------------------
(* The bytes and the ring of MCMemStream.  Of SendRoom, two packages can   *)
(* take all or run out of it anywhere in the second one; the third finds   *)
(* room again when the reader was quick.                                   *)
EXTENDS LinuxStream

SmallPayloads == {<<>>, <<0, 1>>}
AnyPayloads == SmallPayloads \cup {<<1, 0, 1>>}

\* What the proofs about the stream assume.
ASSUME LinuxStreamTheoremApplies == LengthsFit
=============================================================================
