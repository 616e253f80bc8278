---------------------------- MODULE MCMemStream ----------------------------
(* Two-valued bytes and a two-byte length: payloads of up to three bytes.  *)
(* The ring holds five bytes, so a payload of two bytes fills it exactly   *)
(* and one of three never fits.                                            *)
EXTENDS MemStream

SmallPayloads == {<<>>, <<1>>, <<0, 1>>}
AnyPayloads == SmallPayloads \cup {<<1, 0, 1>>}

\* What the proofs about the stream assume.
ASSUME MemStreamTheoremApplies == LengthsFit
=============================================================================
