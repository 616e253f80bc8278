-------------------------------- MODULE Lists --------------------------------
(***************************************************************************)
(* What the lists of the code have in common.                              *)
(***************************************************************************)
EXTENDS Integers, Sequences

(***************************************************************************)
(* The loop that goes over a list and erases what is not in S: SelectSeq,  *)
(* as a function that proofs can expand.                                   *)
(***************************************************************************)
Select(s, S) ==
  LET kept[i \in 0 .. Len(s)] ==
        IF i = 0 THEN <<>>
        ELSE IF s[i] \in S THEN Append(kept[i - 1], s[i]) ELSE kept[i - 1]
  IN kept[Len(s)]
=============================================================================
