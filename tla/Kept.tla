-------------------------------- MODULE Kept --------------------------------
(***************************************************************************)
(* Array.prototype.filter with the set of the values kept.  SelectSeq of   *)
(* the standard library takes the test as an operator, which the provers   *)
(* cannot instantiate.                                                     *)
(***************************************************************************)
EXTENDS Naturals, Sequences

(* The elements of s that are in S, in their order. *)
Kept(s, S) ==
  LET kept[n \in 0..Len(s)] ==
        IF n = 0 THEN <<>>
        ELSE IF s[n] \in S THEN Append(kept[n - 1], s[n]) ELSE kept[n - 1]
  IN kept[Len(s)]
=============================================================================
