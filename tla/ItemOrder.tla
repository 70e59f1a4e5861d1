----------------------------- MODULE ItemOrder -----------------------------
(***************************************************************************)
(* What the pages that list categories or tags may rely on: a reader sees  *)
(* items come and go, change their names, and change their places all at   *)
(* once; it never sees half of a rearrangement, or two items of one name.  *)
(***************************************************************************)
EXTENDS Integers

CONSTANTS Item, Name, Null

VARIABLE row      \* Item -> its sortOrder and name, Null if it is not there

Made == {i \in Item : row[i] # Null}

Unused(n) == \A i \in Made : row[i].name # n

Init == row = [i \in Item |-> Null]

Add(i, n) ==
  /\ row[i] = Null
  /\ Unused(n)
  /\ row'[i] \in [order : Nat, name : {n}]
  /\ row' = [row EXCEPT ![i] = row'[i]]

Rename(i, n) ==
  /\ row[i] # Null
  /\ Unused(n)
  /\ row' = [row EXCEPT ![i].name = n]

Remove(i) ==
  /\ row[i] # Null
  /\ row' = [row EXCEPT ![i] = Null]

(* The items of S are numbered anew, from zero and without a hole. *)
Arrange(S) ==
  /\ row' = [i \in Item |-> IF i \in S THEN [row[i] EXCEPT !.order = row'[i].order]
                                       ELSE row[i]]
  /\ \A i, j \in S : row'[i].order = row'[j].order => i = j
  /\ \A i \in S : \A k \in 0..row'[i].order : \E j \in S : row'[j].order = k

Next ==
  \/ \E i \in Item, n \in Name : Add(i, n) \/ Rename(i, n)
  \/ \E i \in Item : Remove(i)
  \/ \E S \in SUBSET Made : Arrange(S)

Spec == Init /\ [][Next]_row
=============================================================================
