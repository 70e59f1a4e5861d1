------------------------------ MODULE MCLinks ------------------------------
(***************************************************************************)
(* Instances of Links for TLC.                                             *)
(***************************************************************************)
EXTENDS Links, TLC

CONSTANTS h1, h2, m1, m2, m3

(* Message m1 has two hosts; m2 repeats one of them in the same second and *)
(* m3 a second later.                                                      *)
MCHostsOf == [m \in Message |-> IF m = m1 THEN {h1, h2} ELSE {h1}]
MCSentAt == [m \in Message |-> IF m = m3 THEN 1 ELSE 0]

NoDefaults == [category |-> Null, tags |-> FALSE]

(* Jobs without defaults, and with a category, with or without tags. *)
DefaultsComplete ==
  {NoDefaults} \union [category : Category, tags : BOOLEAN]

DefaultsNone == {NoDefaults}

(* Jobs with tags only. *)
DefaultsOfTags == {[category |-> Null, tags |-> TRUE]}

Patch(c, s, h) == [category |-> c, status |-> s, host |-> h]

(* Edits of the category, the status or both. *)
PatchesOfState ==
  {Patch(Null, Keep, Keep), Patch(Keep, "ORGANIZED", Keep), Patch(Keep, "PENDING", Keep)}
    \union {Patch(c, "ORGANIZED", Keep) : c \in Category}

(* Edits of the URL, and of something else. *)
PatchesOfUrl == {Patch(Keep, Keep, h) : h \in Host} \union {Patch(Keep, "PENDING", Keep)}

Rows == Permutations(Link) \union Permutations(Editor) \union Permutations(Category)
=============================================================================
