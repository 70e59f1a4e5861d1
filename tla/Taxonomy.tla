------------------------------ MODULE Taxonomy ------------------------------
(***************************************************************************)
(* TaxonomyService (apps/server/src/taxonomy/taxonomy.service.ts): the     *)
(* order of the categories, or of the tags, under concurrent requests.     *)
(* The two kinds have tables of their own and the same code.  What the     *)
(* removal of a category does to links is in the module Links.             *)
(*                                                                         *)
(* As there, an action is one statement at READ COMMITTED; a transaction   *)
(* whose last statement is its only write is one action with it.           *)
(***************************************************************************)
EXTENDS Integers, FiniteSets

CONSTANTS
  Item,      \* bound: the ids there will ever be
  Name,      \* normalized names
  Call,      \* concurrent requests
  Null       \* no row, no request

Row == [order : Nat, name : Name]

(* The two kinds of requests that take several statements: create(), and   *)
(* reorder() of the items in S.                                            *)
Creation == [op : {"create"}, order : Nat, name : Name]
Rearrangement(S) == [op : {"reorder"}, place : [S -> Nat], todo : SUBSET S]

ASSUME TaxonomyAssumption ==
  /\ IsFiniteSet(Item)
  /\ Null \notin Row \union Call
  /\ \A S \in SUBSET Item : Null \notin Rearrangement(S)

VARIABLES
  row,       \* committed: Item -> its sortOrder and name, or Null
  used,      \* ids that have been given out; a uuid never comes again
  holder,    \* Item -> the reorder() that has written its row, or Null
  draft,     \* Item -> the sortOrder that reorder() has written
  call,      \* Call -> what create() or reorder() has yet to do
  last       \* history: the places the last reorder() to commit asked for

vars == <<row, used, holder, draft, call, last>>

Made == {i \in Item : row[i] # Null}

(* assertCompleteOrder, 204-218: the ids of a request are the items there  *)
(* are, each once; place[i] is the index of i among them.                  *)
Places(S) ==
  {p \in [S -> 0..Cardinality(S) - 1] :
     /\ \A i, j \in S : p[i] = p[j] => i = j
     /\ \A k \in 0..Cardinality(S) - 1 : \E i \in S : p[i] = k}

(* The unique index on normalizedName.  ensureUnique (220-239) looks first *)
(* and refuses nothing that the index would accept.                        *)
Unused(n) == \A i \in Made : row[i].name # n

-----------------------------------------------------------------------------
(* The items with the greatest sortOrder; concurrent requests can make it *)
(* more than one.                                                          *)
Greatest == {i \in Made : \A j \in Made : row[j].order <= row[i].order}

(* (aggregate._max.sortOrder ?? -1) + 1, as a set of one number.  Mutant:  *)
(* without the + 1 for an empty table.                                     *)
NextOrderOrNull ==
  IF Made = {} THEN {-1} ELSE {row[i].order + 1 : i \in Greatest}
NextOrder ==
  IF Made = {} THEN {0} ELSE {row[i].order + 1 : i \in Greatest}

(* create(), 43-51: the aggregate has answered. *)
CreateRead(c) ==
  /\ call[c] = Null
  /\ \E n \in Name, k \in NextOrder :
       /\ Unused(n)
       /\ call' = [call EXCEPT ![c] = [op |-> "create", order |-> k, name |-> n]]
  /\ UNCHANGED <<row, used, holder, draft, last>>

(* create(), 52-60: the insert, with the maximum as it was. *)
CreateInsert(c) ==
  /\ call[c] # Null /\ call[c].op = "create"
  /\ Unused(call[c].name)
  /\ \E i \in Item \ used :
       /\ row' = [row EXCEPT ![i] = [order |-> call[c].order, name |-> call[c].name]]
       /\ used' = used \union {i}
  /\ call' = [call EXCEPT ![c] = Null]
  /\ UNCHANGED <<holder, draft, last>>

(* rename(), 133-158: ensureExists and ensureUnique only refuse what the   *)
(* update refuses as well.                                                 *)
Rename ==
  /\ \E i \in Made, n \in Name :
       /\ holder[i] = Null
       /\ Unused(n)
       /\ row' = [row EXCEPT ![i].name = n]
  /\ UNCHANGED <<used, holder, draft, call, last>>

(* remove(), 160-191: the deletion, which waits for a reorder() that has   *)
(* written the row.                                                        *)
Remove ==
  /\ \E i \in Made :
       /\ holder[i] = Null
       /\ row' = [row EXCEPT ![i] = Null]
  /\ UNCHANGED <<used, holder, draft, call, last>>

(* reorder(), 77-86: the ids are the ids there are. *)
ReorderRead(c) ==
  /\ call[c] = Null
  /\ \E p \in Places(Made) :
       call' = [call EXCEPT ![c] = [op |-> "reorder", place |-> p, todo |-> Made]]
  /\ UNCHANGED <<row, used, holder, draft, last>>

(* The updates are sent in the order of the ids. *)
First(r, i) == i \in r.todo /\ \A k \in r.todo : r.place[i] <= r.place[k]

Done(c, i) == call' = [call EXCEPT ![c].todo = @ \ {i}]

(* Mutant of ReorderUpdate: no transaction around the updates. *)
ReorderUpdateAlone(c) ==
  /\ call[c] # Null /\ call[c].op = "reorder"
  /\ \E i \in Made :
       /\ First(call[c], i)
       /\ holder[i] = Null
       /\ row' = [row EXCEPT ![i].order = call[c].place[i]]
       /\ Done(c, i)
  /\ UNCHANGED <<used, holder, draft, last>>

(* Mutant of ReorderUpdate: a row that is in its place is not updated. *)
ReorderUpdateMoved(c) ==
  /\ call[c] # Null /\ call[c].op = "reorder"
  /\ \E i \in Made :
       /\ First(call[c], i)
       /\ IF row[i].order = call[c].place[i]
            THEN UNCHANGED <<holder, draft>>
            ELSE /\ holder[i] = Null
                 /\ holder' = [holder EXCEPT ![i] = c]
                 /\ draft' = [draft EXCEPT ![i] = call[c].place[i]]
       /\ Done(c, i)
  /\ UNCHANGED <<row, used, last>>

(* reorder(), 87-94: the next update.  It waits for a reorder() that has   *)
(* written the row; a row that is gone fails it (ReorderAbort).            *)
ReorderUpdate(c) ==
  /\ call[c] # Null /\ call[c].op = "reorder"
  /\ \E i \in Made :
       /\ First(call[c], i)
       /\ holder[i] = Null
       /\ holder' = [holder EXCEPT ![i] = c]
       /\ draft' = [draft EXCEPT ![i] = call[c].place[i]]
       /\ Done(c, i)
  /\ UNCHANGED <<row, used, last>>

Release(c) ==
  /\ holder' = [i \in Item |-> IF holder[i] = c THEN Null ELSE holder[i]]
  /\ draft' = [i \in Item |-> IF holder[i] = c THEN 0 ELSE draft[i]]

(* reorder(), 95-104: all rows are updated and the transaction commits. *)
ReorderCommit(c) ==
  /\ call[c] # Null /\ call[c].op = "reorder"
  /\ call[c].todo = {}
  /\ row' = [i \in Item |-> IF holder[i] = c THEN [row[i] EXCEPT !.order = draft[i]]
                                             ELSE row[i]]
  /\ Release(c)
  /\ call' = [call EXCEPT ![c] = Null]
  /\ last' = call[c].place
  /\ UNCHANGED used

(* A request fails: a constraint, a row that is gone, a timeout, the       *)
(* connection, or a deadlock that PostgreSQL breaks.                       *)
Abort(c) ==
  /\ call[c] # Null
  /\ Release(c)
  /\ call' = [call EXCEPT ![c] = Null]
  /\ UNCHANGED <<row, used, last>>

-----------------------------------------------------------------------------
Init ==
  /\ row = [i \in Item |-> Null]
  /\ used = {}
  /\ holder = [i \in Item |-> Null]
  /\ draft = [i \in Item |-> 0]
  /\ call = [c \in Call |-> Null]
  /\ last = [i \in {} |-> 0]

Next ==
  \/ \E c \in Call : CreateRead(c) \/ CreateInsert(c) \/ ReorderRead(c)
                     \/ ReorderUpdate(c) \/ ReorderCommit(c) \/ Abort(c)
  \/ Rename \/ Remove

Spec == Init /\ [][Next]_vars

-----------------------------------------------------------------------------
TypeOK ==
  /\ row \in [Item -> Row \union {Null}]
  /\ used \subseteq Item
  /\ holder \in [Item -> Call \union {Null}]
  /\ draft \in [Item -> Nat]
  /\ DOMAIN call = Call
  /\ \A c \in Call : \/ call[c] \in Creation \union {Null}
                     \/ \E S \in SUBSET Item : call[c] \in Rearrangement(S)
  /\ \E S \in SUBSET Item : last \in [S -> Nat]

(* Concurrent calls of reorder() do not mix: every item the last one to    *)
(* commit named is where that call put it, although calls read the items   *)
(* before they lock them one by one, in different orders, while items are  *)
(* created, renamed and removed.                                           *)
LastReorderWins ==
  \A i \in Made \intersect DOMAIN last : row[i].order = last[i]

(* Readers see rearrangements whole, and never two items of one name. *)
Order == INSTANCE ItemOrder

RefinesItemOrder == Order!Spec
=============================================================================
