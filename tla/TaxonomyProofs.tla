--------------------------- MODULE TaxonomyProofs ---------------------------
(***************************************************************************)
(* Theorems about Taxonomy, for every value of its constants.              *)
(***************************************************************************)
EXTENDS Taxonomy, FiniteSetTheorems, TLAPS

Reordering(c) == call[c] # Null /\ call[c].op = "reorder"

(* The items a reorder() names, and those it has written. *)
Named(c)   == DOMAIN call[c].place
Written(c) == Named(c) \ call[c].todo

(* Ids are given out once. *)
OnceUsed ==
  /\ Made \subseteq used
  /\ DOMAIN last \subseteq used

(* What a reorder() holds is what it has written, and nobody else can      *)
(* have touched it since.                                                  *)
HoldsWritten ==
  \A c \in Call : Reordering(c) =>
    /\ call[c].place \in Places(Named(c))
    /\ \A i \in Written(c) :
         i \in Made /\ holder[i] = c /\ draft[i] = call[c].place[i]

(* Only a reorder() holds rows. *)
HeldIsWritten ==
  \A i \in Item : holder[i] # Null =>
    Reordering(holder[i]) /\ i \in Written(holder[i])

TaxonomyInv ==
  TypeOK /\ OnceUsed /\ HoldsWritten /\ HeldIsWritten /\ LastReorderWins

-----------------------------------------------------------------------------
(* The two forms of a request, told apart by op. *)
LEMMA CallForms ==
  ASSUME TypeOK, NEW c \in Call
  PROVE  /\ Reordering(c) =>
              /\ Named(c) \subseteq Item
              /\ call[c] = [op |-> "reorder", place |-> call[c].place,
                            todo |-> call[c].todo]
              /\ call[c].place \in [Named(c) -> Nat]
              /\ call[c].todo \subseteq Named(c)
         /\ call[c] # Null /\ call[c].op = "create" => call[c] \in Creation
BY DEF TypeOK, Reordering, Named, Creation, Rearrangement

(* The database is empty. *)
LEMMA InitTaxonomy == Init => TaxonomyInv
<1> SUFFICES ASSUME Init PROVE TaxonomyInv
  OBVIOUS
<1>1. Made = {}
  BY DEF Init, Made
<1>2. DOMAIN last = {} /\ last \in [{} -> Nat]
  BY DEF Init
<1>3. TypeOK
  BY <1>2 DEF Init, TypeOK
<1>4. \A c \in Call : ~Reordering(c)
  BY DEF Init, Reordering
<1>5. OnceUsed /\ HoldsWritten /\ HeldIsWritten /\ LastReorderWins
  BY <1>1, <1>2, <1>4
     DEF Init, OnceUsed, HoldsWritten, HeldIsWritten, LastReorderWins
<1> QED
  BY <1>3, <1>5 DEF TaxonomyInv

-----------------------------------------------------------------------------
(* create() inserts a row that nobody has named. *)
LEMMA CreateStep ==
  ASSUME TaxonomyInv, NEW c \in Call, CreateRead(c) \/ CreateInsert(c)
  PROVE  TaxonomyInv'
<1> USE DEF TaxonomyInv
<1>1. CASE CreateRead(c)
  <2>1. PICK n \in Name, k \in NextOrder :
          call' = [call EXCEPT ![c] = [op |-> "create", order |-> k, name |-> n]]
    BY <1>1 DEF CreateRead
  <2>2. k \in Nat
    BY TaxonomyAssumption DEF NextOrder, Greatest, Made, TypeOK, Row
  <2>3. call'[c] \in Creation /\ \A d \in Call \ {c} : call'[d] = call[d]
    BY <2>1, <2>2 DEF TypeOK, Creation
  <2>4. UNCHANGED <<row, used, holder, draft, last>> /\ ~Reordering(c)
    BY <1>1 DEF CreateRead, Reordering
  <2>5. ~Reordering(c)' /\ \A d \in Call \ {c} : Reordering(d)' <=> Reordering(d)
    BY <2>3 DEF Reordering, Creation
  <2>6. TypeOK'
    BY <2>1, <2>3, <2>4 DEF TypeOK
  <2>7. OnceUsed' /\ LastReorderWins'
    BY <2>4 DEF OnceUsed, LastReorderWins, Made
  <2>8. HoldsWritten'
    BY <2>3, <2>4, <2>5 DEF HoldsWritten, Written, Named, Made
  <2>9. HeldIsWritten'
    BY <2>3, <2>4, <2>5, TaxonomyAssumption DEF HeldIsWritten, Written, Named, TypeOK
  <2> QED
    BY <2>6, <2>7, <2>8, <2>9
<1>2. CASE CreateInsert(c)
  <2>1. PICK i \in Item \ used :
          /\ row' = [row EXCEPT ![i] = [order |-> call[c].order, name |-> call[c].name]]
          /\ used' = used \union {i}
    BY <1>2 DEF CreateInsert
  <2>2. call[c] \in Creation /\ call' = [call EXCEPT ![c] = Null]
    BY <1>2, CallForms DEF CreateInsert
  <2>3. row'[i] \in Row /\ row'[i] # Null /\ \A j \in Item \ {i} : row'[j] = row[j]
    BY <2>1, <2>2, TaxonomyAssumption DEF TypeOK, Creation, Row
  <2>4. Made' = Made \union {i}
    BY <2>3 DEF Made
  <2>5. UNCHANGED <<holder, draft, last>> /\ ~Reordering(c)
    BY <1>2 DEF CreateInsert, Reordering
  <2>6. ~Reordering(c)' /\ \A d \in Call \ {c} : call'[d] = call[d]
                                                 /\ (Reordering(d)' <=> Reordering(d))
    BY <2>2 DEF Reordering, TypeOK
  <2>7. TypeOK'
    BY <2>1, <2>2, <2>3, <2>5, <2>6 DEF TypeOK
  <2>8. OnceUsed'
    BY <2>1, <2>4, <2>5 DEF OnceUsed
  <2>9. LastReorderWins'
    BY <2>3, <2>4, <2>5 DEF LastReorderWins, OnceUsed, Made
  <2>10. HoldsWritten'
    BY <2>4, <2>5, <2>6 DEF HoldsWritten, Written, Named
  <2>11. HeldIsWritten'
    BY <2>5, <2>6, TaxonomyAssumption DEF HeldIsWritten, Written, Named, TypeOK
  <2> QED
    BY <2>7, <2>8, <2>9, <2>10, <2>11
<1> QED
  BY <1>1, <1>2

(* rename() and remove() write rows that no reorder() has written. *)
LEMMA RenameStep == ASSUME TaxonomyInv, Rename PROVE TaxonomyInv'
<1> USE DEF TaxonomyInv
<1>1. PICK i \in Made, n \in Name : row' = [row EXCEPT ![i].name = n]
  BY DEF Rename
<1>2. row'[i] \in Row /\ row'[i] # Null /\ row'[i].order = row[i].order
  BY <1>1, TaxonomyAssumption DEF TypeOK, Made, Row
<1>3. \A j \in Item \ {i} : row'[j] = row[j]
  BY <1>1 DEF TypeOK
<1>4. UNCHANGED <<used, holder, draft, call, last>>
  BY DEF Rename
<1>5. Made' = Made
  BY <1>2, <1>3 DEF Made
<1>6. TypeOK'
  BY <1>1, <1>2, <1>4 DEF TypeOK, Made
<1>7. OnceUsed' /\ LastReorderWins'
  BY <1>2, <1>3, <1>4, <1>5 DEF OnceUsed, LastReorderWins, Made
<1>8. HoldsWritten' /\ HeldIsWritten'
  BY <1>4, <1>5 DEF HoldsWritten, HeldIsWritten, Reordering, Written, Named
<1> QED
  BY <1>6, <1>7, <1>8

(* remove() takes a row away and keeps its id used. *)
LEMMA RemoveStep == ASSUME TaxonomyInv, Remove PROVE TaxonomyInv'
<1> USE DEF TaxonomyInv
<1>1. PICK i \in Made : holder[i] = Null /\ row' = [row EXCEPT ![i] = Null]
  BY DEF Remove
<1>2. \A j \in Item \ {i} : row'[j] = row[j]
  BY <1>1 DEF TypeOK
<1>3. UNCHANGED <<used, holder, draft, call, last>>
  BY DEF Remove
<1>4. Made' = Made \ {i}
  BY <1>1, <1>2 DEF Made, TypeOK
<1>5. TypeOK'
  BY <1>1, <1>3 DEF TypeOK
<1>6. OnceUsed' /\ LastReorderWins'
  BY <1>2, <1>3, <1>4 DEF OnceUsed, LastReorderWins, Made
<1>7. HoldsWritten'
  <2> SUFFICES ASSUME NEW c \in Call, Reordering(c), NEW j \in Written(c)
               PROVE  j \in Made' /\ holder[j] = c /\ draft[j] = call[c].place[j]
    BY <1>3 DEF HoldsWritten, Reordering, Written, Named
  <2>1. j \in Made /\ holder[j] = c /\ draft[j] = call[c].place[j]
    BY DEF HoldsWritten
  <2> QED
    BY <2>1, <1>1, <1>4, TaxonomyAssumption
<1>8. HeldIsWritten'
  BY <1>3 DEF HeldIsWritten, Reordering, Written, Named
<1> QED
  BY <1>5, <1>6, <1>7, <1>8

-----------------------------------------------------------------------------
(* A request's places are a function on the items it names. *)
LEMMA PlacesTyped ==
  ASSUME NEW S, NEW p \in Places(S)
  PROVE  p \in [S -> Nat] /\ DOMAIN p = S
BY DEF Places

(* reorder(), from its look at the items to its end. *)
LEMMA ReorderStep ==
  ASSUME TaxonomyInv, NEW c \in Call,
         ReorderRead(c) \/ ReorderUpdate(c) \/ ReorderCommit(c) \/ Abort(c)
  PROVE  TaxonomyInv'
<1> USE DEF TaxonomyInv
<1>1. CASE ReorderRead(c)
  <2>1. PICK p \in Places(Made) :
          call' = [call EXCEPT ![c] = [op |-> "reorder", place |-> p, todo |-> Made]]
    BY <1>1 DEF ReorderRead
  <2>2. p \in [Made -> Nat] /\ DOMAIN p = Made /\ Made \in SUBSET Item
    BY PlacesTyped DEF Made
  <2>3. call'[c] = [op |-> "reorder", place |-> p, todo |-> Made]
    BY <2>1 DEF TypeOK
  <2>4. call'[c] \in Rearrangement(Made)
    BY <2>2, <2>3 DEF Rearrangement
  <2>5. Named(c)' = Made /\ Written(c)' = {}
    BY <2>2, <2>3 DEF Written, Named
  <2>6. UNCHANGED <<row, used, holder, draft, last>> /\ ~Reordering(c)
    BY <1>1 DEF ReorderRead, Reordering
  <2>7. \A d \in Call \ {c} : call'[d] = call[d]
    BY <2>1 DEF TypeOK
  <2>8. TypeOK'
    BY <2>1, <2>2, <2>4, <2>6, <2>7 DEF TypeOK
  <2>9. OnceUsed' /\ LastReorderWins'
    BY <2>6 DEF OnceUsed, LastReorderWins, Made
  <2>10. HoldsWritten'
    BY <2>3, <2>5, <2>6, <2>7 DEF HoldsWritten, Reordering, Written, Named, Made
  <2>11. HeldIsWritten'
    BY <2>6, <2>7, TaxonomyAssumption
       DEF HeldIsWritten, Reordering, Written, Named, TypeOK
  <2> QED
    BY <2>8, <2>9, <2>10, <2>11
<1>2. CASE ReorderUpdate(c)
  <2>1. PICK i \in Made :
          /\ First(call[c], i)
          /\ holder[i] = Null
          /\ holder' = [holder EXCEPT ![i] = c]
          /\ draft' = [draft EXCEPT ![i] = call[c].place[i]]
          /\ Done(c, i)
    BY <1>2 DEF ReorderUpdate
  <2>2. Reordering(c) /\ UNCHANGED <<row, used, last>> /\ Made' = Made
    BY <1>2 DEF ReorderUpdate, Reordering, Made
  <2>3. i \in call[c].todo /\ i \in Item /\ i \in Named(c)
    BY <2>1, <2>2, CallForms DEF First, Made
  <2>4. /\ call'[c] = [op |-> "reorder", place |-> call[c].place,
                       todo |-> call[c].todo \ {i}]
        /\ \A d \in Call \ {c} : call'[d] = call[d]
    <3>1. call[c] = [op |-> "reorder", place |-> call[c].place, todo |-> call[c].todo]
      BY <2>2, CallForms
    <3>2. call'[c] = [call[c] EXCEPT !.todo = call[c].todo \ {i}]
      BY <2>1 DEF Done, TypeOK
    <3>3. \A d \in Call \ {c} : call'[d] = call[d]
      BY <2>1 DEF Done, TypeOK
    <3> QED
      BY <3>1, <3>2, <3>3
  <2>5. Reordering(c)' /\ Named(c)' = Named(c) /\ Written(c)' = Written(c) \union {i}
    <3>1. /\ Named(c) \in SUBSET Item
          /\ call'[c] \in Rearrangement(Named(c))
      <4>1. /\ Named(c) \subseteq Item /\ call[c].todo \subseteq Named(c)
            /\ call[c].place \in [Named(c) -> Nat]
        BY <2>2, CallForms
      <4> QED
        BY <4>1, <2>4 DEF Rearrangement
    <3>2. call'[c] # Null
      BY <3>1, TaxonomyAssumption
    <3>3. Named(c)' = Named(c) /\ Written(c)' = Named(c) \ (call[c].todo \ {i})
      BY <2>4 DEF Named, Written
    <3>4. Named(c) \ (call[c].todo \ {i}) = Written(c) \union {i}
      BY <2>3 DEF Written
    <3>5. Reordering(c)'
      BY <2>4, <3>2 DEF Reordering
    <3> QED
      BY <3>3, <3>4, <3>5
  <2>6. /\ holder'[i] = c /\ draft'[i] = call[c].place[i]
        /\ \A k \in Item \ {i} : holder'[k] = holder[k] /\ draft'[k] = draft[k]
    BY <2>1, <2>3 DEF TypeOK
  <2>7. TypeOK'
    <3>1. call[c].place \in [Named(c) -> Nat] /\ Named(c) \in SUBSET Item
          /\ call[c].todo \subseteq Named(c)
      BY <2>2, CallForms
    <3>2. call'[c] \in Rearrangement(Named(c))
      BY <2>4, <3>1 DEF Rearrangement
    <3>3. call[c].place[i] \in Nat
      BY <2>3, <3>1
    <3>4. DOMAIN call' = Call
      BY <2>1 DEF Done, TypeOK
    <3>5. holder' \in [Item -> Call \union {Null}] /\ draft' \in [Item -> Nat]
      BY <2>1, <3>3 DEF TypeOK
    <3> QED
      BY <2>2, <2>4, <3>1, <3>2, <3>4, <3>5 DEF TypeOK
  <2>8. OnceUsed' /\ LastReorderWins'
    BY <2>2 DEF OnceUsed, LastReorderWins
  <2>9. HoldsWritten'
    <3> SUFFICES ASSUME NEW d \in Call, Reordering(d)'
                 PROVE  /\ call'[d].place \in Places(Named(d)')
                        /\ \A k \in Written(d)' : k \in Made' /\ holder'[k] = d
                             /\ draft'[k] = call'[d].place[k]
      BY DEF HoldsWritten
    <3>1. CASE d = c
      <4>1. call'[c].place = call[c].place
        BY <2>4
      <4>2. ASSUME NEW k \in Written(c)
            PROVE  k \in Made /\ holder[k] = c /\ draft[k] = call[c].place[k]
                   /\ k \in Item \ {i}
        BY <2>2, <2>3 DEF HoldsWritten, Written, Made
      <4> QED
        BY <3>1, <2>1, <2>2, <2>5, <2>6, <4>1, <4>2 DEF HoldsWritten
    <3>2. CASE d # c
      <4>1. call'[d] = call[d] /\ Reordering(d) /\ Named(d)' = Named(d)
            /\ Written(d)' = Written(d)
        BY <3>2, <2>4 DEF Reordering, Named, Written
      <4>2. ASSUME NEW k \in Written(d)
            PROVE  k \in Made /\ holder[k] = d /\ draft[k] = call[d].place[k]
                   /\ k \in Item \ {i}
        BY <4>1, <2>1, TaxonomyAssumption DEF HoldsWritten, Made
      <4> QED
        BY <4>1, <4>2, <2>2, <2>6 DEF HoldsWritten
    <3> QED
      BY <3>1, <3>2
  <2>10. HeldIsWritten'
    <3>1. ASSUME NEW k \in Item \ {i}, holder[k] # Null
          PROVE  LET d == holder[k] IN
                 /\ d \in Call /\ call'[d].op = "reorder" /\ call'[d] # Null
                 /\ k \in DOMAIN call'[d].place \ call'[d].todo
      <4>1. holder[k] \in Call /\ Reordering(holder[k]) /\ k \in Written(holder[k])
        BY <3>1 DEF TypeOK, HeldIsWritten
      <4>2. CASE holder[k] = c
        BY <4>1, <4>2, <2>5 DEF Reordering, Written, Named
      <4>3. CASE holder[k] # c
        BY <4>1, <4>3, <2>4 DEF Reordering, Written, Named
      <4> QED
        BY <4>2, <4>3
    <3>2. /\ call'[c].op = "reorder" /\ call'[c] # Null
          /\ i \in DOMAIN call'[c].place \ call'[c].todo
      BY <2>5 DEF Reordering, Written, Named
    <3> QED
      BY <3>1, <3>2, <2>6 DEF HeldIsWritten, Reordering, Written, Named
  <2> QED
    BY <2>7, <2>8, <2>9, <2>10
<1>3. ASSUME Release(c), call' = [call EXCEPT ![c] = Null]
      PROVE  /\ holder' \in [Item -> Call \union {Null}] /\ draft' \in [Item -> Nat]
             /\ ~Reordering(c)' /\ DOMAIN call' = Call
             /\ \A d \in Call \ {c} : call'[d] = call[d]
             /\ \A d \in Call \ {c}, i \in Item :
                  holder[i] = d => holder'[i] = d /\ draft'[i] = draft[i]
             /\ HeldIsWritten'
  <2>1. ~Reordering(c)' /\ DOMAIN call' = Call
        /\ \A d \in Call \ {c} : call'[d] = call[d]
    BY <1>3 DEF Reordering, TypeOK
  <2>2. holder' \in [Item -> Call \union {Null}] /\ draft' \in [Item -> Nat]
    BY <1>3 DEF Release, TypeOK
  <2>3. \A k \in Item : holder'[k] # Null => holder[k] = holder'[k] /\ holder[k] # c
    BY <1>3 DEF Release
  <2>4. \A d \in Call \ {c}, i \in Item :
          holder[i] = d => holder'[i] = d /\ draft'[i] = draft[i]
    BY <1>3 DEF Release
  <2> QED
    BY <2>1, <2>2, <2>3, <2>4 DEF HeldIsWritten, Reordering, Written, Named, TypeOK
<1>4. CASE ReorderCommit(c)
  <2>1. /\ Reordering(c) /\ call[c].todo = {} /\ Release(c)
        /\ call' = [call EXCEPT ![c] = Null]
        /\ last' = call[c].place /\ used' = used
        /\ row' = [i \in Item |-> IF holder[i] = c
                                  THEN [row[i] EXCEPT !.order = draft[i]] ELSE row[i]]
    BY <1>4 DEF ReorderCommit, Reordering
  <2>2. Written(c) = Named(c) /\ Named(c) \in SUBSET Item
        /\ call[c].place \in [Named(c) -> Nat]
    BY <2>1, CallForms DEF Written
  <2>3. \A i \in Item : holder[i] = c <=> i \in Named(c)
    BY <2>1, <2>2, TaxonomyAssumption DEF HoldsWritten, HeldIsWritten, Made
  <2>4. \A i \in Named(c) : /\ i \in Made /\ draft[i] = call[c].place[i]
                            /\ row'[i] = [row[i] EXCEPT !.order = draft[i]]
    BY <2>1, <2>2, <2>3 DEF HoldsWritten
  <2>5. \A i \in Named(c) : row'[i] \in Row /\ row'[i].order = call[c].place[i]
    BY <2>4, <2>2 DEF TypeOK, Made, Row
  <2>6. \A i \in Item \ Named(c) : row'[i] = row[i]
    BY <2>1, <2>3
  <2>7. row' \in [Item -> Row \union {Null}] /\ Made' = Made
    <3>1. \A i \in Named(c) : row'[i] # Null
      BY <2>5, TaxonomyAssumption
    <3>2. \A i \in Item : row'[i] \in Row \union {Null}
      BY <2>5, <2>6 DEF TypeOK
    <3>3. Made' = Made
      BY <2>4, <2>6, <3>1 DEF Made
    <3> QED
      BY <2>1, <3>2, <3>3
  <2>8. TypeOK'
    BY <1>3, <2>1, <2>2, <2>7 DEF TypeOK
  <2>9. OnceUsed' /\ LastReorderWins'
    BY <2>1, <2>2, <2>4, <2>5, <2>7 DEF OnceUsed, LastReorderWins, Named
  <2>10. HoldsWritten'
    BY <1>3, <2>1, <2>7 DEF HoldsWritten, Reordering, Written, Named, Made
  <2> QED
    BY <1>3, <2>1, <2>8, <2>9, <2>10
<1>5. CASE Abort(c)
  <2>1. Release(c) /\ call' = [call EXCEPT ![c] = Null]
        /\ UNCHANGED <<row, used, last>> /\ Made' = Made
    BY <1>5 DEF Abort, Made
  <2>2. TypeOK'
    BY <1>3, <2>1 DEF TypeOK
  <2>3. OnceUsed' /\ LastReorderWins'
    BY <2>1 DEF OnceUsed, LastReorderWins
  <2>4. HoldsWritten'
    BY <1>3, <2>1 DEF HoldsWritten, Reordering, Written, Named, Made
  <2> QED
    BY <1>3, <2>1, <2>2, <2>3, <2>4
<1> QED
  BY <1>1, <1>2, <1>4, <1>5

-----------------------------------------------------------------------------
(* Every step preserves the invariant. *)
LEMMA TaxonomyStep == TaxonomyInv /\ [Next]_vars => TaxonomyInv'
<1> SUFFICES ASSUME TaxonomyInv, [Next]_vars PROVE TaxonomyInv'
  OBVIOUS
<1>1. CASE \E c \in Call : CreateRead(c) \/ CreateInsert(c)
  BY <1>1, CreateStep
<1>2. CASE \E c \in Call : ReorderRead(c) \/ ReorderUpdate(c) \/ ReorderCommit(c) \/ Abort(c)
  BY <1>2, ReorderStep
<1>3. CASE Rename \/ Remove
  BY <1>3, RenameStep, RemoveStep
<1>4. CASE UNCHANGED vars
  BY <1>4 DEF vars, TaxonomyInv, TypeOK, OnceUsed, HoldsWritten, HeldIsWritten,
              LastReorderWins, Made, Reordering, Written, Named
<1> QED
  BY <1>1, <1>2, <1>3, <1>4 DEF Next

(* What a reorder() holds is what it has written, from its look at the     *)
(* items to its end, and an id it has named never comes back.              *)
THEOREM TaxonomyInvariant == Spec => []TaxonomyInv
BY InitTaxonomy, TaxonomyStep, PTL DEF Spec

(* The last reorder() to commit wins: every item it named is where it put  *)
(* it, for any number of items and of concurrent requests.                 *)
THEOREM LastReorderWinsHolds == Spec => []LastReorderWins
<1>1. TaxonomyInv => LastReorderWins
  BY DEF TaxonomyInv
<1> QED
  BY <1>1, TaxonomyInvariant, PTL

(* Every variable of Taxonomy keeps its type. *)
THEOREM TaxonomyTypeCorrect == Spec => []TypeOK
<1>1. TaxonomyInv => TypeOK
  BY DEF TaxonomyInv
<1> QED
  BY <1>1, TaxonomyInvariant, PTL

-----------------------------------------------------------------------------
(* Every step is a step of ItemOrder or leaves the committed rows alone.   *)
LEMMA OrderStep == TaxonomyInv /\ [Next]_vars => [Order!Next]_row
<1> SUFFICES ASSUME TaxonomyInv, [Next]_vars PROVE [Order!Next]_row
  OBVIOUS
<1> USE DEF TaxonomyInv
<1>1. ASSUME NEW c \in Call, CreateInsert(c) PROVE Order!Next
  <2>1. PICK i \in Item \ used :
          row' = [row EXCEPT ![i] = [order |-> call[c].order, name |-> call[c].name]]
    BY <1>1 DEF CreateInsert
  <2>2. call[c] \in Creation /\ Unused(call[c].name)
    BY <1>1, CallForms DEF CreateInsert
  <2>3. row[i] = Null
    BY DEF OnceUsed, Made
  <2>4. row'[i] \in [order : Nat, name : {call[c].name}]
        /\ row' = [row EXCEPT ![i] = row'[i]] /\ call[c].name \in Name
    BY <2>1, <2>2 DEF TypeOK, Creation
  <2> QED
    BY <2>2, <2>3, <2>4 DEF Order!Next, Order!Add, Order!Unused, Order!Made, Unused, Made
<1>2. CASE Rename
  BY <1>2 DEF Rename, Made, Unused, Order!Next, Order!Rename, Order!Unused, Order!Made
<1>3. CASE Remove
  BY <1>3 DEF Remove, Made, Order!Next, Order!Remove
<1>4. ASSUME NEW c \in Call, ReorderCommit(c) PROVE Order!Next
  <2> DEFINE S == Named(c)
             place == call[c].place
  <2>1. /\ Reordering(c) /\ call[c].todo = {}
        /\ row' = [i \in Item |-> IF holder[i] = c
                                  THEN [row[i] EXCEPT !.order = draft[i]] ELSE row[i]]
    BY <1>4 DEF ReorderCommit, Reordering
  <2>2. \A i \in Item : holder[i] = c <=> i \in S
    BY <2>1, TaxonomyAssumption, CallForms DEF HoldsWritten, HeldIsWritten, Written
  <2>3. \A i \in S : i \in Made /\ draft[i] = place[i]
    BY <2>1 DEF HoldsWritten, Written
  <2>4. S \in SUBSET Item /\ place \in Places(S)
    BY <2>1, CallForms DEF HoldsWritten
  <2>5. Cardinality(S) \in Nat
    BY <2>4, TaxonomyAssumption, FS_Subset, FS_CardinalityType
  <2>6. \A i \in S : row'[i] = [row[i] EXCEPT !.order = place[i]] /\ row[i] \in Row
    BY <2>1, <2>2, <2>3, <2>4 DEF TypeOK, Made
  <2>7. \A i \in S : row'[i].order = place[i]
    BY <2>6 DEF Row
  <2>8. row' = [i \in Item |-> IF i \in S THEN [row[i] EXCEPT !.order = row'[i].order]
                                         ELSE row[i]]
    BY <2>1, <2>2, <2>3, <2>7
  <2> HIDE DEF S, place
  <2>9. /\ \A i, j \in S : place[i] = place[j] => i = j
        /\ \A i \in S : \A k \in 0..place[i] : \E j \in S : place[j] = k
    BY <2>4, <2>5 DEF Places
  <2>10. Order!Arrange(S)
    BY <2>7, <2>8, <2>9 DEF Order!Arrange
  <2>11. S \in SUBSET Order!Made
    BY <2>3, <2>4 DEF Made, Order!Made
  <2> QED
    BY <2>10, <2>11 DEF Order!Next
<1>5. ASSUME NEW c \in Call,
             CreateRead(c) \/ ReorderRead(c) \/ ReorderUpdate(c) \/ Abort(c)
      PROVE  UNCHANGED row
  BY <1>5 DEF CreateRead, ReorderRead, ReorderUpdate, Abort
<1>6. CASE UNCHANGED vars
  BY <1>6 DEF vars
<1> QED
  BY <1>1, <1>2, <1>3, <1>4, <1>5, <1>6 DEF Next

(* Readers see rearrangements whole: Taxonomy implements ItemOrder.        *)
THEOREM RefinesItemOrderHolds == Spec => RefinesItemOrder
<1>1. Init => Order!Init
  BY DEF Init, Order!Init
<1> QED
  BY <1>1, OrderStep, TaxonomyInvariant, PTL DEF Spec, RefinesItemOrder, Order!Spec
=============================================================================
