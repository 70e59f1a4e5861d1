---------------------------- MODULE LinksProofs ----------------------------
(***************************************************************************)
(* Theorems about Links, for every value of its constants.                 *)
(***************************************************************************)
EXTENDS Links, TLAPS

(* A held row has a draft. *)
Held == \A l \in Link : holder[l] # "nobody" => draft[l] # Null

(* persistMessage works on a link that exists for it, on a message and a   *)
(* host it has picked, with the defaults of a job.                         *)
Places ==
  /\ scan.pc # "idle" => scan.message \in Message /\ scan.defaults \in Defaults
  /\ scan.pc \in {"create", "apply", "source", "newest", "url"} => scan.host \in Host
  /\ scan.pc \in {"apply", "source", "newest", "url"} =>
       scan.link \in Link /\ View("scan", scan.link) # Null

(* An edit under way has read a link that still has a row: rows stay. *)
EditsRows == \A e \in Editor : edit[e] # Null => row[edit[e].link] # Null

TypeInv == TypeOK /\ Held /\ Places /\ EditsRows

(* The rule of OrganizedHasCategory for everything that is about to become *)
(* a committed row: drafts and the edits that have read their link.        *)
AllOrganizable ==
  /\ \A l \in Link : row[l] # Null => CanOrganize(row[l])
  /\ \A l \in Link : draft[l] # Null => CanOrganize(draft[l])
  /\ \A e \in Editor : edit[e] # Null => CanOrganize(edit[e].next)

(* persistMessage is at line 417 only if it will write a category. *)
AppliesACategory == scan.pc = "apply" => scan.defaults.category # Null

OrganizedInv == TypeInv /\ AllOrganizable /\ AppliesACategory

(* The variables about rows, which most steps disturb together. *)
RowsOK ==
  /\ row \in [Link -> Row \union {Null}]
  /\ holder \in [Link -> Category \union {"scan", "nobody"}]
  /\ draft \in [Link -> Row \union {Null}]

-----------------------------------------------------------------------------
(* What the transactions' operations do to rows, locks and drafts. *)

(* A statement that writes one row. *)
LEMMA WriteRows ==
  ASSUME RowsOK, Held, NEW t \in Category \union {"scan"}, NEW l \in Link,
         NEW r \in Row, Write(t, l, r), UNCHANGED row
  PROVE  /\ RowsOK' /\ Held'
         /\ View(t, l)' = r
         /\ \A k \in Link : View(t, k) # Null => View(t, k)' # Null
BY RowAssumption DEF RowsOK, Held, Write, View

(* updateMany: another transaction's view loses no row. *)
LEMMA UpdateManyRows ==
  ASSUME RowsOK, Held, NEW c \in Category, NEW S \in SUBSET Made, NEW f,
         \A l \in S : f[l] \in Row, UpdateMany(c, S, f), UNCHANGED row
  PROVE  /\ RowsOK' /\ Held'
         /\ \A k \in Link : View("scan", k)' = View("scan", k)
<1>1. S \subseteq Link /\ c # "scan"
  BY LinksAssumption DEF Made
<1>2. QED
  BY <1>1, RowAssumption DEF RowsOK, Held, UpdateMany, View, Free

(* The end of a transaction loses no row either. *)
LEMMA CommitRows ==
  ASSUME RowsOK, Held, NEW t \in Category \union {"scan"}, Commit(t)
  PROVE  /\ RowsOK' /\ Held'
         /\ \A k \in Link : row[k] # Null => row'[k] # Null
         /\ t # "scan" => \A k \in Link : View("scan", k) # Null => View("scan", k)' # Null
<1>1. t # "nobody"
  BY LinksAssumption
<1>2. QED
  BY <1>1 DEF RowsOK, Held, Commit, Release, View

LEMMA RollbackRows ==
  ASSUME RowsOK, Held, NEW t \in Category \union {"scan"}, Rollback(t)
  PROVE  /\ RowsOK' /\ Held'
         /\ \A k \in Link : row[k] # Null => row'[k] # Null
         /\ t # "scan" => \A k \in Link : View("scan", k) # Null => View("scan", k)' # Null
<1>1. t # "nobody"
  BY LinksAssumption
<1>2. QED
  BY <1>1 DEF RowsOK, Held, Rollback, Release, View

(* A request of the administrator writes committed rows and takes no lock  *)
(* that lasts.                                                             *)
LEMMA CommittedWriteRows ==
  ASSUME RowsOK, Held, UNCHANGED lockVars,
         row' \in [Link -> Row \union {Null}],
         \A k \in Link : row[k] # Null => row'[k] # Null
  PROVE  /\ RowsOK' /\ Held'
         /\ \A k \in Link : View("scan", k) # Null => View("scan", k)' # Null
BY DEF RowsOK, Held, View, lockVars

-----------------------------------------------------------------------------
LEMMA TypeInit == Init => TypeInv
BY LinksAssumption DEF Init, TypeInv, TypeOK, Held, Places, EditsRows, Idle, ScanLocals, MaybeCategory

(* ScanFind either takes a link, to apply the defaults only if it wants    *)
(* them, or goes on to create one.                                         *)
LEMMA ScanFindMoves ==
  ASSUME TypeInv, ScanFind
  PROVE  \E h \in Host :
           \/ \E l \in Link, pc \in {"apply", "source"} :
                /\ View("scan", l) # Null
                /\ pc = "apply" => WantsDefaults(View("scan", l), scan.defaults)
                /\ scan' = [scan EXCEPT
                     !.host = h, !.todo = scan.todo \ {h}, !.link = l,
                     !.category = View("scan", l).category, !.pc = pc]
           \/ scan' = [scan EXCEPT !.host = h, !.todo = scan.todo \ {h}, !.pc = "create"]
<1>1. scan.todo \subseteq Host
  BY DEF TypeInv, TypeOK, ScanLocals
<1>2. QED
  BY <1>1 DEF ScanFind

(* persistMessage keeps the types: one case per statement. *)
LEMMA ScanKeepsTypes ==
  ASSUME TypeInv, Scan
  PROVE  TypeInv'
<1>1. RowsOK /\ Held /\ scan \in ScanLocals /\ Places
  BY DEF TypeInv, TypeOK, EditsRows, RowsOK
<1>2. CASE ScanBegin
  <2>1. PICK m \in Message, d \in Defaults :
          scan' = [scan EXCEPT !.pc = "find", !.message = m, !.todo = HostsOf[m],
                               !.defaults = d]
    BY <1>2 DEF ScanBegin
  <2>2. HostsOf[m] \subseteq Host /\ d \in [category : MaybeCategory, tags : BOOLEAN]
    BY LinksAssumption DEF MaybeCategory
  <2>3. scan' \in ScanLocals /\ Places'
    BY <1>1, <2>1, <2>2 DEF ScanLocals, Places
  <2>4. QED
    BY <1>2, <2>3 DEF ScanBegin, TypeInv, TypeOK, EditsRows, Held, sourceVars, lockVars
<1>3. CASE ScanFind
  <2>1. UNCHANGED <<row, holder, draft>> /\ scan.pc # "idle"
    BY <1>3 DEF ScanFind, lockVars
  <2>2. ASSUME NEW h \in Host, NEW l \in Link, NEW pc \in {"apply", "source"},
               View("scan", l) # Null,
               scan' = [scan EXCEPT
                 !.host = h, !.todo = scan.todo \ {h}, !.link = l,
                 !.category = View("scan", l).category, !.pc = pc]
        PROVE  scan' \in ScanLocals /\ Places'
    <3>1. View("scan", l).category \in MaybeCategory
      BY <1>1, <2>2 DEF RowsOK, View, Row
    <3>2. scan' \in ScanLocals
      BY <1>1, <2>2, <3>1 DEF ScanLocals
    <3>3. /\ scan'.message = scan.message /\ scan'.defaults = scan.defaults
          /\ scan'.host = h /\ scan'.link = l
      BY <1>1, <2>2 DEF ScanLocals
    <3>4. QED
      BY <1>1, <2>1, <2>2, <3>2, <3>3 DEF Places, View
  <2>3. ASSUME NEW h \in Host,
               scan' = [scan EXCEPT !.host = h, !.todo = scan.todo \ {h}, !.pc = "create"]
        PROVE  scan' \in ScanLocals /\ Places'
    <3>1. scan' \in ScanLocals
      BY <1>1, <2>3 DEF ScanLocals
    <3>2. /\ scan'.message = scan.message /\ scan'.defaults = scan.defaults
          /\ scan'.host = h /\ scan'.pc = "create"
      BY <1>1, <2>3 DEF ScanLocals
    <3>3. QED
      BY <1>1, <2>1, <3>1, <3>2 DEF Places
  <2>4. scan' \in ScanLocals /\ Places'
    BY <1>3, <2>2, <2>3, ScanFindMoves
  <2>5. QED
    BY <1>3, <2>1, <2>4 DEF ScanFind, TypeInv, TypeOK, EditsRows, Held, sourceVars, lockVars
<1>4. CASE ScanCreate
  <2> DEFINE r == [domain |-> scan.host, host |-> scan.host, from |-> scan.message,
                   category |-> scan.defaults.category,
                   status |-> "PENDING", archived |-> FALSE]
  <2>1. PICK l \in Link : Write("scan", l, r)
                          /\ scan' = [scan EXCEPT !.link = l, !.pc = "source"]
    BY <1>4 DEF ScanCreate
  <2>2. r \in Row
    BY <1>1, <1>4 DEF ScanCreate, Places, ScanLocals, Row, OrganizationStatus
  <2>3. UNCHANGED row
    BY <1>4 DEF ScanCreate
  <2>4. RowsOK' /\ Held' /\ View("scan", l)' = r
    BY <1>1, <2>1, <2>2, <2>3, WriteRows
  <2>5. scan' \in ScanLocals
    BY <1>1, <2>1 DEF ScanLocals
  <2>6. Places'
    BY <1>1, <1>4, <2>1, <2>2, <2>4, RowAssumption DEF ScanCreate, ScanLocals, Places
  <2>7. QED
    BY <1>4, <2>4, <2>5, <2>6 DEF ScanCreate, TypeInv, TypeOK, EditsRows, RowsOK, sourceVars
<1>5. CASE ScanApply
  <2>1. PICK l \in Link : l = scan.link /\ View("scan", l) \in Row
    BY <1>1, <1>5 DEF ScanApply, Places, RowsOK, View
  <2> DEFINE c == Defaulted(scan.category, scan.defaults)
             r == [View("scan", l) EXCEPT !.category = c]
  <2>2. r \in Row
    BY <1>1, <2>1 DEF Defaulted, ScanLocals, Row
  <2>3. Write("scan", l, r) /\ UNCHANGED row
    BY <1>5, <2>1 DEF ScanApply
  <2>4. RowsOK' /\ Held' /\ View("scan", l)' = r
    BY <1>1, <2>1, <2>2, <2>3, WriteRows
  <2>5. scan' = [scan EXCEPT !.pc = "source"]
    BY <1>5 DEF ScanApply, Continue
  <2>6. scan' \in ScanLocals /\ Places'
    BY <1>1, <1>5, <2>1, <2>2, <2>4, <2>5, RowAssumption DEF ScanApply, ScanLocals, Places
  <2>7. QED
    BY <1>5, <2>4, <2>6 DEF ScanApply, TypeInv, TypeOK, EditsRows, RowsOK, sourceVars
<1>6. CASE ScanSource
  <2>1. scan' = [scan EXCEPT !.pc = "newest"] /\ UNCHANGED <<row, holder, draft>>
    BY <1>6 DEF ScanSource, Continue, lockVars
  <2>2. scan.link \in Link /\ scan.message \in Message
    BY <1>1, <1>6 DEF ScanSource, Places
  <2>3. scan' \in ScanLocals /\ Places'
    BY <1>1, <1>6, <2>1 DEF ScanSource, ScanLocals, Places, View
  <2>4. newSources' \subseteq Link \X Message /\ pinned' \subseteq Link
    BY <1>6, <2>2 DEF ScanSource, TypeInv, TypeOK
  <2>5. QED
    BY <1>6, <2>1, <2>3, <2>4 DEF ScanSource, TypeInv, TypeOK, EditsRows, Held
<1>7. CASE ScanNewest
  <2>1. scan' = [scan EXCEPT !.pc = IF Newer(scan.link, scan.message) THEN "find" ELSE "url"]
        /\ UNCHANGED <<row, holder, draft>>
    BY <1>7 DEF ScanNewest, Continue, lockVars
  <2>2. scan' \in ScanLocals /\ Places'
    BY <1>1, <1>7, <2>1 DEF ScanNewest, ScanLocals, Places, View
  <2>3. QED
    BY <1>7, <2>1, <2>2 DEF ScanNewest, TypeInv, TypeOK, EditsRows, Held, sourceVars
<1>8. CASE ScanUrl
  <2>1. PICK l \in Link : l = scan.link /\ View("scan", l) \in Row
    BY <1>1, <1>8 DEF ScanUrl, Places, RowsOK, View
  <2> DEFINE r == [View("scan", l) EXCEPT !.host = scan.host, !.from = scan.message]
  <2>2. r \in Row
    BY <1>1, <1>8, <2>1 DEF ScanUrl, Places, Row
  <2>3. Write("scan", l, r) /\ UNCHANGED row
    BY <1>8, <2>1 DEF ScanUrl
  <2>4. RowsOK' /\ Held'
    BY <1>1, <2>1, <2>2, <2>3, WriteRows
  <2>5. scan' = [scan EXCEPT !.pc = "find"]
    BY <1>8 DEF ScanUrl, Continue
  <2>6. scan' \in ScanLocals /\ Places'
    BY <1>1, <1>8, <2>5 DEF ScanUrl, ScanLocals, Places
  <2>7. QED
    BY <1>8, <2>4, <2>6 DEF ScanUrl, TypeInv, TypeOK, EditsRows, RowsOK, sourceVars
<1>9. CASE ScanCommit \/ ScanAbort
  <2>1. Commit("scan") \/ Rollback("scan")
    BY <1>9 DEF ScanCommit, ScanAbort
  <2>2. RowsOK' /\ Held'
    BY <1>1, <2>1, CommitRows, RollbackRows
  <2>6. \A k \in Link : row[k] # Null => row'[k] # Null
    BY <1>1, <2>1, CommitRows, RollbackRows
  <2>3. scan' = Idle
    BY <1>9 DEF ScanCommit, ScanAbort
  <2>4. scan' \in ScanLocals /\ Places'
    BY <2>3 DEF Idle, ScanLocals, Places, MaybeCategory
  <2>5. QED
    BY <1>9, <2>2, <2>4, <2>6 DEF ScanCommit, ScanAbort, TypeInv, TypeOK, EditsRows, RowsOK
<1>10. QED
  BY <1>2, <1>3, <1>4, <1>5, <1>6, <1>7, <1>8, <1>9 DEF Scan

(* The administrator's requests keep the types. *)
LEMMA AdminKeepsTypes ==
  ASSUME TypeInv,
         \/ CreateLink \/ Archive \/ Restore
         \/ \E e \in Editor : EditRead(e) \/ EditWrite(e) \/ EditDrop(e)
  PROVE  TypeInv'
<1>1. RowsOK /\ Held /\ Places
  BY DEF TypeInv, TypeOK, RowsOK
<1>2. ASSUME UNCHANGED <<categories, sourceVars, lockVars, scan, removal>>,
             row' \in [Link -> Row \union {Null}],
             \A k \in Link : row[k] # Null => row'[k] # Null,
             edit' \in [Editor -> [link : Link, next : Patched, domain : Host \union {Keep}]
                                   \union {Null}],
             EditsRows', edited' \subseteq Link
      PROVE  TypeInv'
  <2>1. RowsOK' /\ Held' /\ \A k \in Link : View("scan", k) # Null => View("scan", k)' # Null
    BY <1>1, <1>2, CommittedWriteRows
  <2>2. Places'
    BY <1>1, <1>2, <2>1 DEF Places
  <2>3. QED
    BY <1>2, <2>1, <2>2 DEF TypeInv, TypeOK, RowsOK, sourceVars, lockVars
<1>3. CASE CreateLink
  <2>1. PICK l \in Link \ Made, h \in Host, c \in categories \union {Null},
             s \in OrganizationStatus :
          row' = [row EXCEPT ![l] = [domain |-> h, host |-> h, from |-> Null,
                                     category |-> c, status |-> s, archived |-> FALSE]]
    BY <1>3 DEF CreateLink
  <2> DEFINE r == [domain |-> h, host |-> h, from |-> Null,
                   category |-> c, status |-> s, archived |-> FALSE]
  <2>2. r \in Row
    BY DEF Row, MaybeCategory, TypeInv, TypeOK
  <2>3. row' = [row EXCEPT ![l] = r]
    BY <2>1
  <2>4. /\ row' \in [Link -> Row \union {Null}]
        /\ \A k \in Link : row[k] # Null => row'[k] # Null
    BY <1>1, <2>2, <2>3, RowAssumption DEF RowsOK
  <2>5. QED
    BY <1>2, <1>3, <2>4 DEF CreateLink, TypeInv, TypeOK, EditsRows
<1>4. CASE Archive
  <2>1. PICK S \in SUBSET Made :
          row' = [l \in Link |-> IF l \in S THEN [row[l] EXCEPT !.archived = TRUE]
                                            ELSE row[l]]
    BY <1>4 DEF Archive
  <2>2. \A l \in S : [row[l] EXCEPT !.archived = TRUE] \in Row
    BY <1>1, <2>1 DEF RowsOK, Made, Row
  <2>3. /\ row' \in [Link -> Row \union {Null}]
        /\ \A k \in Link : row[k] # Null => row'[k] # Null
    BY <1>1, <2>1, <2>2, RowAssumption DEF RowsOK, Made
  <2>4. QED
    BY <1>2, <1>4, <2>3 DEF Archive, TypeInv, TypeOK, EditsRows
<1>5. CASE Restore
  <2>1. PICK l \in Made : row' = [row EXCEPT ![l] = [row[l] EXCEPT !.archived = FALSE]]
    BY <1>5 DEF Restore
  <2>2. [row[l] EXCEPT !.archived = FALSE] \in Row /\ l \in Link
    BY <1>1, <2>1 DEF RowsOK, Made, Row
  <2>3. /\ row' \in [Link -> Row \union {Null}]
        /\ \A k \in Link : row[k] # Null => row'[k] # Null
    BY <1>1, <2>1, <2>2, RowAssumption DEF RowsOK
  <2>4. QED
    BY <1>2, <1>5, <2>3 DEF Restore, TypeInv, TypeOK, EditsRows
<1>6. CASE \E e \in Editor : EditRead(e)
  <2>1. PICK e \in Editor, l \in Made, p \in Patches :
          edit' = [edit EXCEPT ![e] = [link |-> l, next |-> Merged(row[l], p),
                                       domain |-> p.host]]
    BY <1>6 DEF EditRead
  <2>2. l \in Link /\ row[l] \in Row
    BY <1>1 DEF Made, RowsOK
  <2>3. p \in [category : Category \union {Null, Keep},
               status : OrganizationStatus \union {Keep}, host : Host \union {Keep}]
    BY LinksAssumption
  <2>4. Merged(row[l], p) \in Patched
    BY <2>2, <2>3 DEF Merged, Patched, Row, MaybeCategory
  <2>5. [link |-> l, next |-> Merged(row[l], p), domain |-> p.host]
          \in [link : Link, next : Patched, domain : Host \union {Keep}]
    BY <2>2, <2>3, <2>4
  <2>6. edit' \in [Editor -> [link : Link, next : Patched, domain : Host \union {Keep}]
                              \union {Null}]
    BY <2>1, <2>5 DEF TypeInv, TypeOK
  <2>7. UNCHANGED <<row, categories, sourceVars, lockVars, scan, removal, edited>>
    BY <1>6 DEF EditRead
  <2>8. row' \in [Link -> Row \union {Null}] /\ edited' \subseteq Link /\ EditsRows'
    BY <1>1, <2>1, <2>7 DEF RowsOK, TypeInv, TypeOK, EditsRows, Made
  <2>9. QED
    BY <1>2, <2>6, <2>7, <2>8
<1>7. CASE \E e \in Editor : EditWrite(e)
  <2>1. PICK e \in Editor : EditWrite(e)
    BY <1>7
  <2> DEFINE l == edit[e].link
             r == Rewritten(row[l], edit[e].next, edit[e].domain)
  <2>2. /\ l \in Link /\ edit[e].next \in Patched /\ edit[e].domain \in Host \union {Keep}
        /\ row[l] \in Row
    BY <1>1, <2>1 DEF EditWrite, TypeInv, TypeOK, EditsRows, RowsOK
  <2>3. r \in Row
    BY <2>2 DEF Rewritten, Patched, Row
  <2>4. /\ row' = [row EXCEPT ![l] = r]
        /\ edited' = edited \union {l}
        /\ edit' = [edit EXCEPT ![e] = Null]
    BY <2>1 DEF EditWrite
  <2>5. /\ row' \in [Link -> Row \union {Null}]
        /\ \A k \in Link : row[k] # Null => row'[k] # Null
        /\ edited' \subseteq Link
    BY <1>1, <2>2, <2>3, <2>4, RowAssumption DEF RowsOK, TypeInv, TypeOK
  <2>6. /\ edit' \in [Editor -> [link : Link, next : Patched, domain : Host \union {Keep}]
                                 \union {Null}]
        /\ EditsRows'
    BY <2>4, <2>5 DEF EditsRows, TypeInv, TypeOK
  <2>7. QED
    BY <1>2, <2>1, <2>5, <2>6 DEF EditWrite
<1>8. CASE \E e \in Editor : EditDrop(e)
  <2>1. /\ row' \in [Link -> Row \union {Null}] /\ edited' \subseteq Link
        /\ \A k \in Link : row[k] # Null => row'[k] # Null
    BY <1>1, <1>8 DEF EditDrop, RowsOK, TypeInv, TypeOK
  <2>2. /\ edit' \in [Editor -> [link : Link, next : Patched, domain : Host \union {Keep}]
                                 \union {Null}]
        /\ EditsRows'
    BY <1>8 DEF EditDrop, TypeInv, TypeOK, EditsRows
  <2>3. QED
    BY <1>2, <1>8, <2>1, <2>2 DEF EditDrop
<1>9. QED
  BY <1>3, <1>4, <1>5, <1>6, <1>7, <1>8

(* So does the removal of a category. *)
LEMMA RemoveKeepsTypes ==
  ASSUME TypeInv, NEW c \in Category, Remove(c)
  PROVE  TypeInv'
<1>1. RowsOK /\ Held /\ Places
  BY DEF TypeInv, TypeOK, RowsOK
<1>2. ASSUME UNCHANGED <<sourceVars, scan, edit, edited>>,
             RowsOK', Held', categories' \subseteq Category,
             \A k \in Link : row[k] # Null => row'[k] # Null,
             \A k \in Link : View("scan", k) # Null => View("scan", k)' # Null,
             NEW pc \in {"idle", "clear", "delete"}, Step(c, pc)
      PROVE  TypeInv'
  <2>1. Places' /\ EditsRows'
    BY <1>1, <1>2 DEF Places, EditsRows, TypeInv, TypeOK
  <2>2. removal' \in [Category -> {"idle", "clear", "delete"}]
    BY <1>2 DEF Step, TypeInv, TypeOK
  <2>3. QED
    BY <1>2, <2>1, <2>2 DEF TypeInv, TypeOK, RowsOK, sourceVars
<1>3. c \notin {"scan", "nobody"}
  BY LinksAssumption
<1>4. CASE RemoveArchive(c)
  <2> DEFINE S == {l \in Made : row[l].category = c /\ ~row[l].archived}
             f == [l \in Made |-> [row[l] EXCEPT !.archived = TRUE]]
  <2>1. \A l \in S : f[l] \in Row
    BY <1>1 DEF RowsOK, Made, Row
  <2>2. UpdateMany(c, S, f) /\ UNCHANGED row
    BY <1>4 DEF RemoveArchive
  <2>3. S \in SUBSET Made
    OBVIOUS
  <2>4. RowsOK' /\ Held' /\ \A k \in Link : View("scan", k)' = View("scan", k)
    BY <1>1, <2>1, <2>2, <2>3, UpdateManyRows
  <2>5. QED
    BY <1>2, <1>4, <2>4 DEF RemoveArchive, TypeInv, TypeOK
<1>5. CASE RemoveClear(c)
  <2> DEFINE S == {l \in Made : View(c, l).category = c}
             f == [l \in Made |-> Cleared(View(c, l))]
  <2>1. \A l \in Made : View(c, l) \in Row
    BY <1>1, <1>3 DEF RowsOK, Held, Made, View
  <2>2. \A l \in S : f[l] \in Row
    BY <2>1 DEF Cleared, Row, MaybeCategory, OrganizationStatus
  <2>3. UpdateMany(c, S, f) /\ UNCHANGED row
    BY <1>5 DEF RemoveClear
  <2>4. S \in SUBSET Made
    OBVIOUS
  <2>5. RowsOK' /\ Held' /\ \A k \in Link : View("scan", k)' = View("scan", k)
    BY <1>1, <2>2, <2>3, <2>4, UpdateManyRows
  <2>6. QED
    BY <1>2, <1>5, <2>5 DEF RemoveClear, TypeInv, TypeOK
<1>6. CASE RemoveDelete(c)
  <2>1. Commit(c)
    BY <1>6 DEF RemoveDelete
  <2>2. /\ RowsOK' /\ Held'
        /\ \A k \in Link : row[k] # Null => row'[k] # Null
        /\ \A k \in Link : View("scan", k) # Null => View("scan", k)' # Null
    BY <1>1, <1>3, <2>1, CommitRows
  <2>3. QED
    BY <1>2, <1>6, <2>2 DEF RemoveDelete, TypeInv, TypeOK
<1>7. CASE RemoveAbort(c)
  <2>1. Rollback(c)
    BY <1>7 DEF RemoveAbort
  <2>2. /\ RowsOK' /\ Held'
        /\ \A k \in Link : row[k] # Null => row'[k] # Null
        /\ \A k \in Link : View("scan", k) # Null => View("scan", k)' # Null
    BY <1>1, <1>3, <2>1, RollbackRows
  <2>3. QED
    BY <1>2, <1>7, <2>2 DEF RemoveAbort, TypeInv, TypeOK
<1>8. QED
  BY <1>4, <1>5, <1>6, <1>7 DEF Remove

LEMMA TypeStep == TypeInv /\ [Next]_vars => TypeInv'
<1> SUFFICES ASSUME TypeInv, [Next]_vars PROVE TypeInv'
  OBVIOUS
<1>1. CASE UNCHANGED vars
  BY <1>1 DEF vars, sourceVars, lockVars, TypeInv, TypeOK, Held, Places, EditsRows, View
<1>2. CASE Next
  BY <1>2, ScanKeepsTypes, AdminKeepsTypes, RemoveKeepsTypes DEF Next
<1>3. QED
  BY <1>1, <1>2

(* Every variable keeps its type, whatever interleaves. *)
THEOREM LinksTypeCorrect == Spec => []TypeOK
<1>1. TypeInv => TypeOK
  BY DEF TypeInv
<1>2. QED
  BY TypeInit, TypeStep, <1>1, PTL DEF Spec

-----------------------------------------------------------------------------
(* What the parties do to rows, in terms of CanOrganize alone: a row that  *)
(* is written either is as organizable as the view it replaces, or has a   *)
(* category, or is pending.                                                *)
LEMMA ScanKeepsOrganized ==
  ASSUME DefaultsHaveCategory, OrganizedInv, Scan
  PROVE  AllOrganizable' /\ AppliesACategory'
<1>1. RowsOK /\ Held /\ scan \in ScanLocals /\ Places /\ AllOrganizable /\ AppliesACategory
  BY DEF OrganizedInv, TypeInv, TypeOK, RowsOK
<1>2. UNCHANGED edit
  BY DEF Scan, ScanBegin, ScanFind, ScanCreate, ScanApply, ScanSource, ScanNewest,
         ScanUrl, ScanCommit, ScanAbort
<1>3. \A l \in Link : View("scan", l) # Null => CanOrganize(View("scan", l))
  BY <1>1 DEF AllOrganizable, View
<1>4. ASSUME NEW l \in Link, NEW r, CanOrganize(r), Write("scan", l, r), UNCHANGED row
      PROVE  AllOrganizable'
  BY <1>1, <1>2, <1>4 DEF Write, AllOrganizable, RowsOK
<1>5. CASE ScanBegin \/ ScanSource \/ ScanNewest
  <2>1. UNCHANGED <<row, draft>> /\ scan'.pc # "apply"
    BY <1>1, <1>5 DEF ScanBegin, ScanSource, ScanNewest, Continue, ScanLocals, lockVars
  <2>2. QED
    BY <1>1, <1>2, <2>1 DEF AllOrganizable, AppliesACategory
<1>6. CASE ScanFind
  <2>1. UNCHANGED <<row, draft>>
    BY <1>6 DEF ScanFind, lockVars
  <2>2. scan.defaults \in Defaults
    BY <1>1, <1>6 DEF ScanFind, Places
  <2>3. scan.defaults.tags \in BOOLEAN
    BY <1>1 DEF ScanLocals
  <2>4. scan'.pc = "apply" => scan'.defaults = scan.defaults
                              /\ (scan.defaults.category # Null \/ scan.defaults.tags)
    <3>1. ASSUME NEW h \in Host, NEW l \in Link, NEW pc \in {"apply", "source"},
                 pc = "apply" => WantsDefaults(View("scan", l), scan.defaults),
                 scan' = [scan EXCEPT
                   !.host = h, !.todo = scan.todo \ {h}, !.link = l,
                   !.category = View("scan", l).category, !.pc = pc]
          PROVE  scan'.pc = "apply" => scan'.defaults = scan.defaults
                              /\ (scan.defaults.category # Null \/ scan.defaults.tags)
      BY <1>1, <3>1 DEF ScanLocals, WantsDefaults
    <3>2. ASSUME NEW h \in Host,
                 scan' = [scan EXCEPT !.host = h, !.todo = scan.todo \ {h}, !.pc = "create"]
          PROVE  scan'.pc # "apply"
      BY <1>1, <3>2 DEF ScanLocals
    <3>3. QED
      BY <1>6, <3>1, <3>2, ScanFindMoves DEF OrganizedInv
  <2>5. AppliesACategory'
    BY <2>2, <2>3, <2>4 DEF AppliesACategory, DefaultsHaveCategory
  <2>6. QED
    BY <1>1, <1>2, <2>1, <2>5 DEF AllOrganizable
<1>7. CASE ScanCreate
  <2> DEFINE r == [domain |-> scan.host, host |-> scan.host, from |-> scan.message,
                   category |-> scan.defaults.category,
                   status |-> "PENDING", archived |-> FALSE]
  <2>1. PICK l \in Link : Write("scan", l, r)
                          /\ scan' = [scan EXCEPT !.link = l, !.pc = "source"]
    BY <1>7 DEF ScanCreate
  <2>2. CanOrganize(r) /\ UNCHANGED row
    BY <1>7 DEF CanOrganize, ScanCreate
  <2>3. AllOrganizable'
    BY <1>4, <2>1, <2>2
  <2>4. QED
    BY <1>1, <2>1, <2>3 DEF AppliesACategory, ScanLocals
<1>8. CASE ScanApply
  <2>1. PICK l \in Link : l = scan.link /\ View("scan", l) \in Row
    BY <1>1, <1>8 DEF ScanApply, Places, RowsOK, View
  <2> DEFINE c == Defaulted(scan.category, scan.defaults)
             r == [View("scan", l) EXCEPT !.category = c]
  <2>2. c # Null
    BY <1>1, <1>8 DEF ScanApply, AppliesACategory, Defaulted
  <2>3. r.category = c
    BY <2>1 DEF Row
  <2>4. CanOrganize(r)
    BY <2>2, <2>3 DEF CanOrganize
  <2>5. Write("scan", l, r) /\ UNCHANGED row
    BY <1>8, <2>1 DEF ScanApply
  <2>6. AllOrganizable'
    BY <1>4, <2>4, <2>5
  <2>7. QED
    BY <1>1, <1>8, <2>6 DEF ScanApply, Continue, AppliesACategory, ScanLocals
<1>9. CASE ScanUrl
  <2>1. PICK l \in Link : /\ l = scan.link /\ View("scan", l) \in Row
                          /\ View("scan", l) # Null
    BY <1>1, <1>9 DEF ScanUrl, Places, RowsOK, View
  <2> DEFINE r == [View("scan", l) EXCEPT !.host = scan.host, !.from = scan.message]
  <2>2. r.category = View("scan", l).category /\ r.status = View("scan", l).status
    BY <2>1 DEF Row
  <2>3. CanOrganize(r)
    BY <1>3, <2>1, <2>2 DEF CanOrganize
  <2>4. Write("scan", l, r) /\ UNCHANGED row
    BY <1>9, <2>1 DEF ScanUrl
  <2>5. AllOrganizable'
    BY <1>4, <2>3, <2>4
  <2>6. QED
    BY <1>1, <1>9, <2>5 DEF ScanUrl, Continue, AppliesACategory, ScanLocals
<1>10. CASE ScanCommit \/ ScanAbort
  <2>1. scan'.pc # "apply"
    BY <1>10 DEF ScanCommit, ScanAbort, Idle
  <2>2. Commit("scan") \/ Rollback("scan")
    BY <1>10 DEF ScanCommit, ScanAbort
  <2>3. AllOrganizable'
    BY <1>1, <1>2, <1>3, <2>2 DEF Commit, Rollback, Release, AllOrganizable
  <2>4. QED
    BY <2>1, <2>3 DEF AppliesACategory
<1>11. QED
  BY <1>5, <1>6, <1>7, <1>8, <1>9, <1>10 DEF Scan

LEMMA AdminKeepsOrganized ==
  ASSUME OrganizedInv,
         \/ CreateLink \/ Archive \/ Restore
         \/ \E e \in Editor : EditRead(e) \/ EditWrite(e) \/ EditDrop(e)
  PROVE  AllOrganizable' /\ AppliesACategory'
<1>1. /\ row \in [Link -> Row \union {Null}] /\ AllOrganizable
      /\ edit \in [Editor -> [link : Link, next : Patched, domain : Host \union {Keep}]
                              \union {Null}]
      /\ EditsRows
  BY DEF OrganizedInv, TypeInv, TypeOK
<1>2. UNCHANGED <<scan, draft>> /\ AppliesACategory'
  BY DEF CreateLink, Archive, Restore, EditRead, EditWrite, EditDrop, lockVars,
         OrganizedInv, AppliesACategory
<1>3. CASE CreateLink
  BY <1>1, <1>2, <1>3 DEF CreateLink, AllOrganizable, CanOrganize
<1>4. CASE Archive \/ Restore
  <2>1. PICK S \in SUBSET Made, b \in BOOLEAN :
          row' = [l \in Link |-> IF l \in S THEN [row[l] EXCEPT !.archived = b] ELSE row[l]]
    <3>1. CASE Archive
      BY <3>1 DEF Archive
    <3>2. CASE Restore
      <4>1. PICK l \in Made : row' = [row EXCEPT ![l] = [row[l] EXCEPT !.archived = FALSE]]
        BY <3>2 DEF Restore
      <4>2. row' = [k \in Link |-> IF k \in {l} THEN [row[k] EXCEPT !.archived = FALSE]
                                               ELSE row[k]]
        BY <1>1, <4>1
      <4>3. QED
        BY <4>2
    <3>3. QED
      BY <1>4, <3>1, <3>2
  <2>2. \A l \in S : row[l] \in Row /\ CanOrganize(row[l])
    BY <1>1 DEF Made, AllOrganizable
  <2>3. \A l \in S : CanOrganize([row[l] EXCEPT !.archived = b])
    BY <2>2 DEF CanOrganize, Row
  <2>4. UNCHANGED edit
    BY <1>4 DEF Archive, Restore
  <2>5. QED
    BY <1>1, <1>2, <2>1, <2>3, <2>4 DEF AllOrganizable
<1>5. CASE \E e \in Editor : EditRead(e)
  <2>1. PICK e \in Editor, l \in Made, p \in Patches :
          /\ CanOrganize(Merged(row[l], p))
          /\ edit' = [edit EXCEPT ![e] = [link |-> l, next |-> Merged(row[l], p),
                                          domain |-> p.host]]
    BY <1>5 DEF EditRead
  <2>2. UNCHANGED row
    BY <1>5 DEF EditRead
  <2>3. QED
    BY <1>1, <1>2, <2>1, <2>2 DEF AllOrganizable
<1>6. CASE \E e \in Editor : EditWrite(e)
  <2>1. PICK e \in Editor : EditWrite(e)
    BY <1>6
  <2> DEFINE l == edit[e].link
             r == Rewritten(row[l], edit[e].next, edit[e].domain)
  <2>2. CanOrganize(edit[e].next)
    BY <1>1, <2>1 DEF EditWrite, AllOrganizable
  <2>3. CanOrganize(r)
    BY <2>2 DEF CanOrganize, Rewritten
  <2>4. row' = [row EXCEPT ![l] = r] /\ edit' = [edit EXCEPT ![e] = Null]
    BY <2>1 DEF EditWrite
  <2>5. QED
    BY <1>1, <1>2, <2>3, <2>4 DEF AllOrganizable
<1>7. CASE \E e \in Editor : EditDrop(e)
  BY <1>1, <1>2, <1>7 DEF EditDrop, AllOrganizable
<1>8. QED
  BY <1>3, <1>4, <1>5, <1>6, <1>7

LEMMA RemoveKeepsOrganized ==
  ASSUME OrganizedInv, NEW c \in Category, Remove(c)
  PROVE  AllOrganizable' /\ AppliesACategory'
<1>1. RowsOK /\ Held /\ AllOrganizable
  BY DEF OrganizedInv, TypeInv, TypeOK, RowsOK
<1>2. UNCHANGED <<scan, edit>> /\ AppliesACategory'
  BY DEF Remove, RemoveArchive, RemoveClear, RemoveDelete, RemoveAbort, OrganizedInv,
         AppliesACategory
<1>3. c \notin {"scan", "nobody"}
  BY LinksAssumption
<1>4. \A l \in Made : View(c, l) \in Row /\ CanOrganize(View(c, l))
  BY <1>1, <1>3 DEF RowsOK, Held, Made, View, AllOrganizable
<1>5. CASE RemoveArchive(c)
  <2>1. \A l \in Made : row[l] \in Row /\ CanOrganize(row[l])
    BY <1>1 DEF RowsOK, Made, AllOrganizable
  <2>2. \A l \in Made : CanOrganize([row[l] EXCEPT !.archived = TRUE])
    BY <2>1 DEF CanOrganize, Row
  <2>3. QED
    BY <1>1, <1>2, <1>5, <2>2 DEF RemoveArchive, UpdateMany, AllOrganizable
<1>6. CASE RemoveClear(c)
  <2>1. \A l \in Made : CanOrganize(Cleared(View(c, l)))
    BY <1>4 DEF CanOrganize, Cleared, Row
  <2>2. QED
    BY <1>1, <1>2, <1>6, <2>1 DEF RemoveClear, UpdateMany, AllOrganizable
<1>7. CASE RemoveDelete(c) \/ RemoveAbort(c)
  <2>1. Commit(c) \/ Rollback(c)
    BY <1>7 DEF RemoveDelete, RemoveAbort
  <2>2. QED
    BY <1>1, <1>2, <2>1 DEF Commit, Rollback, Release, View, AllOrganizable
<1>8. QED
  BY <1>5, <1>6, <1>7 DEF Remove

LEMMA OrganizedStep ==
  ASSUME DefaultsHaveCategory
  PROVE  OrganizedInv /\ [Next]_vars => OrganizedInv'
<1> SUFFICES ASSUME OrganizedInv, [Next]_vars PROVE OrganizedInv'
  OBVIOUS
<1>1. TypeInv'
  BY TypeStep DEF OrganizedInv
<1>2. CASE UNCHANGED vars
  BY <1>1, <1>2 DEF vars, lockVars, OrganizedInv, AllOrganizable, AppliesACategory
<1>3. CASE Next
  BY <1>1, <1>3, ScanKeepsOrganized, AdminKeepsOrganized, RemoveKeepsOrganized
     DEF Next, OrganizedInv
<1>4. QED
  BY <1>2, <1>3

(* No link is ever organized without a category, whatever scans, edits and *)
(* removals interleave, provided that jobs with default tags have a        *)
(* default category: without that proviso line 420 writes a stale null.    *)
THEOREM OrganizedHolds ==
  ASSUME DefaultsHaveCategory
  PROVE  Spec => []OrganizedHasCategory
<1>1. Init => OrganizedInv
  BY TypeInit DEF Init, Idle, OrganizedInv, AllOrganizable, AppliesACategory
<1>2. OrganizedInv => OrganizedHasCategory
  BY DEF OrganizedInv, AllOrganizable, OrganizedHasCategory, Made
<1>3. QED
  BY <1>1, <1>2, OrganizedStep, PTL DEF Spec

-----------------------------------------------------------------------------
(* Whose URL a link has. *)

(* The messages a link has sources of: committed, and for the scan as well. *)
Known(l) == {m \in Message : <<l, m>> \in sources}
Seen(l)  == {m \in Message : <<l, m>> \in sources \union newSources}

(* The message from is one of S that none of S was sent after. *)
Leads(from, S) == S # {} => from \in S /\ \A m \in S : SentAt[m] <= SentAt[from]

(* persistMessage has added its source to the link and has not yet decided *)
(* whose URL the link is to have.                                          *)
Deciding(l) == scan.pc \in {"newest", "url"} /\ l = scan.link

SourcesHaveRows ==
  /\ \A l \in Link : Known(l) # {} => row[l] # Null
  /\ \A l \in Link : Seen(l) # {} => View("scan", l) # Null
  /\ sources \subseteq Link \X Message
  /\ scan.pc = "idle" => newSources = {}

(* The removal of a category holds committed rows, and changes no URL. *)
RemovalsKeepFrom ==
  \A l \in Link : holder[l] \in Category => row[l] # Null /\ draft[l].from = row[l].from

CommittedLead ==
  \A l \in Link \ edited : row[l] # Null => Leads(row[l].from, Known(l))

(* What the scan is about to commit, and at a link that it is deciding     *)
(* about, what its decision will be right of.                              *)
Undecided(l) ==
  /\ scan.message \in Seen(l)
  /\ scan.pc = "newest" => Leads(View("scan", l).from, Seen(l) \ {scan.message})
                           \/ Leads(View("scan", l).from, Seen(l))
  /\ scan.pc = "url" => \A m \in Seen(l) : SentAt[m] <= SentAt[scan.message]

SeenLead ==
  \A l \in Link \ edited : View("scan", l) # Null =>
    IF Deciding(l) THEN Undecided(l) ELSE Leads(View("scan", l).from, Seen(l))

NewestParts == SourcesHaveRows /\ RemovalsKeepFrom /\ CommittedLead /\ SeenLead

(* The inductive invariant of the URLs. *)
NewestInv == TypeInv /\ NewestParts

(* A step that is not the scan's: rows stay or come without sources, and   *)
(* their URL changes only if somebody edits them.                          *)
LEMMA OthersKeepNewest ==
  ASSUME NewestInv, UNCHANGED <<sourceVars, scan>>, RemovalsKeepFrom',
         edited \subseteq edited',
         \A l \in Link : row[l] # Null => row'[l] # Null,
         \A l \in Link : View("scan", l) # Null => View("scan", l)' # Null,
         \A l \in Link \ edited' :
           /\ row[l] # Null => row'[l].from = row[l].from
           /\ View("scan", l) # Null => View("scan", l)'.from = View("scan", l).from
           /\ row[l] = Null /\ row'[l] # Null => View("scan", l) = Null
           /\ View("scan", l) = Null /\ View("scan", l)' # Null => row[l] = Null
  PROVE  NewestParts'
<1> USE DEF NewestInv, NewestParts
<1>1. \A l \in Link : Known(l)' = Known(l) /\ Seen(l)' = Seen(l)
  BY DEF Known, Seen, sourceVars
<1>2. SourcesHaveRows'
  BY <1>1 DEF SourcesHaveRows, sourceVars
<1>3. CommittedLead'
  <2> SUFFICES ASSUME NEW l \in Link \ edited', row'[l] # Null
               PROVE  Leads(row'[l].from, Known(l))
    BY <1>1 DEF CommittedLead, Leads
  <2>1. CASE row[l] = Null
    BY <2>1 DEF SourcesHaveRows, Leads
  <2>2. CASE row[l] # Null
    BY <2>2 DEF CommittedLead
  <2>3. QED
    BY <2>1, <2>2
<1>4. SeenLead'
  <2> SUFFICES ASSUME NEW l \in Link \ edited', View("scan", l)' # Null
               PROVE  IF Deciding(l) THEN Undecided(l)'
                                     ELSE Leads(View("scan", l)'.from, Seen(l))
    BY <1>1 DEF SeenLead, Leads, Deciding
  <2>1. CASE View("scan", l) = Null
    <3>1. Seen(l) = {} /\ ~Deciding(l)
      BY <2>1 DEF SourcesHaveRows, Deciding, TypeInv, Places
    <3>2. QED
      BY <3>1 DEF Leads
  <2>2. CASE View("scan", l) # Null
    BY <1>1, <2>2 DEF SeenLead, Undecided, Leads
  <2>3. QED
    BY <2>1, <2>2
<1>5. QED
  BY <1>2, <1>3, <1>4

LEMMA AdminKeepsNewest ==
  ASSUME NewestInv,
         \/ CreateLink \/ Archive \/ Restore
         \/ \E e \in Editor : EditRead(e) \/ EditWrite(e) \/ EditDrop(e)
  PROVE  NewestParts'
<1>1. RowsOK /\ Held /\ RemovalsKeepFrom /\ TypeInv'
  BY AdminKeepsTypes DEF NewestInv, NewestParts, TypeInv, TypeOK, RowsOK
<1>2. UNCHANGED <<sourceVars, scan, lockVars>> /\ edited \subseteq edited'
  BY DEF CreateLink, Archive, Restore, EditRead, EditWrite, EditDrop
<1>3. \A l \in Link : holder[l] \in Category => holder[l] # "nobody"
  BY LinksAssumption
<1>4. ASSUME \A l \in Link : row[l] # Null => row'[l] # Null,
             \A l \in Link \ edited' : row[l] # Null => row'[l].from = row[l].from,
             \A l \in Link : row'[l] # row[l] => holder[l] = "nobody"
      PROVE  NewestParts'
  <2>1. RemovalsKeepFrom'
    BY <1>1, <1>2, <1>3, <1>4 DEF RemovalsKeepFrom, lockVars
  <2>2. \A l \in Link : View("scan", l) = IF holder[l] = "scan" THEN draft[l] ELSE row[l]
    BY DEF View
  <2>3. \A l \in Link : View("scan", l)' = IF holder[l] = "scan" THEN draft[l] ELSE row'[l]
    BY <1>2 DEF View, lockVars
  <2>4. \A l \in Link : holder[l] = "scan" => row'[l] = row[l]
    BY <1>4
  <2>5. QED
    BY <1>2, <1>4, <2>1, <2>2, <2>3, <2>4, OthersKeepNewest
<1>5. CASE CreateLink
  <2>1. PICK l \in Link \ Made, h \in Host, c \in categories \union {Null},
             s \in OrganizationStatus :
          /\ holder[l] = "nobody"
          /\ row' = [row EXCEPT ![l] = [domain |-> h, host |-> h, from |-> Null,
                                        category |-> c, status |-> s, archived |-> FALSE]]
    BY <1>5 DEF CreateLink
  <2>2. row[l] = Null /\ \A k \in Link : k # l => row'[k] = row[k]
    BY <1>1, <2>1 DEF Made, RowsOK
  <2>3. QED
    BY <1>4, <2>1, <2>2
<1>6. CASE Archive \/ Restore
  <2>1. PICK S \in SUBSET Made :
          /\ \A l \in S : holder[l] = "nobody"
          /\ \A l \in Link \ S : row'[l] = row[l]
          /\ \A l \in S : \E b \in BOOLEAN : row'[l] = [row[l] EXCEPT !.archived = b]
    <3>1. CASE Archive
      BY <3>1 DEF Archive, Made
    <3>2. CASE Restore
      <4>1. PICK l \in Made : /\ holder[l] = "nobody"
                              /\ row' = [row EXCEPT ![l] = [row[l] EXCEPT !.archived = FALSE]]
        BY <3>2 DEF Restore
      <4>2. /\ \A k \in Link \ {l} : row'[k] = row[k]
            /\ row'[l] = [row[l] EXCEPT !.archived = FALSE]
        BY <1>1, <4>1 DEF RowsOK, Made
      <4>3. {l} \in SUBSET Made
        OBVIOUS
      <4>4. QED
        BY <4>1, <4>2, <4>3
    <3>3. QED
      BY <1>6, <3>1, <3>2
  <2>2. \A l \in S : row[l] \in Row
    BY <1>1 DEF RowsOK, Made
  <2>3. ASSUME NEW l \in S
        PROVE  row'[l] \in Row /\ row'[l].from = row[l].from
    <3>1. PICK b \in BOOLEAN : row'[l] = [row[l] EXCEPT !.archived = b]
      BY <2>1
    <3>2. row[l] \in Row
      BY <2>2
    <3>3. QED
      BY <3>1, <3>2 DEF Row
  <2>4. QED
    BY <1>4, <2>1, <2>3, RowAssumption
<1>7. CASE \E e \in Editor : EditRead(e) \/ EditDrop(e)
  BY <1>4, <1>7 DEF EditRead, EditDrop
<1>8. CASE \E e \in Editor : EditWrite(e)
  <2>1. PICK e \in Editor : EditWrite(e)
    BY <1>8
  <2>2. /\ holder[edit[e].link] = "nobody" /\ edited' = edited \union {edit[e].link}
        /\ \A k \in Link : k # edit[e].link => row'[k] = row[k]
    BY <1>1, <2>1 DEF EditWrite, RowsOK
  <2>3. row'[edit[e].link] # Null
    <3> DEFINE r == Rewritten(row[edit[e].link], edit[e].next, edit[e].domain)
    <3>1. /\ edit[e].link \in Link /\ edit[e].next \in Patched
          /\ edit[e].domain \in Host \union {Keep} /\ row[edit[e].link] \in Row
      BY <1>1, <2>1 DEF EditWrite, NewestInv, TypeInv, TypeOK, EditsRows, RowsOK
    <3>2. r \in Row
      BY <3>1 DEF Rewritten, Patched, Row
    <3>3. row' = [row EXCEPT ![edit[e].link] = r]
      BY <2>1 DEF EditWrite
    <3> HIDE DEF r
    <3>4. QED
      BY <1>1, <3>1, <3>2, <3>3, RowAssumption DEF RowsOK
  <2>4. QED
    BY <1>4, <2>2, <2>3
<1>9. QED
  BY <1>5, <1>6, <1>7, <1>8

LEMMA RemoveKeepsNewest ==
  ASSUME NewestInv, NEW c \in Category, Remove(c)
  PROVE  NewestParts'
<1>1. RowsOK /\ Held /\ RemovalsKeepFrom
  BY DEF NewestInv, NewestParts, TypeInv, TypeOK, RowsOK
<1>2. UNCHANGED <<sourceVars, scan, edited>>
  BY DEF Remove, RemoveArchive, RemoveClear, RemoveDelete, RemoveAbort
<1>3. c \notin {"scan", "nobody"} /\ "scan" \notin Category /\ "nobody" \notin Category
  BY LinksAssumption
<1>4. ASSUME NEW S \in SUBSET Made, NEW f, UpdateMany(c, S, f), UNCHANGED row,
             \A l \in S : f[l].from = row[l].from
      PROVE  NewestParts'
  <2>1. \A l \in S : l \in Link /\ row[l] # Null /\ holder[l] \in {c, "nobody"}
    BY <1>4 DEF UpdateMany, Free, Made
  <2>2. RemovalsKeepFrom'
    BY <1>1, <1>4, <2>1 DEF RemovalsKeepFrom, UpdateMany
  <2>3. \A l \in Link : View("scan", l)' = View("scan", l)
    BY <1>3, <1>4, <2>1 DEF UpdateMany, View
  <2>4. QED
    BY <1>2, <1>4, <2>2, <2>3, OthersKeepNewest
<1>5. CASE RemoveArchive(c)
  <2> DEFINE S == {l \in Made : row[l].category = c /\ ~row[l].archived}
             f == [l \in Made |-> [row[l] EXCEPT !.archived = TRUE]]
  <2>1. \A l \in S : f[l].from = row[l].from
    BY <1>1 DEF RowsOK, Made, Row
  <2>2. UpdateMany(c, S, f) /\ UNCHANGED row /\ S \in SUBSET Made
    BY <1>5 DEF RemoveArchive
  <2> HIDE DEF S, f
  <2>3. QED
    BY <1>4, <2>1, <2>2
<1>6. CASE RemoveClear(c)
  <2> DEFINE S == {l \in Made : View(c, l).category = c}
             f == [l \in Made |-> Cleared(View(c, l))]
  <2>1. \A l \in Made : View(c, l) \in Row /\ View(c, l).from = row[l].from
    BY <1>1, <1>3 DEF RowsOK, Held, Made, View, RemovalsKeepFrom
  <2>2. \A l \in S : f[l].from = row[l].from
    BY <2>1 DEF Cleared, Row
  <2>3. UpdateMany(c, S, f) /\ UNCHANGED row /\ S \in SUBSET Made
    BY <1>6 DEF RemoveClear
  <2> HIDE DEF S, f
  <2>4. QED
    BY <1>4, <2>2, <2>3
<1>7. CASE RemoveDelete(c) \/ RemoveAbort(c)
  <2>1. Commit(c) \/ Rollback(c)
    BY <1>7 DEF RemoveDelete, RemoveAbort
  <2>2. \A l \in Link : /\ row'[l] = row[l] \/ (holder[l] = c /\ row'[l] = draft[l])
                        /\ holder'[l] = IF holder[l] = c THEN "nobody" ELSE holder[l]
                        /\ holder[l] # c => draft'[l] = draft[l]
    BY <2>1 DEF Commit, Rollback, Release, View
  <2>3. \A l \in Link : /\ holder[l] = c => draft[l] # Null /\ row[l] # Null
                                            /\ draft[l].from = row[l].from
    BY <1>1, <1>3 DEF Held, RemovalsKeepFrom
  <2>4. \A l \in Link : /\ (row'[l] = Null) <=> (row[l] = Null)
                        /\ row[l] # Null => row'[l].from = row[l].from
    BY <2>2, <2>3
  <2>5. RemovalsKeepFrom'
    BY <1>1, <1>3, <2>2, <2>4 DEF RemovalsKeepFrom
  <2>6. \A l \in Link : \/ View("scan", l)' = View("scan", l)
                        \/ View("scan", l)' = row'[l] /\ View("scan", l) = row[l]
    BY <1>3, <2>2 DEF View
  <2>7. QED
    BY <1>2, <2>4, <2>5, <2>6, OthersKeepNewest
<1>8. QED
  BY <1>5, <1>6, <1>7 DEF Remove

(* A step of the scan that writes at most one row, and does not end it. *)
LEMMA ScanStepKeepsNewest ==
  ASSUME NewestInv, UNCHANGED <<row, sources, edited>>,
         scan'.pc # "idle",
         \A l \in Link : \/ holder'[l] = holder[l] /\ draft'[l] = draft[l]
                         \/ holder[l] \notin Category /\ holder'[l] = "scan",
         \A l \in Link : Seen(l)' # {} => View("scan", l)' # Null,
         SeenLead'
  PROVE  NewestParts'
<1> USE DEF NewestInv, NewestParts
<1>1. \A l \in Link : Known(l)' = Known(l)
  BY DEF Known
<1>2. SourcesHaveRows'
  BY <1>1 DEF SourcesHaveRows
<1>3. RemovalsKeepFrom'
  BY LinksAssumption DEF RemovalsKeepFrom
<1>4. CommittedLead'
  BY <1>1 DEF CommittedLead, Leads
<1>5. QED
  BY <1>2, <1>3, <1>4

LEMMA ScanKeepsNewest ==
  ASSUME NewestInv, Scan
  PROVE  NewestParts'
<1> USE DEF NewestInv, NewestParts
<1>1. /\ RowsOK /\ Held /\ scan \in ScanLocals /\ Places
      /\ SourcesHaveRows /\ RemovalsKeepFrom /\ CommittedLead /\ SeenLead
  BY DEF TypeInv, TypeOK, RowsOK
<1>2. "scan" \notin Category /\ "nobody" \notin Category
  BY LinksAssumption
<1>3. ASSUME UNCHANGED <<row, sourceVars, lockVars, edited>>, scan'.pc # "idle",
             scan'.pc \notin {"newest", "url"}, scan.pc \notin {"newest", "url"}
      PROVE  NewestParts'
  <2>1. \A l \in Link : Seen(l)' = Seen(l) /\ View("scan", l)' = View("scan", l)
    BY <1>3 DEF Seen, View, sourceVars, lockVars
  <2>2. SeenLead'
    BY <1>1, <1>3, <2>1 DEF SeenLead, Deciding, Leads
  <2>3. QED
    BY <1>1, <1>3, <2>1, <2>2, ScanStepKeepsNewest DEF SourcesHaveRows, sourceVars, lockVars
<1>4. CASE ScanBegin
  <2>1. scan.pc = "idle" /\ scan'.pc = "find"
    BY <1>1, <1>4 DEF ScanBegin, ScanLocals
  <2>2. QED
    BY <1>3, <1>4, <2>1 DEF ScanBegin
<1>5. CASE ScanFind
  <2>1. scan.pc = "find" /\ scan'.pc \in {"apply", "source", "create"}
    <3>1. ASSUME NEW h \in Host, NEW l \in Link, NEW pc \in {"apply", "source"},
                 scan' = [scan EXCEPT
                   !.host = h, !.todo = scan.todo \ {h}, !.link = l,
                   !.category = View("scan", l).category, !.pc = pc]
          PROVE  scan'.pc \in {"apply", "source", "create"}
      BY <1>1, <3>1 DEF ScanLocals
    <3>2. ASSUME NEW h \in Host,
                 scan' = [scan EXCEPT !.host = h, !.todo = scan.todo \ {h}, !.pc = "create"]
          PROVE  scan'.pc \in {"apply", "source", "create"}
      BY <1>1, <3>2 DEF ScanLocals
    <3>3. scan'.pc \in {"apply", "source", "create"}
      BY <1>5, <3>1, <3>2, ScanFindMoves
    <3>4. QED
      BY <1>5, <3>3 DEF ScanFind
  <2>2. QED
    BY <1>3, <1>5, <2>1 DEF ScanFind
<1>6. ASSUME NEW l \in Link, NEW r \in Row, Write("scan", l, r),
             UNCHANGED <<row, sourceVars, edited>>,
             scan'.pc \notin {"idle", "newest", "url"},
             scan.pc \in {"newest", "url"} => scan.link = l,
             l \notin edited => Leads(r.from, Seen(l))
      PROVE  NewestParts'
  <2>1. /\ View("scan", l)' = r
        /\ \A k \in Link \ {l} : View("scan", k)' = View("scan", k)
        /\ \A k \in Link \ {l} : holder'[k] = holder[k] /\ draft'[k] = draft[k]
        /\ holder[l] \notin Category /\ holder'[l] = "scan"
    BY <1>1, <1>2, <1>6 DEF Write, View, RowsOK, Free
  <2>2. \A k \in Link : Seen(k)' = Seen(k)
    BY <1>6 DEF Seen, sourceVars
  <2>3. SeenLead'
    BY <1>1, <1>6, <2>1, <2>2 DEF SeenLead, Deciding, Leads
  <2>4. \A k \in Link : Seen(k)' # {} => View("scan", k)' # Null
    BY <1>1, <1>6, <2>1, <2>2, RowAssumption DEF SourcesHaveRows
  <2>5. QED
    BY <1>6, <2>1, <2>3, <2>4, ScanStepKeepsNewest DEF sourceVars
<1>7. CASE ScanCreate
  <2> DEFINE r == [domain |-> scan.host, host |-> scan.host, from |-> scan.message,
                   category |-> scan.defaults.category,
                   status |-> "PENDING", archived |-> FALSE]
  <2>1. PICK l \in Link \ Made :
          /\ draft[l] = Null /\ Write("scan", l, r)
          /\ scan' = [scan EXCEPT !.link = l, !.pc = "source"]
    BY <1>7 DEF ScanCreate
  <2>2. r \in Row
    BY <1>1, <1>7 DEF ScanCreate, Places, ScanLocals, Row, OrganizationStatus
  <2>3. View("scan", l) = Null
    BY <2>1 DEF View, Made
  <2>4. Seen(l) = {}
    BY <1>1, <2>3 DEF SourcesHaveRows
  <2>5. scan'.pc = "source" /\ scan.pc = "create"
    BY <1>1, <1>7, <2>1 DEF ScanLocals, ScanCreate
  <2>6. UNCHANGED <<row, sourceVars, edited>>
    BY <1>7 DEF ScanCreate
  <2>7. Leads(r.from, Seen(l))
    BY <2>4 DEF Leads
  <2> HIDE DEF r
  <2>8. QED
    BY <1>6, <2>1, <2>2, <2>5, <2>6, <2>7
<1>8. CASE ScanApply
  <2>1. PICK l \in Link : l = scan.link /\ View("scan", l) \in Row
                          /\ View("scan", l) # Null
    BY <1>1, <1>8 DEF ScanApply, Places, RowsOK, View
  <2> DEFINE c == Defaulted(scan.category, scan.defaults)
             r == [View("scan", l) EXCEPT !.category = c]
  <2>2. r \in Row /\ r.from = View("scan", l).from
    BY <1>1, <2>1 DEF Defaulted, ScanLocals, Row
  <2>3. Write("scan", l, r) /\ UNCHANGED <<row, sourceVars, edited>>
    BY <1>8, <2>1 DEF ScanApply
  <2>4. scan.pc = "apply" /\ scan'.pc = "source"
    BY <1>1, <1>8 DEF ScanApply, Continue, ScanLocals
  <2>5. l \notin edited => Leads(r.from, Seen(l))
    BY <1>1, <2>1, <2>2, <2>4 DEF SeenLead, Deciding
  <2> HIDE DEF r
  <2>6. QED
    BY <1>6, <2>2, <2>3, <2>4, <2>5
<1>9. CASE ScanSource
  <2>1. /\ scan.link \in Link /\ scan.message \in Message /\ scan.pc = "source"
        /\ View("scan", scan.link) # Null
    BY <1>1, <1>9 DEF ScanSource, Places
  <2>2. /\ scan'.pc = "newest" /\ scan'.link = scan.link /\ scan'.message = scan.message
        /\ newSources' = newSources \union {<<scan.link, scan.message>>}
        /\ UNCHANGED <<row, sources, holder, draft, edited>>
    BY <1>1, <1>9 DEF ScanSource, Continue, ScanLocals, lockVars
  <2>3. /\ \A l \in Link : View("scan", l)' = View("scan", l)
        /\ \A l \in Link : l # scan.link => Seen(l)' = Seen(l)
        /\ \A l \in Link : l = scan.link => Seen(l)' = Seen(l) \union {scan.message}
    BY <2>1, <2>2 DEF View, Seen
  <2>4. SeenLead'
    <3> SUFFICES ASSUME NEW l \in Link \ edited, View("scan", l) # Null
                 PROVE  IF Deciding(l)' THEN Undecided(l)'
                                        ELSE Leads(View("scan", l).from, Seen(l)')
      BY <2>2, <2>3 DEF SeenLead, Leads
    <3>1. Leads(View("scan", l).from, Seen(l))
      BY <1>1, <2>1 DEF SeenLead, Deciding
    <3>2. CASE l # scan.link
      BY <2>2, <2>3, <3>1, <3>2 DEF Deciding
    <3>3. CASE l = scan.link
      <4>1. \/ scan.message \in Seen(l) /\ Seen(l)' = Seen(l)
            \/ Seen(l)' \ {scan.message} = Seen(l)
        BY <2>3, <3>3
      <4>2. \/ Leads(View("scan", l).from, Seen(l)' \ {scan.message})
            \/ Leads(View("scan", l).from, Seen(l)')
        BY <3>1, <4>1
      <4>3. scan.message \in Seen(l)'
        BY <2>3, <3>3
      <4>4. Undecided(l)'
        BY <2>2, <2>3, <4>2, <4>3 DEF Undecided, Leads
      <4>5. Deciding(l)'
        BY <2>2, <3>3 DEF Deciding
      <4>6. QED
        BY <4>4, <4>5
    <3>4. QED
      BY <3>2, <3>3
  <2>5. \A l \in Link : Seen(l)' # {} => View("scan", l)' # Null
    BY <1>1, <2>1, <2>3 DEF SourcesHaveRows
  <2>6. QED
    BY <2>2, <2>4, <2>5, ScanStepKeepsNewest
<1>10. CASE ScanNewest
  <2>1. PICK l \in Link :
          /\ l = scan.link /\ scan.message \in Message /\ View("scan", l) # Null
          /\ scan.pc = "newest"
    BY <1>1, <1>10 DEF ScanNewest, Places
  <2>2. /\ scan'.pc = IF Newer(l, scan.message) THEN "find" ELSE "url"
        /\ scan'.link = l /\ scan'.message = scan.message
        /\ UNCHANGED <<row, sourceVars, holder, draft, edited>>
    BY <1>1, <1>10, <2>1 DEF ScanNewest, Continue, ScanLocals, lockVars
  <2>3. \A k \in Link : Seen(k)' = Seen(k) /\ View("scan", k)' = View("scan", k)
    BY <2>2 DEF Seen, View, sourceVars
  <2>4. l \notin edited => Undecided(l)
    BY <1>1, <2>1 DEF SeenLead, Deciding
  <2>5. \A m \in Message : SentAt[m] \in Nat
    BY LinksAssumption
  <2>6. Newer(l, scan.message) <=> \E m \in Seen(l) : SentAt[m] > SentAt[scan.message]
    BY DEF Newer, Seen
  <2>7. Seen(l) \subseteq Message
    BY DEF Seen
  <2>8. ASSUME l \notin edited, Newer(l, scan.message)
        PROVE  Leads(View("scan", l).from, Seen(l))
    <3>1. PICK m \in Seen(l) : SentAt[m] > SentAt[scan.message]
      BY <2>6, <2>8
    <3>2. m # scan.message /\ scan.message \in Seen(l)
      BY <2>1, <2>4, <2>5, <2>7, <2>8, <3>1 DEF Undecided
    <3>3. ASSUME Leads(View("scan", l).from, Seen(l) \ {scan.message})
          PROVE  Leads(View("scan", l).from, Seen(l))
      <4>1. /\ View("scan", l).from \in Seen(l)
            /\ \A n \in Seen(l) \ {scan.message} : SentAt[n] <= SentAt[View("scan", l).from]
        BY <3>1, <3>2, <3>3 DEF Leads
      <4>2. SentAt[scan.message] <= SentAt[View("scan", l).from]
        BY <2>1, <2>5, <2>7, <3>1, <3>2, <4>1
      <4>3. QED
        BY <4>1, <4>2 DEF Leads
    <3>4. QED
      BY <2>1, <2>4, <2>8, <3>3 DEF Undecided
  <2>9. ASSUME l \notin edited, ~Newer(l, scan.message)
        PROVE  Undecided(l)'
    BY <2>1, <2>2, <2>3, <2>4, <2>5, <2>6, <2>7, <2>9 DEF Undecided
  <2>10. SeenLead'
    <3> SUFFICES ASSUME NEW k \in Link \ edited, View("scan", k) # Null
                 PROVE  IF Deciding(k)' THEN Undecided(k)'
                                        ELSE Leads(View("scan", k).from, Seen(k))
      BY <2>2, <2>3 DEF SeenLead, Leads
    <3>1. CASE k # l
      BY <1>1, <2>1, <2>2, <3>1 DEF SeenLead, Deciding
    <3>2. CASE k = l
      BY <2>2, <2>8, <2>9, <3>2 DEF Deciding
    <3>3. QED
      BY <3>1, <3>2
  <2>11. QED
    BY <1>1, <2>2, <2>3, <2>10, ScanStepKeepsNewest DEF SourcesHaveRows, sourceVars
<1>11. CASE ScanUrl
  <2>1. PICK l \in Link : /\ l = scan.link /\ View("scan", l) \in Row
                          /\ View("scan", l) # Null
    BY <1>1, <1>11 DEF ScanUrl, Places, RowsOK, View
  <2> DEFINE r == [View("scan", l) EXCEPT !.host = scan.host, !.from = scan.message]
  <2>2. r \in Row /\ r.from = scan.message
    BY <1>1, <1>11, <2>1 DEF ScanUrl, Places, Row
  <2>3. Write("scan", l, r) /\ UNCHANGED <<row, sourceVars, edited>>
    BY <1>11, <2>1 DEF ScanUrl
  <2>4. scan.pc = "url" /\ scan'.pc = "find"
    BY <1>1, <1>11 DEF ScanUrl, Continue, ScanLocals
  <2>5. l \notin edited => Leads(r.from, Seen(l))
    BY <1>1, <2>1, <2>2, <2>4 DEF SeenLead, Deciding, Undecided, Leads
  <2> HIDE DEF r
  <2>6. QED
    BY <1>6, <2>1, <2>2, <2>3, <2>4, <2>5
<1>12. CASE ScanCommit
  <2>1. /\ scan.pc = "find" /\ scan'.pc = "idle"
        /\ sources' = sources \union newSources /\ newSources' = {}
        /\ row' = [l \in Link |-> View("scan", l)]
        /\ holder' = [l \in Link |-> IF holder[l] = "scan" THEN "nobody" ELSE holder[l]]
        /\ draft' = [l \in Link |-> IF holder[l] = "scan" THEN Null ELSE draft[l]]
        /\ UNCHANGED edited
    BY <1>12 DEF ScanCommit, Commit, Release, Idle
  <2>2. \A l \in Link : /\ Known(l)' = Seen(l) /\ Seen(l)' = Seen(l)
                        /\ row'[l] = View("scan", l) /\ View("scan", l)' = View("scan", l)
    BY <2>1 DEF Known, Seen, View
  <2>3. SourcesHaveRows'
    BY <1>1, <2>1, <2>2 DEF SourcesHaveRows, TypeInv, TypeOK
  <2>4. RemovalsKeepFrom'
    BY <1>1, <1>2, <2>1, <2>2 DEF RemovalsKeepFrom, View
  <2>5. \A l \in Link \ edited : View("scan", l) # Null =>
                                   Leads(View("scan", l).from, Seen(l))
    BY <1>1, <2>1 DEF SeenLead, Deciding
  <2>6. CommittedLead' /\ SeenLead'
    BY <2>1, <2>2, <2>5 DEF CommittedLead, SeenLead, Deciding, Leads
  <2>7. QED
    BY <2>3, <2>4, <2>6
<1>13. CASE ScanAbort
  <2>1. /\ scan'.pc = "idle" /\ newSources' = {}
        /\ holder' = [l \in Link |-> IF holder[l] = "scan" THEN "nobody" ELSE holder[l]]
        /\ draft' = [l \in Link |-> IF holder[l] = "scan" THEN Null ELSE draft[l]]
        /\ UNCHANGED <<edited, row, sources>>
    BY <1>13 DEF ScanAbort, Rollback, Release, Idle
  <2>2. \A l \in Link : /\ Known(l)' = Known(l) /\ Seen(l)' = Known(l)
                        /\ View("scan", l)' = row[l]
    BY <2>1 DEF Known, Seen, View
  <2>3. SourcesHaveRows'
    BY <1>1, <2>1, <2>2 DEF SourcesHaveRows
  <2>4. RemovalsKeepFrom'
    BY <1>1, <1>2, <2>1 DEF RemovalsKeepFrom
  <2>5. CommittedLead' /\ SeenLead'
    BY <1>1, <2>1, <2>2 DEF CommittedLead, SeenLead, Deciding, Leads
  <2>6. QED
    BY <2>3, <2>4, <2>5
<1>14. QED
  BY <1>4, <1>5, <1>7, <1>8, <1>9, <1>10, <1>11, <1>12, <1>13 DEF Scan

LEMMA NewestInit == Init => NewestInv
<1> SUFFICES ASSUME Init PROVE NewestParts
  BY TypeInit DEF NewestInv
<1>1. \A l \in Link : /\ Known(l) = {} /\ Seen(l) = {} /\ row[l] = Null
                      /\ View("scan", l) = Null /\ holder[l] = "nobody"
  BY DEF Init, Known, Seen, View
<1>2. QED
  BY <1>1, LinksAssumption
  DEF Init, NewestParts, SourcesHaveRows, RemovalsKeepFrom, CommittedLead, SeenLead

LEMMA NewestStep == NewestInv /\ [Next]_vars => NewestInv'
<1> SUFFICES ASSUME NewestInv, [Next]_vars PROVE NewestParts'
  BY TypeStep DEF NewestInv
<1>1. CASE UNCHANGED vars
  <2>1. RemovalsKeepFrom' /\ \A l \in Link : View("scan", l)' = View("scan", l)
    BY <1>1 DEF vars, lockVars, NewestInv, NewestParts, RemovalsKeepFrom, View
  <2>2. QED
    BY <1>1, <2>1, OthersKeepNewest DEF vars
<1>2. CASE Next
  BY <1>2, ScanKeepsNewest, AdminKeepsNewest, RemoveKeepsNewest DEF Next
<1>3. QED
  BY <1>1, <1>2

(* A link that no administrator has edited has the URL of a newest source  *)
(* (451-466), for any messages delivered any number of times, whatever     *)
(* rolls back and whatever removals of categories hold its row meanwhile.  *)
THEOREM NewestHolds == Spec => []NewestUnlessEdited
<1>1. NewestInv => NewestUnlessEdited
  BY DEF NewestInv, NewestParts, CommittedLead, Leads, Known, NewestUnlessEdited, Made
<1>2. QED
  BY NewestInit, NewestStep, <1>1, PTL DEF Spec
=============================================================================
