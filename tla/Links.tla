------------------------------- MODULE Links -------------------------------
(***************************************************************************)
(* The Link table and the three parties that write it: persistMessage of   *)
(* a scan (apps/server/src/sync/sync-jobs.service.ts), the administrator's *)
(* edits (links/links.service.ts) and the removal of a category            *)
(* (taxonomy/taxonomy.service.ts).                                         *)
(*                                                                         *)
(* None of them asks for more isolation than PostgreSQL's default, READ    *)
(* COMMITTED, so an action is one statement: it sees what is committed     *)
(* when it starts plus its own transaction's writes, and waits for a row   *)
(* that another transaction has written and not yet committed.  A          *)
(* transaction that writes one row once is a single action.  At most one   *)
(* scan runs at a time (SyncJobs!OneJobAtATime); edits and removals are    *)
(* concurrent.  Tags are left out but for one bit of a job's defaults;     *)
(* titles are never empty.                                                 *)
(***************************************************************************)
EXTENDS Integers, FiniteSets

CONSTANTS
  Link,        \* bound: identifiers of the rows there will ever be
  Host,        \* lower-case host names
  Category,    \* categories, all there at the start
  Message,     \* messages a scan may deliver, again and again
  HostsOf,     \* Message -> the hosts of its URLs
  SentAt,      \* Message -> the second it was sent
  Defaults,    \* defaults of the jobs: a category or none, tags or no tags
  Editor,      \* concurrent PATCH /links/:id requests
  Patches,     \* what those requests may ask for
  Null,        \* no value: no row, no category, no message
  Keep         \* a field the request does not carry

OrganizationStatus == {"PENDING", "ORGANIZED"}

ASSUME LinksAssumption ==
  /\ Null \notin Link \union Host \union Category \union Message
  /\ Keep \notin Host \union Category \union OrganizationStatus \union {Null}
  /\ Category \intersect {"scan", "nobody"} = {}
  /\ HostsOf \in [Message -> SUBSET Host]
  /\ SentAt \in [Message -> Nat]
  /\ Defaults \subseteq [category : Category \union {Null}, tags : BOOLEAN]
  /\ Patches \subseteq [category : Category \union {Null, Keep},
                        status : OrganizationStatus \union {Keep},
                        host : Host \union {Keep}]

VARIABLES
  (* committed *)
  row,         \* Link -> its row or Null; host and from stand for url: whose
               \* host it has and which message gave it, Null if an administrator
  sources,     \* <<link, message>> with a LinkSource row
  categories,  \* the categories that exist
  (* uncommitted *)
  holder,      \* Link -> the transaction that has written the row: the scan,
               \* the removal of a category, or nobody
  draft,       \* Link -> the row as its holder has written it
  newSources,  \* the scan's LinkSource rows
  pinned,      \* links whose key the scan's new sources share-lock
  (* the parties *)
  scan,        \* where persistMessage is, and its local variables
  edit,        \* Editor -> what update() has read and is about to write
  removal,     \* Category -> the next statement of its removal
  (* history *)
  edited       \* links that update() has written

sourceVars == <<sources, newSources, pinned>>
lockVars   == <<holder, draft>>
vars == <<row, categories, sourceVars, lockVars, scan, edit, removal, edited>>

MaybeCategory == Category \union {Null}
Row == [domain : Host, host : Host, from : Message \union {Null},
        category : MaybeCategory, status : OrganizationStatus, archived : BOOLEAN]

ASSUME RowAssumption == Null \notin Row

(* The row of a link as transaction t sees it; the links with a row. *)
View(t, l) == IF holder[l] = t THEN draft[l] ELSE row[l]
Made == {l \in Link : row[l] # Null}

(* t may write the row without waiting. *)
Free(t, l) == holder[l] \in {t, "nobody"}

(* The foreign key Link.categoryId: checked when the column changes. *)
ForeignKey(old, new) == new = old \/ new \in categories \union {Null}

(* The unique index on Link.domain, for a row other than l. *)
Taken(h, l) == \E k \in Made \ {l} : row[k].domain = h

(* An insert of h that is not committed makes a second one wait. *)
Awaited(h) == \E k \in Link \ Made : holder[k] = "scan" /\ draft[k].domain = h

Write(t, l, r) ==
  /\ Free(t, l)
  /\ holder' = [holder EXCEPT ![l] = t]
  /\ draft' = [draft EXCEPT ![l] = r]

Release(t) ==
  /\ holder' = [l \in Link |-> IF holder[l] = t THEN "nobody" ELSE holder[l]]
  /\ draft' = [l \in Link |-> IF holder[l] = t THEN Null ELSE draft[l]]

Commit(t) == row' = [l \in Link |-> View(t, l)] /\ Release(t)

Rollback(t) == Release(t) /\ UNCHANGED row

-----------------------------------------------------------------------------
(* persistMessage: lines 311-470, one transaction per message. *)

Continue(pc) == scan' = [scan EXCEPT !.pc = pc]

Idle == [pc |-> "idle", message |-> Null, todo |-> {}, host |-> Null, link |-> Null,
         category |-> Null, defaults |-> [category |-> Null, tags |-> FALSE]]

(* Lines 355-379: the transaction begins with the message. *)
ScanBegin ==
  /\ scan.pc = "idle"
  /\ \E m \in Message, d \in Defaults :
       /\ HostsOf[m] # {}
       /\ scan' = [scan EXCEPT !.pc = "find", !.message = m, !.todo = HostsOf[m],
                               !.defaults = d]
  /\ UNCHANGED <<row, categories, sourceVars, lockVars, edit, removal, edited>>

(* Lines 408-411: the defaults go to links that are still to be organized. *)
WantsDefaults(r, d) ==
  /\ ~r.archived
  /\ r.status = "PENDING"
  /\ d.category # Null \/ d.tags

(* Lines 385-388, 406-412: the link of the next host is looked up. *)
ScanFind ==
  /\ scan.pc = "find"
  /\ \E h \in scan.todo :
       LET found == {l \in Link : View("scan", l) # Null /\ View("scan", l).domain = h}
       IN \/ \E l \in found :
               scan' = [scan EXCEPT
                 !.host = h, !.todo = scan.todo \ {h}, !.link = l,
                 !.category = View("scan", l).category,
                 !.pc = IF WantsDefaults(View("scan", l), scan.defaults)
                        THEN "apply" ELSE "source"]
          \/ /\ found = {}
             /\ scan' = [scan EXCEPT !.host = h, !.todo = scan.todo \ {h},
                                     !.pc = "create"]
  /\ UNCHANGED <<row, categories, sourceVars, lockVars, edit, removal, edited>>

(* Lines 389-405.  A host that somebody else has inserted meanwhile, or a  *)
(* default category that is gone, aborts the transaction (ScanAbort).      *)
ScanCreate ==
  /\ scan.pc = "create"
  /\ ForeignKey(Null, scan.defaults.category)
  /\ \E l \in Link \ Made :
       /\ ~Taken(scan.host, l) /\ draft[l] = Null
       /\ Write("scan", l, [domain |-> scan.host, host |-> scan.host,
                            from |-> scan.message,
                            category |-> scan.defaults.category,
                            status |-> "PENDING", archived |-> FALSE])
       /\ scan' = [scan EXCEPT !.link = l, !.pc = "source"]
  /\ UNCHANGED <<row, categories, sourceVars, edit, removal, edited>>

(* Line 420: link.categoryId ?? job.defaultCategoryId, of the row as it    *)
(* was when it was looked up.                                              *)
Defaulted(category, d) == IF category # Null THEN category ELSE d.category

(* Lines 417-428. *)
ScanApply ==
  /\ scan.pc = "apply"
  /\ LET l == scan.link
         r == View("scan", l)
         c == Defaulted(scan.category, scan.defaults)
     IN /\ ForeignKey(r.category, c)
        /\ Write("scan", l, [r EXCEPT !.category = c])
  /\ Continue("source")
  /\ UNCHANGED <<row, categories, sourceVars, edit, removal, edited>>

(* Lines 432-450: a new source shares a lock on the link's key. *)
ScanSource ==
  /\ scan.pc = "source"
  /\ LET s == <<scan.link, scan.message>>
     IN /\ newSources' = newSources \union {s}
        /\ pinned' = IF s \in sources \union newSources THEN pinned
                                                        ELSE pinned \union {scan.link}
  /\ Continue("newest")
  /\ UNCHANGED <<row, categories, sources, lockVars, edit, removal, edited>>

(* Lines 451-457: is there a source that was sent later?  Mutant: the last *)
(* message that was scanned wins.                                          *)
NewerNever(l, m) == FALSE

Newer(l, m) ==
  \E n \in Message : <<l, n>> \in sources \union newSources /\ SentAt[n] > SentAt[m]

ScanNewest ==
  /\ scan.pc = "newest"
  /\ Continue(IF Newer(scan.link, scan.message) THEN "find" ELSE "url")
  /\ UNCHANGED <<row, categories, sourceVars, lockVars, edit, removal, edited>>

(* Lines 458-466. *)
ScanUrl ==
  /\ scan.pc = "url"
  /\ Write("scan", scan.link, [View("scan", scan.link) EXCEPT
                                 !.host = scan.host, !.from = scan.message])
  /\ Continue("find")
  /\ UNCHANGED <<row, categories, sourceVars, edit, removal, edited>>

ScanCommit ==
  /\ scan.pc = "find"
  /\ scan.todo = {}
  /\ Commit("scan")
  /\ sources' = sources \union newSources
  /\ newSources' = {} /\ pinned' = {}
  /\ scan' = Idle
  /\ UNCHANGED <<categories, edit, removal, edited>>

(* A statement fails (a constraint, a deadlock, the connection) or the     *)
(* process dies: the transaction leaves nothing behind.                    *)
ScanAbort ==
  /\ scan.pc # "idle"
  /\ Rollback("scan")
  /\ newSources' = {} /\ pinned' = {}
  /\ scan' = Idle
  /\ UNCHANGED <<categories, sources, edit, removal, edited>>

-----------------------------------------------------------------------------
(* LinksService. *)

(* Lines 554-559. *)
CanOrganize(next) == next.status = "ORGANIZED" => next.category # Null

(* create(), lines 122-180.  Its look-ups only refuse what the constraints *)
(* of the insert refuse as well.                                           *)
CreateLink ==
  /\ \E l \in Link \ Made, h \in Host, c \in categories \union {Null},
        s \in OrganizationStatus :
       /\ holder[l] = "nobody"
       /\ ~Taken(h, l) /\ ~Awaited(h)
       /\ CanOrganize([category |-> c, status |-> s])
       /\ row' = [row EXCEPT ![l] = [domain |-> h, host |-> h, from |-> Null,
                                     category |-> c, status |-> s, archived |-> FALSE]]
  /\ UNCHANGED <<categories, sourceVars, lockVars, scan, edit, removal, edited>>

(* Lines 297-309: the fields that the request does not carry are filled in *)
(* from the row as it was read.                                            *)
Merged(r, p) ==
  [category |-> IF p.category = Keep THEN r.category ELSE p.category,
   status   |-> IF p.status = Keep THEN r.status ELSE p.status,
   host     |-> IF p.host = Keep THEN r.host ELSE p.host,
   from     |-> IF p.host = Keep THEN r.from ELSE Null]

(* update(), lines 276-314: everything before the transaction.  A refused  *)
(* request changes nothing; what the look-ups refuse, the constraints of   *)
(* the write refuse as well.                                               *)
EditRead(e) ==
  /\ edit[e] = Null
  /\ \E l \in Made, p \in Patches :
       LET next == Merged(row[l], p)
       IN /\ CanOrganize(next)
          /\ edit' = [edit EXCEPT ![e] = [link |-> l, next |-> next, domain |-> p.host]]
  /\ UNCHANGED <<row, categories, sourceVars, lockVars, scan, removal, edited>>

(* The row update() writes (316-327): all of its columns but archivedAt,   *)
(* and domain only if the request carried a URL.  Mutant: domain always.   *)
RewrittenDomain(r, next, domain) ==
  [domain |-> domain, host |-> next.host, from |-> next.from,
   category |-> next.category, status |-> next.status, archived |-> r.archived]

Rewritten(r, next, domain) ==
  [domain |-> IF domain = Keep THEN r.domain ELSE domain,
   host |-> next.host, from |-> next.from, category |-> next.category,
   status |-> next.status, archived |-> r.archived]

(* Lines 315-336. *)
EditWrite(e) ==
  /\ edit[e] # Null
  /\ LET l == edit[e].link
         d == edit[e].domain
         r == Rewritten(row[l], edit[e].next, d)
     IN /\ holder[l] = "nobody"
        /\ r.domain # row[l].domain =>
             l \notin pinned /\ ~Awaited(d) /\ ~Taken(d, l)
        /\ ForeignKey(row[l].category, r.category)
        /\ row' = [row EXCEPT ![l] = r]
        /\ edited' = edited \union {l}
  /\ edit' = [edit EXCEPT ![e] = Null]
  /\ UNCHANGED <<categories, sourceVars, lockVars, scan, removal>>

(* The request is refused or fails, or the process dies. *)
EditDrop(e) ==
  /\ edit[e] # Null
  /\ edit' = [edit EXCEPT ![e] = Null]
  /\ UNCHANGED <<row, categories, sourceVars, lockVars, scan, removal, edited>>

(* archive() and batchArchive(): lines 380-425. *)
Archive ==
  /\ \E S \in SUBSET Made :
       /\ \A l \in S : holder[l] = "nobody"
       /\ row' = [l \in Link |-> IF l \in S THEN [row[l] EXCEPT !.archived = TRUE]
                                            ELSE row[l]]
  /\ UNCHANGED <<categories, sourceVars, lockVars, scan, edit, removal, edited>>

(* Lines 427-434. *)
Restore ==
  /\ \E l \in Made :
       /\ holder[l] = "nobody"
       /\ row' = [row EXCEPT ![l].archived = FALSE]
  /\ UNCHANGED <<categories, sourceVars, lockVars, scan, edit, removal, edited>>

-----------------------------------------------------------------------------
(* TaxonomyService.remove('categories', c): lines 160-191. *)

(* updateMany: the rows of S become f of what the transaction sees.  It    *)
(* waits for every one of them; a row that comes to match while it waits   *)
(* for another is one that comes to match after it.                        *)
UpdateMany(t, S, f) ==
  /\ \A l \in S : Free(t, l)
  /\ holder' = [l \in Link |-> IF l \in S THEN t ELSE holder[l]]
  /\ draft' = [l \in Link |-> IF l \in S THEN f[l] ELSE draft[l]]

Step(c, pc) == removal' = [removal EXCEPT ![c] = pc]

(* Lines 162-177: its links are archived. *)
RemoveArchive(c) ==
  /\ removal[c] = "idle" /\ c \in categories
  /\ UpdateMany(c, {l \in Made : row[l].category = c /\ ~row[l].archived},
                [l \in Made |-> [row[l] EXCEPT !.archived = TRUE]])
  /\ Step(c, "clear")
  /\ UNCHANGED <<row, categories, sourceVars, scan, edit, edited>>

(* Mutant of Cleared: the status is left as it was. *)
ClearedOrganized(r) == [r EXCEPT !.category = Null]

Cleared(r) == [r EXCEPT !.category = Null, !.status = "PENDING"]

(* Lines 178-184: its links lose it and their status. *)
RemoveClear(c) ==
  /\ removal[c] = "clear"
  /\ UpdateMany(c, {l \in Made : View(c, l).category = c},
                [l \in Made |-> Cleared(View(c, l))])
  /\ Step(c, "delete")
  /\ UNCHANGED <<row, categories, sourceVars, scan, edit, edited>>

(* Line 185 and the commit.  A link that took the category after           *)
(* RemoveClear makes the deletion fail; one that is about to, wait.        *)
RemoveDelete(c) ==
  /\ removal[c] = "delete"
  /\ \A l \in Link : holder[l] \notin {c, "nobody"} => draft[l].category # c
  /\ \A l \in Made : View(c, l).category # c
  /\ categories' = categories \ {c}
  /\ Commit(c)
  /\ Step(c, "idle")
  /\ UNCHANGED <<sourceVars, scan, edit, edited>>

RemoveAbort(c) ==
  /\ removal[c] # "idle"
  /\ Rollback(c)
  /\ Step(c, "idle")
  /\ UNCHANGED <<categories, sourceVars, scan, edit, edited>>

-----------------------------------------------------------------------------
Init ==
  /\ row = [l \in Link |-> Null]
  /\ sources = {}
  /\ categories = Category
  /\ holder = [l \in Link |-> "nobody"]
  /\ draft = [l \in Link |-> Null]
  /\ newSources = {}
  /\ pinned = {}
  /\ scan = Idle
  /\ edit = [e \in Editor |-> Null]
  /\ removal = [c \in Category |-> "idle"]
  /\ edited = {}

Scan ==
  \/ ScanBegin \/ ScanFind \/ ScanCreate \/ ScanApply \/ ScanSource \/ ScanNewest
  \/ ScanUrl \/ ScanCommit \/ ScanAbort

Remove(c) == RemoveArchive(c) \/ RemoveClear(c) \/ RemoveDelete(c) \/ RemoveAbort(c)

Next ==
  \/ Scan
  \/ CreateLink \/ Archive \/ Restore
  \/ \E e \in Editor : EditRead(e) \/ EditWrite(e) \/ EditDrop(e)
  \/ \E c \in Category : Remove(c)

Spec == Init /\ [][Next]_vars

-----------------------------------------------------------------------------
ScanLocals ==
  [pc : {"idle", "find", "create", "apply", "source", "newest", "url"},
   message : Message \union {Null}, todo : SUBSET Host, host : Host \union {Null},
   link : Link \union {Null}, category : MaybeCategory,
   defaults : [category : MaybeCategory, tags : BOOLEAN]]

Patched == [category : MaybeCategory, status : OrganizationStatus, host : Host,
          from : Message \union {Null}]

TypeOK ==
  /\ row \in [Link -> Row \union {Null}]
  /\ sources \subseteq Link \X Message
  /\ categories \subseteq Category
  /\ holder \in [Link -> Category \union {"scan", "nobody"}]
  /\ draft \in [Link -> Row \union {Null}]
  /\ newSources \subseteq Link \X Message
  /\ pinned \subseteq Link
  /\ scan \in ScanLocals
  /\ edit \in [Editor -> [link : Link, next : Patched, domain : Host \union {Keep}]
                          \union {Null}]
  /\ removal \in [Category -> {"idle", "clear", "delete"}]
  /\ edited \subseteq Link

(* "ORGANIZED requires ... a category" (apps/server/README.md).  The rule  *)
(* is checked by update() and create() on what they are about to write,    *)
(* while scans write categories, and removals of categories take them      *)
(* away, in transactions of their own.                                     *)
OrganizedHasCategory == \A l \in Made : CanOrganize(row[l])

(* When jobs that have default tags have a default category as well, what  *)
(* a scan writes at line 420 is never null.                                *)
DefaultsHaveCategory == \A d \in Defaults : d.tags => d.category # Null

(* Scans deliver messages newest first, again and again, and may roll      *)
(* back: unless an administrator has edited the link, its URL comes from a *)
(* source that no other source of the link is newer than.                  *)
NewestUnlessEdited ==
  \A l \in Made \ edited :
    LET from == {m \in Message : <<l, m>> \in sources}
    IN from # {} => /\ row[l].from \in from
                    /\ \A m \in from : SentAt[m] <= SentAt[row[l].from]

(* "Each host name has one Link" (README.md): no two links' URLs have the  *)
(* same host.  The unique index is on domain, which update() and the scan  *)
(* write in other statements, from other reads, than url.                  *)
OneLinkPerHost == \A k, l \in Made : row[k].host = row[l].host => k = l

(* "After the removal these links are archived, lose the category and go   *)
(* back to pending" (taxonomy-view.tsx): the links that have the category  *)
(* when its removal commits are archived by it.                            *)
RemovalArchives ==
  [][\A c \in categories \ categories', l \in Made :
       row[l].category = c => row'[l].archived]_vars
=============================================================================
