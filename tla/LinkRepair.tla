------------------------------ MODULE LinkRepair ------------------------------
(***************************************************************************)
(* The repair of links whose URLs were stored before Han characters were   *)
(* cut off (apps/server/scripts/repair-chinese-telegram-urls.mjs): a       *)
(* script beside the running server, one READ COMMITTED transaction of     *)
(* many statements, an action each.  Two statements are one action where   *)
(* the second only touches what the first has locked.                      *)
(*                                                                         *)
(* Administrators edit links and a scan may start meanwhile; each of their *)
(* transactions is one action here (Links has their steps) and waits for   *)
(* the rows that the repair has locked.  `category` stands for purpose and *)
(* title as well, which are filled in by the same rule, and `first` for    *)
(* firstDiscoveredAt and createdAt.                                        *)
(***************************************************************************)
EXTENDS Integers, FiniteSets, FiniteSetsExt

CONSTANTS
  Link,        \* bound: identifiers of the Link rows there will ever be
  MaxSource,   \* bound: LinkSource rows 1..MaxSource, in the order of createdAt, id
  Message, Job, Host, Category, Tag,
  Url,         \* normalized URLs
  Dirty,       \* raw URLs with a Han character
  StoredAs,    \* Dirty -> the normalized URL that used to be stored for it
  CleanOf,     \* Dirty -> the normalized URL of what comes before Han, or Null
  HostOf,      \* Url -> its host
  SentAt,      \* Message -> the second it was sent
  LinkOf,      \* Host -> the link it has before the repair, if it has one
  Histories,   \* the sources the scans may have stored before the repair
  Organized,   \* what administrators may have made of a link before the repair
  MaxRuns,     \* bound: repairs
  MaxOthers,   \* bound: edits and messages scanned, before and beside them
  Null

Source == 1..MaxSource
Raw == Dirty \union Url   \* a raw URL without Han stands for what it normalizes to
OrganizationStatus == {"PENDING", "ORGANIZED"}
Organization == [category : Category \union {Null}, status : OrganizationStatus,
                 archived : BOOLEAN, first : Nat, tags : SUBSET Tag]
Row == [domain : Host, url : Url, category : Category \union {Null},
        status : OrganizationStatus, archived : BOOLEAN, first : Nat, tags : SUBSET Tag]
SourceRow == [link : Link, message : Message, raw : Raw, url : Url,
              job : Job \union {Null}]

ASSUME RepairAssumption ==
  /\ MaxSource \in Nat /\ IsFiniteSet(Link) /\ IsFiniteSet(Message)
  /\ Null \notin Link \union Host \union Category \union Url \union Job
  /\ Null \notin Row \union SourceRow
  /\ Dirty \intersect Url = {}
  /\ StoredAs \in [Dirty -> Url] /\ CleanOf \in [Dirty -> Url \union {Null}]
  /\ HostOf \in [Url -> Host] /\ SentAt \in [Message -> Nat]
  /\ LinkOf \in [Host -> Link] /\ \A g, h \in Host : LinkOf[g] = LinkOf[h] => g = h
  /\ \A f \in Histories : \E n \in 0..MaxSource :
       f \in [1..n -> [message : Message, raw : Raw, job : Job \union {Null}]]
  /\ Organized \subseteq Organization
  /\ \A o \in Organized : o.status = "ORGANIZED" => o.category # Null
  /\ MaxRuns \in Nat /\ MaxOthers \in Nat

(* What cleaning leaves of one raw URL is not what used to be stored for   *)
(* another that cleaning changes: nobody writes both the percent-encoded   *)
(* form of a Han character and that form followed by one more, in one      *)
(* message.  Without it SourcesArePlaced depends on the order of the rows. *)
ASSUME SettledAssumption ==
  \A d, e \in Dirty : CleanOf[d] = StoredAs[e] => CleanOf[e] = StoredAs[e]

VARIABLES
  row, sources,             \* Link and LinkSource as committed
  draft, draftSources,      \* the same as the repair's transaction sees them
  locked,                   \* links the repair has locked
  totals,                   \* Job -> SyncJob's counters, as last recomputed
  repair,                   \* where run() of the script is, and its local variables
  scanning,                 \* is a job QUEUED or RUNNING?
  runs, others,             \* how much of the bounds is used
  edited, stored            \* links that an edit wrote; that a scan wrote
                            \* while the repair was running

linkVars == <<row, sources, draft, draftSources>>
worldVars == <<scanning, others, edited, stored>>
vars == <<linkVars, locked, totals, repair, worldVars, runs>>

(* The normalized URL that used to be stored for a raw one. *)
Stored(raw) == IF raw \in Dirty THEN StoredAs[raw] ELSE raw

SourcesAt(S, l) == {s \in Source : S[s] # Null /\ S[s].link = l}

(* The links of host h that the repair sees: at most one. *)
Found(h) == {l \in Link : draft[l] # Null /\ draft[l].domain = h}

Idle == [pc |-> "idle", rows |-> [l \in Link |-> Null],
         sources |-> [s \in Source |-> Null], todo |-> {}, emptied |-> {},
         touched |-> {}, merged |-> {}, source |-> 0, target |-> Null, url |-> Null]

-----------------------------------------------------------------------------
(* Lines 338-352: BEGIN and the refusal while a job is active. *)
Begin ==
  /\ repair.pc = "idle"
  /\ runs < MaxRuns
  /\ ~scanning
  /\ runs' = runs + 1
  /\ repair' = [Idle EXCEPT !.pc = "read"]
  /\ UNCHANGED <<linkVars, locked, totals, worldVars>>

(* Lines 354-379: every source is read with its link, once, and those with *)
(* a Han character in them are to be done in the order of their creation.  *)
Read ==
  /\ repair.pc = "read"
  /\ LET affected == {s \in Source : sources[s] # Null /\ sources[s].raw \in Dirty}
         theirs == {sources[s].link : s \in affected}
     IN repair' = [repair EXCEPT !.pc = "next", !.rows = row, !.sources = sources,
                                 !.todo = affected, !.emptied = theirs, !.touched = theirs]
  /\ UNCHANGED <<linkVars, locked, totals, worldVars, runs>>

(* Lines 387-409: the next source is locked; one with no valid URL left,   *)
(* or gone, is deleted.                                                    *)
Take ==
  /\ repair.pc = "next"
  /\ \E s \in repair.todo :
       /\ \A t \in repair.todo : s <= t
       /\ IF draftSources[s] = Null \/ CleanOf[repair.sources[s].raw] = Null
          THEN /\ draftSources' = [draftSources EXCEPT ![s] = Null]
               /\ repair' = [repair EXCEPT !.todo = @ \ {s}]
          ELSE /\ repair' = [repair EXCEPT !.pc = "find", !.todo = @ \ {s}, !.source = s]
               /\ UNCHANGED draftSources
  /\ UNCHANGED <<row, sources, draft, locked, totals, worldVars, runs>>

CleanUrl == CleanOf[repair.sources[repair.source].raw]
OldLink == repair.sources[repair.source].link

(* ensureTargetLink, lines 187-204: the link of the clean host is locked.  *)
(* It is merged with once per link that its sources come from.             *)
Find ==
  /\ repair.pc = "find"
  /\ IF Found(HostOf[CleanUrl]) = {}
     THEN /\ repair' = [repair EXCEPT !.pc = "clone"]
          /\ UNCHANGED locked
     ELSE \E l \in Found(HostOf[CleanUrl]) :
            /\ locked' = locked \union {l}
            /\ repair' = [repair EXCEPT
                 !.target = l, !.touched = @ \union {l},
                 !.pc = IF l = OldLink \/ <<OldLink, l>> \in repair.merged
                        THEN "place" ELSE "merge"]
  /\ UNCHANGED <<linkVars, totals, worldVars, runs>>

(* cloneLink, lines 125-154, from the row as it was read and its tags as   *)
(* they are.  A host that somebody else has taken meanwhile makes the      *)
(* insert fail (Abort).                                                    *)
Clone ==
  /\ repair.pc = "clone"
  /\ Found(HostOf[CleanUrl]) = {}
  /\ \E l \in Link :
       /\ draft[l] = Null
       /\ draft' = [draft EXCEPT ![l] =
            [repair.rows[OldLink] EXCEPT !.domain = HostOf[CleanUrl], !.url = CleanUrl,
                                         !.tags = draft[OldLink].tags]]
       /\ locked' = locked \union {l}
       /\ repair' = [repair EXCEPT !.pc = "place", !.target = l,
                                   !.touched = @ \union {l}]
  /\ UNCHANGED <<row, sources, draftSources, totals, worldVars, runs>>

Coalesce(a, b) == IF a # Null THEN a ELSE b

(* Mutants of Merged: the status of the target wins; so does its category. *)
MergedStatus(target, source) ==
  [target EXCEPT !.category = Coalesce(target.category, source.category),
                 !.archived = target.archived /\ source.archived,
                 !.first = Min({target.first, source.first})]

MergedCategory(target, source) ==
  [target EXCEPT !.status = IF source.status = "ORGANIZED" THEN "ORGANIZED" ELSE @,
                 !.archived = target.archived /\ source.archived,
                 !.first = Min({target.first, source.first})]

(* mergedMetadata, lines 70-102. *)
Merged(target, source) ==
  LET preferred == source.status = "ORGANIZED" /\ target.status # "ORGANIZED"
  IN [target EXCEPT
        !.category = IF preferred THEN Coalesce(source.category, target.category)
                                  ELSE Coalesce(target.category, source.category),
        !.status = IF preferred THEN "ORGANIZED" ELSE target.status,
        !.archived = target.archived /\ source.archived,
        !.first = Min({target.first, source.first})]

(* mergeLink, lines 156-185: the target as it is, the old link as it was   *)
(* read, its tags as they are.                                             *)
Merge ==
  /\ repair.pc = "merge"
  /\ LET l == repair.target
         merged == Merged(draft[l], repair.rows[OldLink])
     IN draft' = [draft EXCEPT ![l] =
                    [merged EXCEPT !.tags = @ \union draft[OldLink].tags]]
  /\ repair' = [repair EXCEPT !.pc = "place",
                              !.merged = @ \union {<<OldLink, repair.target>>}]
  /\ UNCHANGED <<row, sources, draftSources, locked, totals, worldVars, runs>>

(* Lines 419-464: the source moves to the target with its clean URLs,      *)
(* unless the target has a source of that message and URL already; that    *)
(* one is cleaned, and this one deleted.                                   *)
Place ==
  /\ repair.pc = "place"
  /\ LET s == repair.source
         m == repair.sources[s].message
         same == {t \in SourcesAt(draftSources, repair.target) \ {s} :
                    draftSources[t].message = m /\ draftSources[t].url = CleanUrl}
     IN draftSources' =
          IF same = {}
          THEN [draftSources EXCEPT ![s].link = repair.target, ![s].raw = CleanUrl,
                                    ![s].url = CleanUrl]
          ELSE [t \in Source |-> IF t = s THEN Null
                                 ELSE IF t \in same /\ draftSources[t].raw \in Dirty
                                 THEN [draftSources[t] EXCEPT !.raw = CleanUrl]
                                 ELSE draftSources[t]]
  /\ repair' = [repair EXCEPT !.pc = "next"]
  /\ UNCHANGED <<row, sources, draft, locked, totals, worldVars, runs>>

(* Mutant of Orphaned: the NOT EXISTS is left out. *)
OrphanedAlways(l) == TRUE

Orphaned(l) == SourcesAt(draftSources, l) = {}

(* Lines 467-482: a link that lost its sources is deleted, and what is     *)
(* left of them with it (ON DELETE CASCADE).                               *)
Empty ==
  /\ repair.pc = "next" /\ repair.todo = {}
  /\ \E l \in repair.emptied :
       /\ IF Orphaned(l)
          THEN /\ draft' = [draft EXCEPT ![l] = Null]
               /\ draftSources' = [s \in Source |->
                    IF s \in SourcesAt(draftSources, l) THEN Null ELSE draftSources[s]]
               /\ locked' = locked \union {l}
          ELSE UNCHANGED <<draft, draftSources, locked>>
       /\ repair' = [repair EXCEPT !.emptied = @ \ {l}]
  /\ UNCHANGED <<row, sources, totals, worldVars, runs>>

(* Mutant of Newer: by the creation of the row only. *)
NewerRow(S, s, t) == s > t

(* ORDER BY sentAt DESC, createdAt DESC, id DESC. *)
Newer(S, s, t) ==
  \/ SentAt[S[s].message] > SentAt[S[t].message]
  \/ SentAt[S[s].message] = SentAt[S[t].message] /\ s > t

(* recomputeMainUrl, lines 207-222: the newest source of a touched link is *)
(* read.                                                                   *)
Latest ==
  /\ repair.pc = "next" /\ repair.todo = {} /\ repair.emptied = {}
  /\ \E l \in repair.touched :
       LET its == SourcesAt(draftSources, l)
       IN \/ /\ its = {}
             /\ repair' = [repair EXCEPT !.touched = @ \ {l}]
          \/ \E s \in its :
               /\ \A t \in its \ {s} : Newer(draftSources, s, t)
               /\ repair' = [repair EXCEPT !.pc = "url", !.touched = @ \ {l},
                                           !.target = l, !.url = draftSources[s].url]
  /\ UNCHANGED <<linkVars, locked, totals, worldVars, runs>>

(* Lines 223-229: its URL becomes the link's. *)
WriteUrl ==
  /\ repair.pc = "url"
  /\ draft' = [draft EXCEPT ![repair.target].url = repair.url]
  /\ locked' = locked \union {repair.target}
  /\ repair' = [repair EXCEPT !.pc = "next"]
  /\ UNCHANGED <<row, sources, draftSources, totals, worldVars, runs>>

(* Mutant of FoundCount: messages are counted, not links in messages. *)
FoundMessages(S, j) ==
  Cardinality({S[s].message : s \in {t \in Source : S[t] # Null /\ S[t].job = j}})

FoundCount(S, j) ==
  Cardinality({<<S[s].link, S[s].message>> :
                 s \in {t \in Source : S[t] # Null /\ S[t].job = j}})

(* The links whose first source is of job j. *)
NewCount(S, j) ==
  Cardinality({l \in Link : SourcesAt(S, l) # {} /\ S[Min(SourcesAt(S, l))].job = j})

(* Mutant of DuplicateCount: the operands are swapped. *)
DuplicateSwapped(found, new) == new - found

DuplicateCount(found, new) == Max({found - new, 0})

(* recomputeSyncStatistics, lines 231-309.  A message belongs to one chat, *)
(* so the sums over the chats of a job are counts over the job.            *)
Statistics(S) ==
  [j \in Job |-> [found |-> FoundCount(S, j), new |-> NewCount(S, j),
                  duplicate |-> DuplicateCount(FoundCount(S, j), NewCount(S, j))]]

(* Every statement but the statistics has run. *)
Ready ==
  /\ repair.pc = "next"
  /\ repair.todo = {} /\ repair.emptied = {} /\ repair.touched = {}

(* Lines 484-493. *)
Commit ==
  /\ Ready
  /\ row' = draft /\ sources' = draftSources
  /\ totals' = Statistics(draftSources)
  /\ locked' = {}
  /\ repair' = Idle
  /\ UNCHANGED <<draft, draftSources, worldVars, runs>>

(* ROLLBACK (510-512): a statement failed, or the script was stopped. *)
Abort ==
  /\ repair.pc # "idle"
  /\ draft' = row /\ draftSources' = sources
  /\ locked' = {}
  /\ repair' = Idle
  /\ UNCHANGED <<row, sources, totals, worldVars, runs>>

-----------------------------------------------------------------------------
(* The administrators: LinksService, a transaction that writes one row. *)
CanOrganize(r) == r.status = "ORGANIZED" => r.category # Null

Edit(l, r) ==
  /\ others < MaxOthers /\ others' = others + 1
  /\ l \notin locked
  /\ CanOrganize(r)
  /\ row' = [row EXCEPT ![l] = r] /\ draft' = [draft EXCEPT ![l] = r]
  /\ edited' = edited \union {l}
  /\ UNCHANGED <<sources, draftSources, locked, totals, repair, scanning, stored, runs>>

Organize ==
  \E l \in Link, c \in Category \union {Null}, s \in OrganizationStatus :
    row[l] # Null /\ Edit(l, [row[l] EXCEPT !.category = c, !.status = s])

Archive ==
  \E l \in Link : row[l] # Null /\ Edit(l, [row[l] EXCEPT !.archived = ~@])

(* A new URL; the host must be nobody's, committed or not. *)
Move ==
  \E l \in Link, u \in Url :
    /\ row[l] # Null
    /\ \A k \in Link \ {l} : /\ row[k] # Null => row[k].domain # HostOf[u]
                             /\ draft[k] # Null => draft[k].domain # HostOf[u]
    /\ Edit(l, [row[l] EXCEPT !.domain = HostOf[u], !.url = u])

(* A job is created after the repair has looked, and ends. *)
ScanBegin ==
  /\ ~scanning /\ others < MaxOthers
  /\ scanning' = TRUE
  /\ UNCHANGED <<linkVars, locked, totals, repair, others, edited, stored, runs>>

ScanEnd ==
  /\ scanning
  /\ scanning' = FALSE
  /\ UNCHANGED <<linkVars, locked, totals, repair, others, edited, stored, runs>>

(* The link of host h as persistMessage finds it, or a new one. *)
ScanLink(l, u) ==
  \/ /\ row[l] # Null /\ row[l].domain = HostOf[u]
     /\ l \notin locked
  \/ /\ row[l] = Null /\ draft[l] = Null
     /\ \A k \in Link : /\ row[k] # Null => row[k].domain # HostOf[u]
                        /\ draft[k] # Null => draft[k].domain # HostOf[u]

(* The number of the next source. *)
NextSource(s) ==
  /\ \A t \in Source : t >= s => sources[t] = Null
  /\ s > 1 => sources[s - 1] # Null

(* What it stores: the row of the link, found or new, with the default     *)
(* category d of the job, if it takes one, and with the URL unless the     *)
(* link has a newer one; and the source.                                   *)
ScanRow(l, u, m, d) ==
  LET r == IF row[l] # Null THEN row[l]
           ELSE [domain |-> HostOf[u], url |-> u, category |-> Null, status |-> "PENDING",
                 archived |-> FALSE, first |-> SentAt[m], tags |-> {}]
      taken == IF r.status = "PENDING" /\ ~r.archived THEN Coalesce(r.category, d)
                                                      ELSE r.category
      newer == {t \in SourcesAt(sources, l) : SentAt[sources[t].message] > SentAt[m]}
  IN [r EXCEPT !.category = taken, !.url = IF newer = {} THEN u ELSE @]

ScanSource(l, u, m, j) == [link |-> l, message |-> m, raw |-> u, url |-> u, job |-> j]

(* persistMessage with one clean URL and no default tags, for a source     *)
(* that the link has not got; one that is there already stays as it is.    *)
ScanStore ==
  /\ scanning
  /\ others < MaxOthers /\ others' = others + 1
  /\ \E l \in Link, u \in Url, m \in Message, j \in Job, s \in Source,
        d \in Category \union {Null} :
       /\ ScanLink(l, u) /\ NextSource(s)
       /\ \A t \in SourcesAt(sources, l) :
            sources[t].message = m => sources[t].url # u
       /\ sources' = [sources EXCEPT ![s] = ScanSource(l, u, m, j)]
       /\ draftSources' = [draftSources EXCEPT ![s] = ScanSource(l, u, m, j)]
       /\ row' = [row EXCEPT ![l] = ScanRow(l, u, m, d)]
       /\ draft' = [draft EXCEPT ![l] = ScanRow(l, u, m, d)]
       /\ stored' = IF repair.pc = "idle" THEN stored ELSE stored \union {l}
  /\ UNCHANGED <<locked, totals, repair, scanning, edited, runs>>

-----------------------------------------------------------------------------
(* What the scans have stored with Han characters in it: every source on   *)
(* the link of its stored host, whose URL is that of its newest source.    *)
InitialSources(f) ==
  [s \in Source |->
     IF s \in DOMAIN f
     THEN [link |-> LinkOf[HostOf[Stored(f[s].raw)]], message |-> f[s].message,
           raw |-> f[s].raw, url |-> Stored(f[s].raw), job |-> f[s].job]
     ELSE Null]

(* The links with sources, by their hosts, with the URLs of `newest` and   *)
(* what administrators made of them.                                       *)
Linked(S) == {h \in Host : SourcesAt(S, LinkOf[h]) # {}}

InitialRow(h, url, o) ==
  [domain |-> h, url |-> url, category |-> o.category, status |-> o.status,
   archived |-> o.archived, first |-> o.first, tags |-> o.tags]

InitialRows(S, newest, o) ==
  [l \in Link |->
     IF \E h \in Linked(S) : LinkOf[h] = l
     THEN LET h == CHOOSE g \in Linked(S) : LinkOf[g] = l
          IN InitialRow(h, S[newest[h]].url, o[h])
     ELSE Null]

(* Source s is the last one stored of the newest of link l. *)
StoredLast(S, s, l) ==
  /\ s \in SourcesAt(S, l)
  /\ \A t \in SourcesAt(S, l) :
       \/ SentAt[S[t].message] < SentAt[S[s].message]
       \/ SentAt[S[t].message] = SentAt[S[s].message] /\ t <= s

Init ==
  /\ \E f \in Histories, o \in [Host -> Organized] :
       LET S == InitialSources(f)
       IN \E newest \in [Linked(S) -> DOMAIN f] :
            /\ \A s, t \in DOMAIN f :
                 /\ S[s].link = S[t].link
                 /\ S[s].message = S[t].message /\ S[s].url = S[t].url
                 => s = t
            /\ \A h \in Linked(S) : StoredLast(S, newest[h], LinkOf[h])
            /\ sources = S
            /\ row = InitialRows(S, newest, o)
  /\ draft = row /\ draftSources = sources
  /\ locked = {}
  /\ totals = [j \in Job |-> [found |-> 0, new |-> 0, duplicate |-> 0]]
  /\ repair = Idle
  /\ scanning = FALSE
  /\ runs = 0 /\ others = 0
  /\ edited = {} /\ stored = {}

Repair ==
  \/ Begin \/ Read \/ Take \/ Find \/ Clone \/ Merge \/ Place \/ Empty \/ Latest
  \/ WriteUrl \/ Commit \/ Abort

World == Organize \/ Archive \/ Move \/ ScanBegin \/ ScanEnd \/ ScanStore

Next == Repair \/ World

Spec == Init /\ [][Next]_vars

-----------------------------------------------------------------------------
Locals ==
  [pc : {"idle", "read", "next", "find", "clone", "merge", "place", "url"},
   rows : [Link -> Row \union {Null}], sources : [Source -> SourceRow \union {Null}],
   todo : SUBSET Source, emptied : SUBSET Link, touched : SUBSET Link,
   merged : SUBSET (Link \X Link), source : Source \union {0},
   target : Link \union {Null}, url : Url \union {Null}]

TypeOK ==
  /\ row \in [Link -> Row \union {Null}] /\ draft \in [Link -> Row \union {Null}]
  /\ sources \in [Source -> SourceRow \union {Null}]
  /\ draftSources \in [Source -> SourceRow \union {Null}]
  /\ locked \subseteq Link
  /\ totals \in [Job -> [found : Nat, new : Nat, duplicate : Nat]]
  /\ repair \in Locals
  /\ scanning \in BOOLEAN
  /\ runs \in 0..MaxRuns /\ others \in 0..MaxOthers
  /\ edited \subseteq Link /\ stored \subseteq Link

(* The repair loses no source and leaves none dirty, in whatever order the *)
(* rows come, hosts merge and others write: every source it read that has  *)
(* a valid URL is there, for its message, with that URL, on the link of    *)
(* its host; the others it read are as they were, and so is their link.    *)
SourcesArePlaced ==
  Ready => \A s \in Source : repair.sources[s] # Null =>
    LET old == repair.sources[s]
        clean == CleanOf[old.raw]
    IN IF old.raw \notin Dirty
       THEN draftSources[s] = old /\ draft[old.link] # Null
       ELSE clean # Null => \E t \in Source :
              /\ draftSources[t] # Null
              /\ draftSources[t].message = old.message
              /\ draftSources[t].raw = clean /\ draftSources[t].url = clean
              /\ draftSources[t].link \in Found(HostOf[clean])

(* `new` has what administrators made of `old`: it is organized,           *)
(* categorized, in use, tagged and as old if that one is.                  *)
Keeps(old, new) ==
  /\ old.status = "ORGANIZED" => new.status = "ORGANIZED"
  /\ old.category # Null => new.category # Null
  /\ ~old.archived => ~new.archived
  /\ old.tags \subseteq new.tags
  /\ new.first <= old.first

(* A link whose sources go elsewhere, and which may be deleted, takes what *)
(* administrators had made of it when the repair read it along to each     *)
(* link they go to, merged or new.                                         *)
OrganizationIsKept ==
  Ready => \A s \in Source :
    repair.sources[s] # Null /\ repair.sources[s].raw \in Dirty =>
      LET l == repair.sources[s].link
          clean == CleanOf[repair.sources[s].raw]
      IN clean # Null => \A k \in Found(HostOf[clean]) \ {l} :
           Keeps(repair.rows[l], draft[k])

(* "ORGANIZED requires ... a category" (apps/server/README.md), also of a  *)
(* link made of two that differ in both, one of them as it was a while ago.*)
OrganizedHasCategory == \A l \in Link : row[l] # Null => CanOrganize(row[l])

(* The URL of a link is that of a source that none of its sources is newer *)
(* than, also for links that lost or won sources, unless an administrator  *)
(* gave it, or a scan wrote the link behind the back of the repair.        *)
MainUrlIsNewest ==
  \A l \in Link \ (edited \union stored) : row[l] # Null /\ SourcesAt(sources, l) # {} =>
    \E s \in SourcesAt(sources, l) :
      /\ row[l].url = sources[s].url
      /\ \A t \in SourcesAt(sources, l) :
           SentAt[sources[t].message] <= SentAt[sources[s].message]

(* The statistics of a job add up as those that a run writes do            *)
(* (SyncJobs!CountersAreTrue), without being cut off at zero.              *)
StatisticsAddUp ==
  \A j \in Job : totals[j].found = totals[j].new + totals[j].duplicate
=============================================================================
