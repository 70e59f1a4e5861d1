--------------------------- MODULE LinkRepairProofs ---------------------------
(***************************************************************************)
(* The repair of LinkRepair loses no source and nothing administrators     *)
(* made of a link, for every history, any number of links and sources, and *)
(* any edits and scans beside it.                                          *)
(***************************************************************************)
EXTENDS LinkRepair, Inductions

(* The types of everything but the counters. *)
Typed ==
  /\ row \in [Link -> Row \union {Null}]
  /\ draft \in [Link -> Row \union {Null}]
  /\ sources \in [Source -> SourceRow \union {Null}]
  /\ draftSources \in [Source -> SourceRow \union {Null}]
  /\ locked \subseteq Link
  /\ repair \in Locals

(* No source without its link; a source has the URL that is stored for its *)
(* raw one.                                                                *)
Rooted(S, R) == \A s \in Source : S[s] # Null => R[S[s].link] # Null
Plain(S) == \A s \in Source : S[s] # Null => S[s].url = Stored(S[s].raw)

Consistent ==
  /\ Rooted(sources, row) /\ Rooted(draftSources, draft)
  /\ Plain(sources) /\ Plain(draftSources)

(* No two links of a host, committed or as the repair sees them. *)
Unique(R) == \A k, l \in Link :
  R[k] # Null /\ R[l] # Null /\ R[k].domain = R[l].domain => k = l

Hosts == Unique(row) /\ Unique(draft)

(* How the transaction differs from what is committed. *)
Beside ==
  /\ \A l \in Link \ locked : draft[l] = row[l]
  /\ \A s \in Source : draftSources[s] # Null => sources[s] # Null
  /\ repair.pc \in {"idle", "read"} => locked = {} /\ draftSources = sources

Working == repair.pc \notin {"idle", "read"}
AtSource == repair.pc \in {"find", "clone", "merge", "place"}

(* A source whose raw URL is to be cleaned, and the URL it is to get. *)
Affected(s) == repair.sources[s] # Null /\ repair.sources[s].raw \in Dirty
CleanFor(s) == CleanOf[repair.sources[s].raw]

(* The variables of the script agree with each other. *)
AsRead ==
  Working =>
    /\ Rooted(repair.sources, repair.rows) /\ Plain(repair.sources)
    /\ \A s \in repair.todo : Affected(s)
    /\ AtSource => /\ repair.source \in Source \ repair.todo
                   /\ Affected(repair.source) /\ CleanFor(repair.source) # Null
    /\ repair.pc \in {"merge", "place"} =>
         /\ repair.target \in Found(HostOf[CleanUrl])
         /\ repair.target \in locked
    /\ repair.pc = "url" => /\ repair.target \in Link /\ draft[repair.target] # Null
                            /\ repair.url \in Url

Waiting(s) == s \in repair.todo \/ (AtSource /\ s = repair.source)

(* A source that waits is there, at most its raw URL is clean already. *)
AsFound(s) ==
  LET old == repair.sources[s]
  IN /\ draftSources[s] # Null
     /\ draftSources[s].link = old.link /\ draftSources[s].message = old.message
     /\ draftSources[s].url = old.url

(* The links that sources are taken from have their tags; what has been    *)
(* merged into a link is kept there, and so is the old link of a source    *)
(* that is about to be moved.                                              *)
Active == repair.todo # {} \/ AtSource

Tagged == \A l \in Link : repair.rows[l] # Null =>
            draft[l] # Null /\ repair.rows[l].tags \subseteq draft[l].tags

MergedKept == \A p \in repair.merged :
  /\ p[2] \in locked /\ draft[p[2]] # Null
  /\ repair.rows[p[1]] # Null /\ Keeps(repair.rows[p[1]], draft[p[2]])

Carries(l, k) == l = k \/ Keeps(repair.rows[l], draft[k])

Carried ==
  /\ repair.pc = "read" => repair.merged = {}
  /\ Working /\ Active => Tagged /\ MergedKept
  /\ repair.pc = "place" => Carries(OldLink, repair.target)

(* A source that has been done is where it belongs, or another for the     *)
(* same message and URL is, on a link that nobody else can change and that *)
(* keeps what its old link was.                                            *)
Placed(s) ==
  \E t \in Source :
    /\ draftSources[t] # Null
    /\ draftSources[t].message = repair.sources[s].message
    /\ draftSources[t].raw = CleanFor(s) /\ draftSources[t].url = CleanFor(s)
    /\ draftSources[t].link \in locked
    /\ draft[draftSources[t].link].domain = HostOf[CleanFor(s)]
    /\ Carries(repair.sources[s].link, draftSources[t].link)

Progress ==
  Working => \A s \in Source : repair.sources[s] # Null =>
    /\ ~Affected(s) => draftSources[s] = repair.sources[s]
    /\ Affected(s) /\ Waiting(s) => AsFound(s)
    /\ Affected(s) /\ ~Waiting(s) /\ CleanFor(s) # Null => Placed(s)

(* The inductive invariant. *)
RepairInv == Typed /\ Consistent /\ Hosts /\ Beside /\ AsRead /\ Carried /\ Progress

-----------------------------------------------------------------------------
(* Null is no row. *)
LEMMA RowsAreNotNull ==
  /\ \A r \in Row : r # Null
  /\ \A r \in SourceRow : r # Null
  /\ Null \notin Url /\ Dirty \intersect Url = {}
BY RepairAssumption

(* What is stored for a raw URL is a URL. *)
LEMMA StoredIsUrl ==
  ASSUME NEW raw \in Raw
  PROVE  Stored(raw) \in Url
BY RepairAssumption DEF Stored, Raw

LEMMA MinOfTwo ==
  ASSUME NEW a \in Nat, NEW b \in Nat
  PROVE  Min({a, b}) \in Nat /\ Min({a, b}) <= a /\ Min({a, b}) <= b
<1>1. \E x \in {a, b} : \A y \in {a, b} : x <= y
  <2>1. CASE a <= b
    BY <2>1
  <2>2. CASE b <= a
    BY <2>2
  <2> QED
    BY <2>1, <2>2
<1> QED
  BY <1>1 DEF Min

(* The merge of two rows is a row. *)
LEMMA MergedIsRow ==
  ASSUME NEW r \in Row, NEW q \in Row
  PROVE  Merged(r, q) \in Row /\ Merged(r, q).domain = r.domain
<1>1. Min({r.first, q.first}) \in Nat
  BY MinOfTwo DEF Row
<1>2. r.category \in Category \union {Null} /\ q.category \in Category \union {Null}
  BY DEF Row
<1> QED
  BY <1>1, <1>2 DEF Merged, Coalesce, Row, OrganizationStatus

(* Idle is a state of the script. *)
LEMMA IdleIsTyped ==
  Idle \in Locals /\ Idle.pc = "idle" /\ Idle.merged = {}
BY DEF Idle, Locals

(* Keeping what was made of a link, from row to row and in a merge. *)
LEMMA KeepsTransitive ==
  ASSUME NEW a \in Row, NEW b \in Row, NEW c \in Row, Keeps(a, b), Keeps(b, c)
  PROVE  Keeps(a, c)
BY DEF Keeps, Row

LEMMA KeepsItself ==
  ASSUME NEW r \in Row
  PROVE  Keeps(r, r)
BY DEF Keeps, Row

LEMMA MergedKeeps ==
  ASSUME NEW r \in Row, NEW q \in Row, NEW T \in SUBSET Tag, q.tags \subseteq T
  PROVE  LET n == [Merged(r, q) EXCEPT !.tags = @ \union T]
         IN n \in Row /\ n.domain = r.domain /\ Keeps(r, n) /\ Keeps(q, n)
<1> DEFINE n == [Merged(r, q) EXCEPT !.tags = @ \union T]
<1>1. Merged(r, q) \in Row /\ Merged(r, q).domain = r.domain
  BY MergedIsRow
<1>2. /\ n \in Row /\ n.domain = r.domain
      /\ n.status = Merged(r, q).status /\ n.category = Merged(r, q).category
      /\ n.archived = Merged(r, q).archived /\ n.first = Merged(r, q).first
      /\ n.tags = Merged(r, q).tags \union T
  BY <1>1 DEF Row
<1> HIDE DEF n
<1>3. Min({r.first, q.first}) <= r.first /\ Min({r.first, q.first}) <= q.first
  BY MinOfTwo DEF Row
<1>4. /\ Merged(r, q).first = Min({r.first, q.first})
      /\ Merged(r, q).archived = (r.archived /\ q.archived)
      /\ Merged(r, q).tags = r.tags
      /\ r.status = "ORGANIZED" \/ q.status = "ORGANIZED"
           => Merged(r, q).status = "ORGANIZED"
      /\ r.category # Null \/ q.category # Null => Merged(r, q).category # Null
  BY DEF Merged, Coalesce, Row
<1>5. Keeps(r, n)
  BY <1>2, <1>3, <1>4 DEF Keeps
<1>6. Keeps(q, n)
  BY <1>2, <1>3, <1>4 DEF Keeps
<1> QED
  BY <1>2, <1>5, <1>6 DEF n

-----------------------------------------------------------------------------
LEMMA InitIsSafe ==
  ASSUME Init
  PROVE  RepairInv
<1>1. PICK f \in Histories, o \in [Host -> Organized] :
        \E newest \in [Linked(InitialSources(f)) -> DOMAIN f] :
          /\ \A h \in Linked(InitialSources(f)) :
               StoredLast(InitialSources(f), newest[h], LinkOf[h])
          /\ sources = InitialSources(f)
          /\ row = InitialRows(InitialSources(f), newest, o)
  BY DEF Init
<1> DEFINE S == InitialSources(f)
           linked == Linked(S)
           HostAt(l) == CHOOSE g \in linked : LinkOf[g] = l
<1>2. PICK newest \in [linked -> DOMAIN f] :
        /\ \A h \in linked : StoredLast(S, newest[h], LinkOf[h])
        /\ sources = S
        /\ row = [l \in Link |->
             IF \E h \in linked : LinkOf[h] = l
             THEN InitialRow(HostAt(l), S[newest[HostAt(l)]].url, o[HostAt(l)])
             ELSE Null]
  BY <1>1 DEF InitialRows
<1>3. PICK n \in 0..MaxSource :
        f \in [1..n -> [message : Message, raw : Raw, job : Job \union {Null}]]
  BY RepairAssumption
<1>4. /\ \A s \in Source : S[s] # Null => s \in DOMAIN f
      /\ \A s \in DOMAIN f \intersect Source :
           /\ S[s] \in SourceRow
           /\ S[s].url = Stored(S[s].raw)
           /\ S[s].link = LinkOf[HostOf[S[s].url]]
  <2>1. ASSUME NEW s \in DOMAIN f \intersect Source
        PROVE  /\ S[s] \in SourceRow
               /\ S[s].url = Stored(S[s].raw)
               /\ S[s].link = LinkOf[HostOf[S[s].url]]
    <3>1. f[s] \in [message : Message, raw : Raw, job : Job \union {Null}]
      BY <1>3
    <3>2. f[s].raw \in Raw /\ Stored(f[s].raw) \in Url
      BY <3>1, StoredIsUrl
    <3>3. HostOf[Stored(f[s].raw)] \in Host
      BY <3>2, RepairAssumption
    <3>4. LinkOf[HostOf[Stored(f[s].raw)]] \in Link
      BY <3>3, RepairAssumption
    <3>5. S[s] = [link |-> LinkOf[HostOf[Stored(f[s].raw)]], message |-> f[s].message,
                  raw |-> f[s].raw, url |-> Stored(f[s].raw), job |-> f[s].job]
      BY DEF InitialSources
    <3> QED
      BY <3>1, <3>2, <3>4, <3>5 DEF SourceRow
  <2>2. \A s \in Source : S[s] # Null => s \in DOMAIN f
    BY DEF InitialSources
  <2> QED
    BY <2>1, <2>2
<1>5. S \in [Source -> SourceRow \union {Null}]
  <2>1. ASSUME NEW s \in Source
        PROVE  S[s] \in SourceRow \union {Null}
    BY <1>4, <2>1
  <2>2. S = [s \in Source |-> S[s]]
    BY DEF InitialSources
  <2> QED
    BY <2>1, <2>2
<1>6. ASSUME NEW h \in linked
      PROVE  InitialRow(h, S[newest[h]].url, o[h]) \in Row
  <2>1. newest[h] \in Source /\ S[newest[h]] # Null
    BY <1>2, <1>6 DEF StoredLast, SourcesAt
  <2>2. S[newest[h]].url \in Url
    BY <2>1, <1>5 DEF SourceRow
  <2>3. h \in Host
    BY DEF Linked
  <2>4. o[h] \in Organization
    BY <2>3, RepairAssumption
  <2> QED
    BY <2>2, <2>3, <2>4 DEF InitialRow, Row, Organization
<1>7. ASSUME NEW l \in Link, \E h \in linked : LinkOf[h] = l
      PROVE  HostAt(l) \in linked /\ LinkOf[HostAt(l)] = l
  BY <1>7
<1>8. row \in [Link -> Row \union {Null}]
  <2>1. ASSUME NEW l \in Link
        PROVE  row[l] \in Row \union {Null}
    BY <1>2, <1>6, <1>7
  <2> QED
    BY <1>2, <2>1
<1>9. Rooted(S, row)
  <2> SUFFICES ASSUME NEW s \in Source, S[s] # Null
               PROVE  row[S[s].link] # Null
    BY DEF Rooted
  <2> DEFINE h == HostOf[S[s].url]
             l == S[s].link
  <2>1. S[s] \in SourceRow /\ S[s].link = LinkOf[h]
    BY <1>4
  <2>2. h \in Host /\ l \in Link
    BY <2>1, RepairAssumption DEF SourceRow
  <2>3. h \in linked
    BY <2>1, <2>2 DEF Linked, SourcesAt
  <2>4. row[l] = InitialRow(HostAt(l), S[newest[HostAt(l)]].url, o[HostAt(l)])
    BY <2>1, <2>2, <2>3, <1>2
  <2> QED
    BY <2>1, <2>2, <2>3, <2>4, <1>6, <1>7, RowsAreNotNull
<1>10. Plain(S)
  BY <1>4 DEF Plain
<1>11. Unique(row)
  <2>1. ASSUME NEW l \in Link, row[l] # Null
        PROVE  LinkOf[row[l].domain] = l
    <3>1. row[l] = InitialRow(HostAt(l), S[newest[HostAt(l)]].url, o[HostAt(l)])
          /\ \E h \in linked : LinkOf[h] = l
      BY <1>2, <2>1
    <3> QED
      BY <3>1, <1>7 DEF InitialRow
  <2> QED
    BY <2>1 DEF Unique
<1>12. /\ draft = row /\ draftSources = sources /\ locked = {}
       /\ repair = Idle
  BY DEF Init
<1>13. Carried /\ AsRead /\ Progress
  BY <1>12, IdleIsTyped DEF Carried, AsRead, Progress, Working
<1> QED
  BY <1>2, <1>5, <1>8, <1>9, <1>10, <1>11, <1>12, <1>13, IdleIsTyped
  DEF RepairInv, Typed, Consistent, Hosts, Beside

-----------------------------------------------------------------------------
(* What a step leaves of Progress that takes no source and changes none,   *)
(* unlocks no link, and moves no locked one to another host or takes from  *)
(* what was made of it.                                                    *)
LEMMA ProgressStays ==
  ASSUME Typed, Consistent, AsRead, Working, Progress,
         \A s \in Source : draftSources[s] # Null => draftSources'[s] = draftSources[s],
         \A s \in Source : draftSources[s] # Null /\ draftSources[s].link \in locked =>
           LET l == draftSources[s].link
           IN /\ draft'[l] \in Row /\ draft'[l].domain = draft[l].domain
              /\ Keeps(draft[l], draft'[l]),
         locked \subseteq locked',
         repair.sources' = repair.sources, repair.rows' = repair.rows,
         repair.todo' = repair.todo, repair.source' = repair.source,
         AtSource' = AtSource
  PROVE  Progress'
<1> SUFFICES ASSUME NEW s \in Source, repair.sources[s] # Null
             PROVE  /\ ~Affected(s) => draftSources'[s] = repair.sources[s]
                    /\ Affected(s) /\ Waiting(s) => AsFound(s)'
                    /\ Affected(s) /\ ~Waiting(s) /\ CleanFor(s) # Null => Placed(s)'
  BY DEF Progress, Affected, Waiting, CleanFor
<1>1. /\ ~Affected(s) => draftSources[s] = repair.sources[s]
      /\ Affected(s) /\ Waiting(s) => AsFound(s)
      /\ Affected(s) /\ ~Waiting(s) /\ CleanFor(s) # Null => Placed(s)
  BY DEF Progress
<1>2. AsFound(s) => AsFound(s)'
  BY DEF AsFound
<1>3. Placed(s) => Placed(s)'
  <2> SUFFICES ASSUME Placed(s)
               PROVE  Placed(s)'
    OBVIOUS
  <2> DEFINE l == repair.sources[s].link
  <2>1. PICK t \in Source :
          /\ draftSources[t] # Null
          /\ draftSources[t].message = repair.sources[s].message
          /\ draftSources[t].raw = CleanFor(s) /\ draftSources[t].url = CleanFor(s)
          /\ draftSources[t].link \in locked
          /\ draft[draftSources[t].link].domain = HostOf[CleanFor(s)]
          /\ Carries(l, draftSources[t].link)
    BY DEF Placed
  <2> DEFINE k == draftSources[t].link
  <2>2. /\ draft'[k] \in Row /\ draft'[k].domain = HostOf[CleanFor(s)]
        /\ Keeps(draft[k], draft'[k])
    BY <2>1
  <2>3. repair.rows[l] \in Row /\ draft[k] \in Row
    <3>1. repair.sources[s] \in SourceRow /\ draftSources[t] \in SourceRow
      BY <2>1 DEF Typed, Locals
    <3>2. repair.rows[l] # Null /\ draft[k] # Null
      BY <2>1 DEF AsRead, Consistent, Rooted
    <3> QED
      BY <3>1, <3>2 DEF Typed, Locals, SourceRow
  <2>4. Carries(l, k)'
    <3>1. repair.rows'[l] = repair.rows[l] /\ l' = l /\ k' = k
      BY <2>1
    <3> QED
      BY <3>1, <2>1, <2>2, <2>3, KeepsTransitive DEF Carries
  <2>5. draftSources'[t] = draftSources[t] /\ CleanFor(s)' = CleanFor(s) /\ l' = l
    BY <2>1 DEF CleanFor
  <2> QED
    BY <2>1, <2>2, <2>4, <2>5 DEF Placed
<1> QED
  BY <1>1, <1>2, <1>3

(* What has been merged stays where it is, when no link loses tags and no  *)
(* locked one what was made of it.                                         *)
LEMMA CarriedStays ==
  ASSUME Typed, Tagged, MergedKept,
         \A l \in Link : draft[l] # Null =>
           draft'[l] \in Row /\ draft[l].tags \subseteq draft'[l].tags,
         \A l \in locked : draft[l] # Null => Keeps(draft[l], draft'[l]),
         locked \subseteq locked',
         repair.rows' = repair.rows, repair.merged' = repair.merged
  PROVE  Tagged' /\ MergedKept'
<1>1. Tagged'
  BY RowsAreNotNull DEF Tagged
<1>2. ASSUME NEW p \in repair.merged
      PROVE  /\ p[2] \in locked' /\ draft'[p[2]] # Null
             /\ repair.rows[p[1]] # Null /\ Keeps(repair.rows[p[1]], draft'[p[2]])
  <2>1. /\ p[2] \in locked /\ draft[p[2]] # Null
        /\ repair.rows[p[1]] # Null /\ Keeps(repair.rows[p[1]], draft[p[2]])
    BY DEF MergedKept
  <2>2. p[1] \in Link /\ p[2] \in Link
    BY DEF Typed, Locals
  <2>3. repair.rows[p[1]] \in Row /\ draft[p[2]] \in Row /\ draft'[p[2]] \in Row
    BY <2>1, <2>2 DEF Typed, Locals
  <2> QED
    BY <2>1, <2>3, KeepsTransitive, RowsAreNotNull
<1> QED
  BY <1>1, <1>2 DEF MergedKept

-----------------------------------------------------------------------------
LEMMA BeginStep ==
  ASSUME RepairInv, Begin
  PROVE  RepairInv'
<1>1. /\ repair' \in Locals /\ repair'.pc = "read" /\ repair'.merged = {}
      /\ repair.pc = "idle"
  BY IdleIsTyped DEF Begin, Locals
<1> QED
  BY <1>1 DEF RepairInv, Typed, Consistent, Hosts, Beside, AsRead, Carried, Progress,
              Working, Begin, linkVars, Rooted, Plain, Unique

LEMMA ReadStep ==
  ASSUME RepairInv, Read
  PROVE  RepairInv'
<1> DEFINE affected == {s \in Source : sources[s] # Null /\ sources[s].raw \in Dirty}
           theirs == {sources[s].link : s \in affected}
<1>1. /\ repair.pc = "read"
      /\ repair' = [repair EXCEPT !.pc = "next", !.rows = row, !.sources = sources,
                                  !.todo = affected, !.emptied = theirs, !.touched = theirs]
      /\ UNCHANGED <<row, sources, draft, draftSources, locked>>
  BY DEF Read, linkVars
<1>2. theirs \subseteq Link
  BY RowsAreNotNull DEF RepairInv, Typed, SourceRow
<1>3. Typed'
  BY <1>1, <1>2 DEF RepairInv, Typed, Locals
<1>4. /\ repair'.pc = "next" /\ repair'.rows = row /\ repair'.sources = sources
      /\ repair'.todo = affected /\ repair'.merged = repair.merged
  BY <1>1 DEF RepairInv, Typed, Locals
<1>5. Consistent' /\ Hosts' /\ Beside'
  BY <1>1, <1>4 DEF RepairInv, Consistent, Hosts, Beside, Rooted, Plain, Unique
<1>6. AsRead'
  BY <1>1, <1>4 DEF RepairInv, Consistent, AsRead, AtSource, Affected, Rooted, Plain
<1>7. Progress'
  BY <1>1, <1>4 DEF RepairInv, Beside, Progress, Affected, Waiting, AsFound
<1>8. Carried'
  <2>1. repair'.merged = {} /\ \A l \in Link : draft[l] = row[l]
    BY <1>1, <1>4 DEF RepairInv, Carried, Beside
  <2>2. Tagged' /\ MergedKept'
    BY <2>1, <1>1, <1>4 DEF Tagged, MergedKept
  <2> QED
    BY <2>2, <1>4 DEF Carried
<1> QED
  BY <1>3, <1>5, <1>6, <1>7, <1>8 DEF RepairInv

LEMMA FindStep ==
  ASSUME RepairInv, Find
  PROVE  RepairInv'
<1>1. /\ repair.pc = "find"
      /\ UNCHANGED <<row, sources, draft, draftSources>>
      /\ locked \subseteq locked'
  BY DEF Find, linkVars
<1>2. \/ /\ repair' = [repair EXCEPT !.pc = "clone"]
         /\ locked' = locked
      \/ \E l \in Found(HostOf[CleanUrl]), p \in {"place", "merge"} :
           /\ locked' = locked \union {l}
           /\ repair' = [repair EXCEPT !.target = l, !.touched = @ \union {l}, !.pc = p]
           /\ p = "place" => l = OldLink \/ <<OldLink, l>> \in repair.merged
  BY DEF Find
<1>3. Found(HostOf[CleanUrl]) \subseteq Link
  BY DEF Found
<1>4. /\ repair' \in Locals /\ locked' \subseteq Link
      /\ repair'.sources = repair.sources /\ repair'.todo = repair.todo
      /\ repair'.source = repair.source /\ repair'.rows = repair.rows
      /\ repair'.merged = repair.merged
      /\ repair'.pc \in {"clone", "place", "merge"}
      /\ repair'.pc \in {"place", "merge"} =>
           /\ repair'.target \in Found(HostOf[CleanUrl])
           /\ repair'.target \in locked'
      /\ repair'.pc = "place" =>
           repair'.target = OldLink \/ <<OldLink, repair'.target>> \in repair.merged
  <2>1. CASE repair' = [repair EXCEPT !.pc = "clone"] /\ locked' = locked
    BY <2>1 DEF RepairInv, Typed, Locals
  <2>2. ASSUME NEW l \in Found(HostOf[CleanUrl]), NEW p \in {"place", "merge"},
               locked' = locked \union {l},
               repair' = [repair EXCEPT !.target = l, !.touched = @ \union {l}, !.pc = p],
               p = "place" => l = OldLink \/ <<OldLink, l>> \in repair.merged
        PROVE  /\ repair' \in Locals /\ locked' \subseteq Link
               /\ repair'.sources = repair.sources /\ repair'.todo = repair.todo
               /\ repair'.source = repair.source /\ repair'.rows = repair.rows
               /\ repair'.merged = repair.merged
               /\ repair'.pc = p /\ repair'.target = l
    <3>1. l \in Link
      BY <1>3
    <3> QED
      BY <2>2, <3>1 DEF RepairInv, Typed, Locals
  <2> QED
    BY <1>2, <2>1, <2>2
<1>5. Typed' /\ Consistent' /\ Hosts' /\ Beside'
  BY <1>1, <1>4 DEF RepairInv, Typed, Consistent, Hosts, Beside, Rooted, Plain, Unique
<1>6. AsRead'
  BY <1>1, <1>4 DEF RepairInv, AsRead, Working, AtSource, Affected, Rooted, Plain, CleanFor,
                    CleanUrl, Found
<1>7. Working /\ Active /\ AtSource /\ AtSource' = AtSource
  BY <1>1, <1>4 DEF Working, Active, AtSource
<1>8. \A l \in Link : draft[l] # Null => draft[l] \in Row /\ Keeps(draft[l], draft[l])
  BY KeepsItself DEF RepairInv, Typed
<1>9. Progress'
  <2>1. \A s \in Source : draftSources[s] # Null =>
          draftSources[s].link \in Link /\ draft[draftSources[s].link] # Null
    BY DEF RepairInv, Typed, Consistent, Rooted, SourceRow
  <2> QED
    BY <1>1, <1>4, <1>7, <1>8, <2>1, ProgressStays DEF RepairInv
<1>10. Tagged /\ MergedKept
  BY <1>7 DEF RepairInv, Carried
<1>11. Tagged' /\ MergedKept'
  BY <1>1, <1>4, <1>8, <1>10, CarriedStays DEF RepairInv, Typed
<1>12. repair'.pc = "place" => Carries(OldLink, repair.target)'
  <2>1. OldLink' = OldLink
    BY <1>4 DEF OldLink
  <2>2. <<OldLink, repair'.target>> \in repair.merged
          => Keeps(repair.rows[OldLink], draft[repair'.target])
    BY <1>10 DEF MergedKept
  <2> QED
    BY <2>1, <2>2, <1>1, <1>4 DEF Carries
<1>13. Carried'
  BY <1>4, <1>11, <1>12 DEF Carried
<1> QED
  BY <1>5, <1>6, <1>9, <1>13 DEF RepairInv

(* The row that is copied or merged is there, as read and as it is.        *)
LEMMA OldLinkIsThere ==
  ASSUME RepairInv, repair.pc \in {"find", "clone", "merge", "place"}
  PROVE  /\ OldLink \in Link /\ CleanUrl \in Url /\ HostOf[CleanUrl] \in Host
         /\ repair.rows[OldLink] \in Row /\ draft[OldLink] \in Row
<1>1. /\ repair.source \in Source /\ Affected(repair.source) /\ CleanFor(repair.source) # Null
      /\ Rooted(repair.sources, repair.rows)
      /\ Waiting(repair.source)
  BY DEF RepairInv, AsRead, Working, AtSource, Waiting
<1>2. repair.sources[repair.source] \in SourceRow
  BY <1>1 DEF RepairInv, Typed, Locals, Affected
<1>3. OldLink \in Link /\ CleanUrl \in Url
  BY <1>1, <1>2, RepairAssumption DEF OldLink, CleanUrl, CleanFor, Affected, SourceRow
<1>4. HostOf[CleanUrl] \in Host
  BY <1>3, RepairAssumption
<1>5. repair.rows[OldLink] # Null
  BY <1>1 DEF Rooted, OldLink, Affected
<1>6. draft[OldLink] # Null
  <2>1. AsFound(repair.source)
    BY <1>1 DEF RepairInv, Progress, Working, Affected
  <2> QED
    BY <2>1, <1>1 DEF AsFound, OldLink, RepairInv, Consistent, Rooted
<1> QED
  BY <1>3, <1>4, <1>5, <1>6 DEF RepairInv, Typed, Locals

LEMMA CloneStep ==
  ASSUME RepairInv, Clone
  PROVE  RepairInv'
<1>1. PICK l \in Link :
        /\ draft[l] = Null
        /\ draft' = [draft EXCEPT ![l] =
             [repair.rows[OldLink] EXCEPT !.domain = HostOf[CleanUrl], !.url = CleanUrl,
                                          !.tags = draft[OldLink].tags]]
        /\ locked' = locked \union {l}
        /\ repair' = [repair EXCEPT !.pc = "place", !.target = l,
                                    !.touched = @ \union {l}]
  BY DEF Clone
<1>2. repair.pc = "clone" /\ UNCHANGED <<row, sources, draftSources>>
  BY DEF Clone
<1>3. /\ repair.rows[OldLink] \in Row /\ draft[OldLink] \in Row
      /\ CleanUrl \in Url /\ HostOf[CleanUrl] \in Host
  BY <1>2, OldLinkIsThere
<1>4. /\ repair' \in Locals
      /\ repair'.pc = "place" /\ repair'.target = l
      /\ repair'.sources = repair.sources /\ repair'.todo = repair.todo
      /\ repair'.source = repair.source /\ repair'.rows = repair.rows
      /\ repair'.merged = repair.merged
  BY <1>1 DEF RepairInv, Typed, Locals
<1> DEFINE r == [repair.rows[OldLink] EXCEPT !.domain = HostOf[CleanUrl], !.url = CleanUrl,
                                             !.tags = draft[OldLink].tags]
<1>5. r \in Row /\ r.domain = HostOf[CleanUrl]
  BY <1>3 DEF Row
<1>6. /\ draft' \in [Link -> Row \union {Null}]
      /\ draft'[l] = r /\ \A k \in Link \ {l} : draft'[k] = draft[k]
      /\ draft'[l] # Null
  BY <1>1, <1>5, RowsAreNotNull DEF RepairInv, Typed
<1>7. Typed'
  BY <1>1, <1>2, <1>4, <1>6 DEF RepairInv, Typed
<1>8. Rooted(draftSources, draft')
  BY <1>6 DEF RepairInv, Consistent, Rooted, Typed, SourceRow
<1>9. Consistent' /\ Beside'
  BY <1>1, <1>2, <1>4, <1>6, <1>8 DEF RepairInv, Consistent, Beside, Rooted, Plain
<1>10. CleanUrl' = CleanUrl
  BY <1>4 DEF CleanUrl
<1>11. l \in Found(HostOf[CleanUrl])'
  BY <1>5, <1>6, <1>10 DEF Found
<1>12. AsRead'
  BY <1>1, <1>2, <1>4, <1>11
  DEF RepairInv, AsRead, Working, AtSource, Affected, Rooted, Plain, CleanFor
<1>13. Working /\ AtSource /\ AtSource'
  BY <1>2, <1>4 DEF Working, AtSource
<1>14. \A k \in Link : draft[k] # Null =>
         /\ draft'[k] = draft[k] /\ draft'[k] \in Row
         /\ Keeps(draft[k], draft'[k])
  BY <1>1, <1>6, KeepsItself DEF RepairInv, Typed
<1>15. Progress'
  <2>1. \A s \in Source : draftSources[s] # Null =>
          draftSources[s].link \in Link /\ draft[draftSources[s].link] # Null
    BY DEF RepairInv, Typed, Consistent, Rooted, SourceRow
  <2> QED
    BY <1>1, <1>2, <1>4, <1>13, <1>14, <2>1, ProgressStays DEF RepairInv
<1>16. Hosts'
  <2>1. \A k \in Link : draft[k] # Null => draft[k].domain # HostOf[CleanUrl]
    BY DEF Clone, Found
  <2>2. draft'[l].domain = HostOf[CleanUrl]
    BY <1>5, <1>6
  <2>3. \A k \in Link \ {l} : draft'[k] = draft[k]
    BY <1>6
  <2>4. Unique(draft) /\ Unique(row)
    BY DEF RepairInv, Hosts
  <2>5. Unique(draft)'
    BY <2>1, <2>2, <2>3, <2>4 DEF Unique
  <2> QED
    BY <2>4, <2>5, <1>2 DEF Hosts, Unique
<1>17. Tagged /\ MergedKept
  BY <1>13 DEF RepairInv, Carried, Active
<1>18. Tagged' /\ MergedKept'
  BY <1>1, <1>4, <1>14, <1>17, CarriedStays DEF RepairInv, Typed
<1>19. Keeps(repair.rows[OldLink], r)
  <2>1. repair.rows[OldLink].tags \subseteq draft[OldLink].tags
    BY <1>2, <1>3, <1>17, OldLinkIsThere, RowsAreNotNull DEF Tagged
  <2> QED
    BY <2>1, <1>3 DEF Keeps, Row
<1>20. Carried'
  <2>1. OldLink' = OldLink
    BY <1>4 DEF OldLink
  <2> QED
    BY <2>1, <1>4, <1>6, <1>18, <1>19 DEF Carried, Carries
<1> QED
  BY <1>7, <1>9, <1>12, <1>15, <1>16, <1>20 DEF RepairInv

LEMMA MergeStep ==
  ASSUME RepairInv, Merge
  PROVE  RepairInv'
<1> DEFINE l == repair.target
           r == [Merged(draft[l], repair.rows[OldLink])
                   EXCEPT !.tags = @ \union draft[OldLink].tags]
<1>1. /\ repair.pc = "merge" /\ UNCHANGED <<row, sources, draftSources, locked>>
      /\ draft' = [draft EXCEPT ![l] = r]
      /\ repair' = [repair EXCEPT !.pc = "place",
                                  !.merged = @ \union {<<OldLink, repair.target>>}]
  BY DEF Merge
<1>2. l \in Found(HostOf[CleanUrl]) /\ l \in locked
  BY <1>1 DEF RepairInv, AsRead, Working
<1>3. l \in Link /\ draft[l] \in Row /\ draft[l].domain = HostOf[CleanUrl]
  BY <1>2 DEF Found, RepairInv, Typed
<1>4. repair.rows[OldLink] \in Row /\ draft[OldLink] \in Row /\ OldLink \in Link
  BY <1>1, OldLinkIsThere
<1>5. Tagged /\ MergedKept
  BY <1>1 DEF RepairInv, Carried, Working, Active, AtSource
<1>6. /\ r \in Row /\ r.domain = draft[l].domain
      /\ Keeps(draft[l], r) /\ Keeps(repair.rows[OldLink], r)
  <2>1. repair.rows[OldLink].tags \subseteq draft[OldLink].tags
    BY <1>4, <1>5, RowsAreNotNull DEF Tagged
  <2>2. draft[OldLink].tags \in SUBSET Tag
    BY <1>4 DEF Row
  <2> QED
    BY <2>1, <2>2, <1>3, <1>4, MergedKeeps
<1>7. /\ repair' \in Locals
      /\ repair'.pc = "place" /\ repair'.target = l
      /\ repair'.sources = repair.sources /\ repair'.todo = repair.todo
      /\ repair'.source = repair.source /\ repair'.rows = repair.rows
      /\ repair'.merged = repair.merged \union {<<OldLink, l>>}
  <2> DEFINE done == repair.merged \union {<<OldLink, l>>}
  <2>1. repair.merged \subseteq Link \X Link
    BY DEF RepairInv, Typed, Locals
  <2>2. done \subseteq Link \X Link
    BY <2>1, <1>3, <1>4
  <2>3. repair' = [repair EXCEPT !.pc = "place", !.merged = done]
    BY <1>1
  <2> HIDE DEF done
  <2>4. /\ repair' \in Locals
        /\ repair'.pc = "place" /\ repair'.target = repair.target
        /\ repair'.sources = repair.sources /\ repair'.todo = repair.todo
        /\ repair'.source = repair.source /\ repair'.rows = repair.rows
        /\ repair'.merged = done
    BY <2>2, <2>3 DEF RepairInv, Typed, Locals
  <2> QED
    BY <2>4 DEF done
<1>8. /\ draft' \in [Link -> Row \union {Null}]
      /\ draft'[l] = r /\ \A k \in Link \ {l} : draft'[k] = draft[k]
      /\ draft'[l] # Null
  BY <1>1, <1>3, <1>6, RowsAreNotNull DEF RepairInv, Typed
<1>9. Typed'
  BY <1>1, <1>7, <1>8 DEF RepairInv, Typed
<1>10. Rooted(draftSources, draft')
  BY <1>8 DEF RepairInv, Consistent, Rooted, Typed, SourceRow
<1>11. Consistent' /\ Beside'
  BY <1>1, <1>2, <1>7, <1>8, <1>10 DEF RepairInv, Consistent, Beside, Rooted, Plain
<1>12. CleanUrl' = CleanUrl
  BY <1>7 DEF CleanUrl
<1>13. l \in Found(HostOf[CleanUrl])'
  BY <1>3, <1>8, <1>12, <1>6 DEF Found
<1>14. AsRead'
  BY <1>1, <1>2, <1>7, <1>13
  DEF RepairInv, AsRead, Working, AtSource, Affected, Rooted, Plain, CleanFor
<1>15. Working /\ AtSource /\ AtSource'
  BY <1>1, <1>7 DEF Working, AtSource
<1>16. \A k \in Link : draft[k] # Null =>
         /\ draft'[k] \in Row /\ draft'[k].domain = draft[k].domain
         /\ Keeps(draft[k], draft'[k])
  BY <1>8, <1>6, KeepsItself DEF RepairInv, Typed
<1>17. Progress'
  <2>1. \A s \in Source : draftSources[s] # Null =>
          draftSources[s].link \in Link /\ draft[draftSources[s].link] # Null
    BY DEF RepairInv, Typed, Consistent, Rooted, SourceRow
  <2> QED
    BY <1>1, <1>7, <1>15, <1>16, <2>1, ProgressStays DEF RepairInv
<1>18. Hosts'
  BY <1>1, <1>3, <1>8, <1>6, RowsAreNotNull DEF RepairInv, Hosts, Unique
<1>19. Tagged' /\ MergedKept'
  <2>1. \A k \in Link : draft[k] # Null => draft[k].tags \subseteq draft'[k].tags
    BY <1>16 DEF Keeps
  <2>2. Tagged'
    BY <2>1, <1>5, <1>7, <1>16, RowsAreNotNull DEF Tagged
  <2>3. ASSUME NEW q \in repair.merged
        PROVE  /\ q[2] \in locked /\ draft'[q[2]] # Null
               /\ repair.rows[q[1]] # Null /\ Keeps(repair.rows[q[1]], draft'[q[2]])
    <3>1. /\ q[2] \in locked /\ draft[q[2]] # Null
          /\ repair.rows[q[1]] # Null /\ Keeps(repair.rows[q[1]], draft[q[2]])
      BY <1>5 DEF MergedKept
    <3>2. q[1] \in Link /\ q[2] \in Link
      BY DEF RepairInv, Typed, Locals
    <3>3. repair.rows[q[1]] \in Row /\ draft[q[2]] \in Row
      BY <3>1, <3>2 DEF RepairInv, Typed, Locals
    <3>4. draft'[q[2]] \in Row /\ Keeps(draft[q[2]], draft'[q[2]])
      BY <3>1, <3>2, <1>16
    <3> QED
      BY <3>1, <3>3, <3>4, KeepsTransitive, RowsAreNotNull
  <2>4. /\ l \in locked /\ draft'[l] # Null
        /\ repair.rows[OldLink] # Null /\ Keeps(repair.rows[OldLink], draft'[l])
    BY <1>2, <1>4, <1>6, <1>8, RowsAreNotNull
  <2>5. MergedKept'
    <3> SUFFICES ASSUME NEW q \in repair'.merged
                 PROVE  /\ q[2] \in locked /\ draft'[q[2]] # Null
                        /\ repair.rows[q[1]] # Null
                        /\ Keeps(repair.rows[q[1]], draft'[q[2]])
      BY <1>1, <1>7 DEF MergedKept
    <3>1. CASE q \in repair.merged
      BY <3>1, <2>3
    <3>2. CASE q = <<OldLink, l>>
      BY <3>2, <2>4
    <3> QED
      BY <3>1, <3>2, <1>7
  <2> QED
    BY <2>2, <2>5
<1>20. Carried'
  <2>1. OldLink' = OldLink
    BY <1>7 DEF OldLink
  <2> QED
    BY <2>1, <1>7, <1>8, <1>19, <1>6 DEF Carried, Carries
<1> QED
  BY <1>9, <1>11, <1>14, <1>17, <1>18, <1>20 DEF RepairInv

LEMMA EmptyStep ==
  ASSUME RepairInv, Empty
  PROVE  RepairInv'
<1>1. PICK l \in repair.emptied :
        /\ IF Orphaned(l)
           THEN /\ draft' = [draft EXCEPT ![l] = Null]
                /\ draftSources' = [s \in Source |->
                     IF s \in SourcesAt(draftSources, l) THEN Null ELSE draftSources[s]]
                /\ locked' = locked \union {l}
           ELSE UNCHANGED <<draft, draftSources, locked>>
        /\ repair' = [repair EXCEPT !.emptied = @ \ {l}]
  BY DEF Empty
<1>2. repair.pc = "next" /\ UNCHANGED <<row, sources>> /\ l \in Link
  BY DEF Empty, RepairInv, Typed, Locals
<1>3. /\ repair' \in Locals /\ repair'.pc = "next"
      /\ repair'.sources = repair.sources /\ repair'.todo = repair.todo
      /\ repair'.source = repair.source /\ repair'.rows = repair.rows
  BY <1>1, <1>2 DEF RepairInv, Typed, Locals
<1>4. draftSources' = draftSources
  <2>1. CASE Orphaned(l)
    <3>1. draftSources' = [s \in Source |-> draftSources[s]]
      BY <1>1, <2>1 DEF Orphaned
    <3> QED
      BY <3>1 DEF RepairInv, Typed
  <2> QED
    BY <2>1, <1>1
<1>5. /\ draft' \in [Link -> Row \union {Null}]
      /\ locked \subseteq locked' /\ locked' \subseteq Link
      /\ \A k \in Link : \/ draft'[k] = draft[k]
                         \/ k \in locked' /\ SourcesAt(draftSources, k) = {}
  BY <1>1, <1>2 DEF Orphaned, RepairInv, Typed
<1>6. \A k \in Link \ locked' : draft'[k] = row[k]
  BY <1>5, <1>1 DEF RepairInv, Beside
<1>7. Typed'
  BY <1>2, <1>3, <1>4, <1>5 DEF RepairInv, Typed
<1>8. Rooted(draftSources, draft')
  BY <1>5 DEF RepairInv, Consistent, Rooted, Typed, SourceRow, SourcesAt
<1>9. Consistent' /\ Beside'
  BY <1>2, <1>3, <1>4, <1>6, <1>8 DEF RepairInv, Consistent, Beside, Rooted, Plain
<1>10. AsRead'
  BY <1>2, <1>3 DEF RepairInv, AsRead, Working, AtSource, Affected, Rooted, Plain
<1>11. Working /\ AtSource' = AtSource
  BY <1>2, <1>3 DEF Working, AtSource
<1>12. ASSUME NEW s \in Source, draftSources[s] # Null
       PROVE  LET k == draftSources[s].link
              IN /\ draft'[k] \in Row /\ draft'[k].domain = draft[k].domain
                 /\ Keeps(draft[k], draft'[k])
  <2> DEFINE k == draftSources[s].link
  <2>1. k \in Link /\ draft[k] \in Row
    BY <1>12 DEF RepairInv, Typed, Consistent, Rooted, SourceRow
  <2>2. draft'[k] = draft[k]
    BY <2>1, <1>5, <1>12 DEF SourcesAt
  <2> QED
    BY <2>1, <2>2, KeepsItself
<1>13. Progress'
  BY <1>3, <1>4, <1>5, <1>11, <1>12, ProgressStays DEF RepairInv
<1>14. Hosts'
  <2>1. \A k \in Link : draft'[k] # Null => draft'[k] = draft[k]
    BY <1>1, <1>2 DEF RepairInv, Typed
  <2> QED
    BY <2>1, <1>2 DEF RepairInv, Hosts, Unique
<1>15. Carried'
  <2>1. ~Active'
    BY <1>3, <1>11 DEF Empty, Active, AtSource
  <2> QED
    BY <2>1, <1>3 DEF Carried
<1> QED
  BY <1>7, <1>9, <1>10, <1>13, <1>14, <1>15 DEF RepairInv

LEMMA LatestStep ==
  ASSUME RepairInv, Latest
  PROVE  RepairInv'
<1>1. PICK l \in repair.touched :
        \/ repair' = [repair EXCEPT !.touched = @ \ {l}]
        \/ \E s \in SourcesAt(draftSources, l) :
             repair' = [repair EXCEPT !.pc = "url", !.touched = @ \ {l},
                                      !.target = l, !.url = draftSources[s].url]
  BY DEF Latest
<1>2. /\ repair.pc = "next" /\ l \in Link
      /\ UNCHANGED <<row, sources, draft, draftSources, locked>>
  BY DEF Latest, linkVars, RepairInv, Typed, Locals
<1>3. /\ repair' \in Locals /\ repair'.pc \in {"next", "url"}
      /\ repair'.sources = repair.sources /\ repair'.todo = repair.todo
      /\ repair'.source = repair.source /\ repair'.rows = repair.rows
      /\ repair'.merged = repair.merged
      /\ repair'.pc = "url" => /\ repair'.target \in Link /\ draft[repair'.target] # Null
                               /\ repair'.url \in Url
  <2>1. CASE repair' = [repair EXCEPT !.touched = @ \ {l}]
    BY <2>1, <1>2 DEF RepairInv, Typed, Locals
  <2>2. ASSUME NEW s \in SourcesAt(draftSources, l),
               repair' = [repair EXCEPT !.pc = "url", !.touched = @ \ {l},
                                        !.target = l, !.url = draftSources[s].url]
        PROVE  /\ repair' \in Locals /\ repair'.pc = "url"
               /\ repair'.sources = repair.sources /\ repair'.todo = repair.todo
               /\ repair'.source = repair.source /\ repair'.rows = repair.rows
               /\ repair'.merged = repair.merged
               /\ repair'.target = l /\ draft[l] # Null
               /\ repair'.url \in Url
    <3>1. /\ s \in Source /\ draftSources[s] # Null /\ draftSources[s].link = l
      BY DEF SourcesAt
    <3>2. draftSources[s].url \in Url /\ draft[l] # Null
      BY <3>1 DEF RepairInv, Typed, Consistent, Rooted, SourceRow
    <3>3. repair' \in Locals
      BY <2>2, <3>2, <1>2 DEF RepairInv, Typed, Locals
    <3> QED
      BY <2>2, <3>2, <3>3 DEF RepairInv, Typed, Locals
  <2> QED
    BY <1>1, <1>2, <2>1, <2>2
<1>4. Typed' /\ Consistent' /\ Hosts' /\ Beside'
  BY <1>2, <1>3 DEF RepairInv, Typed, Consistent, Hosts, Beside, Rooted, Plain, Unique
<1>5. AsRead'
  BY <1>2, <1>3 DEF RepairInv, AsRead, Working, AtSource, Affected, Rooted, Plain
<1>6. Working /\ AtSource' = AtSource
  BY <1>2, <1>3 DEF Working, AtSource
<1>7. Progress'
  <2>1. ASSUME NEW s \in Source, draftSources[s] # Null
        PROVE  LET k == draftSources[s].link
               IN draft[k] \in Row /\ Keeps(draft[k], draft[k])
    <3>1. draft[draftSources[s].link] \in Row
      BY <2>1 DEF RepairInv, Typed, Consistent, Rooted, SourceRow
    <3> QED
      BY <3>1, KeepsItself
  <2> QED
    BY <1>2, <1>3, <1>6, <2>1, ProgressStays DEF RepairInv
<1>8. Carried'
  <2>1. Active' <=> Active
    BY <1>3, <1>6 DEF Active
  <2> QED
    BY <2>1, <1>2, <1>3, <1>6 DEF RepairInv, Carried, Tagged, MergedKept
<1> QED
  BY <1>4, <1>5, <1>7, <1>8 DEF RepairInv

LEMMA WriteUrlStep ==
  ASSUME RepairInv, WriteUrl
  PROVE  RepairInv'
<1> DEFINE l == repair.target
<1>1. /\ repair.pc = "url" /\ UNCHANGED <<row, sources, draftSources>>
      /\ draft' = [draft EXCEPT ![l].url = repair.url]
      /\ locked' = locked \union {l}
      /\ repair' = [repair EXCEPT !.pc = "next"]
  BY DEF WriteUrl
<1>2. l \in Link /\ draft[l] \in Row /\ repair.url \in Url
  BY <1>1 DEF RepairInv, AsRead, Working, Typed
<1>3. /\ repair' \in Locals /\ repair'.pc = "next"
      /\ repair'.sources = repair.sources /\ repair'.todo = repair.todo
      /\ repair'.source = repair.source /\ repair'.rows = repair.rows
      /\ repair'.merged = repair.merged
  BY <1>1 DEF RepairInv, Typed, Locals
<1> DEFINE r == [draft[l] EXCEPT !.url = repair.url]
<1>4. r \in Row /\ r.domain = draft[l].domain /\ Keeps(draft[l], r)
  BY <1>2 DEF Row, Keeps
<1>5. /\ draft' \in [Link -> Row \union {Null}]
      /\ draft'[l] = r /\ \A k \in Link \ {l} : draft'[k] = draft[k]
      /\ draft'[l] # Null
  BY <1>1, <1>2, <1>4, RowsAreNotNull DEF RepairInv, Typed
<1>6. Typed'
  BY <1>1, <1>2, <1>3, <1>5 DEF RepairInv, Typed
<1>7. Rooted(draftSources, draft')
  BY <1>5 DEF RepairInv, Consistent, Rooted, Typed, SourceRow
<1>8. Consistent' /\ Beside'
  BY <1>1, <1>3, <1>5, <1>7 DEF RepairInv, Consistent, Beside, Rooted, Plain
<1>9. AsRead'
  BY <1>1, <1>3 DEF RepairInv, AsRead, Working, AtSource, Affected, Rooted, Plain
<1>10. Working /\ AtSource' = AtSource
  BY <1>1, <1>3 DEF Working, AtSource
<1>11. \A k \in Link : draft[k] # Null =>
         /\ draft'[k] \in Row /\ draft'[k].domain = draft[k].domain
         /\ Keeps(draft[k], draft'[k]) /\ draft[k].tags \subseteq draft'[k].tags
  BY <1>4, <1>5, KeepsItself DEF RepairInv, Typed, Keeps
<1>12. Progress'
  <2>1. \A s \in Source : draftSources[s] # Null =>
          draftSources[s].link \in Link /\ draft[draftSources[s].link] # Null
    BY DEF RepairInv, Typed, Consistent, Rooted, SourceRow
  <2> QED
    BY <1>1, <1>3, <1>10, <1>11, <2>1, ProgressStays DEF RepairInv
<1>13. Hosts'
  BY <1>1, <1>2, <1>4, <1>5, RowsAreNotNull DEF RepairInv, Hosts, Unique
<1>14. Carried'
  <2>1. Active' <=> Active
    BY <1>3, <1>10 DEF Active
  <2>2. Active => Tagged /\ MergedKept
    BY <1>10 DEF RepairInv, Carried
  <2>3. Active => Tagged' /\ MergedKept'
    BY <2>2, <1>1, <1>3, <1>11, CarriedStays DEF RepairInv, Typed
  <2> QED
    BY <2>1, <2>3, <1>3 DEF Carried
<1> QED
  BY <1>6, <1>8, <1>9, <1>12, <1>13, <1>14 DEF RepairInv

(* The end of a run, either way. *)
LEMMA EndStep ==
  ASSUME RepairInv, Commit \/ Abort
  PROVE  RepairInv'
<1>1. /\ repair' = Idle /\ locked' = {} /\ repair'.pc = "idle" /\ repair' \in Locals
      /\ \/ /\ row' = draft /\ sources' = draftSources
            /\ UNCHANGED <<draft, draftSources>>
         \/ /\ draft' = row /\ draftSources' = sources
            /\ UNCHANGED <<row, sources>>
  BY IdleIsTyped DEF Commit, Abort
<1> QED
  BY <1>1 DEF RepairInv, Typed, Consistent, Hosts, Beside, AsRead, Carried, Progress,
              Working, Rooted, Plain, Unique

-----------------------------------------------------------------------------
(* The URL that is stored for a source may be the clean one of another: it *)
(* is its own clean one then.                                              *)
LEMMA StoredIsClean ==
  ASSUME RepairInv, Working, NEW s \in Source, NEW u \in Source,
         Affected(s), AsFound(s), Affected(u), draftSources[s].url = CleanFor(u)
  PROVE  CleanFor(s) = CleanFor(u)
<1>1. repair.sources[s].url = StoredAs[repair.sources[s].raw]
  BY DEF RepairInv, AsRead, Plain, Stored, Affected
<1>2. CleanFor(u) = StoredAs[repair.sources[s].raw]
  BY <1>1 DEF AsFound
<1> QED
  BY <1>2, SettledAssumption DEF CleanFor, Affected

LEMMA TakeStep ==
  ASSUME RepairInv, Take
  PROVE  RepairInv'
<1>1. PICK s \in repair.todo :
        IF draftSources[s] = Null \/ CleanOf[repair.sources[s].raw] = Null
        THEN /\ draftSources' = [draftSources EXCEPT ![s] = Null]
             /\ repair' = [repair EXCEPT !.todo = @ \ {s}]
        ELSE /\ repair' = [repair EXCEPT !.pc = "find", !.todo = @ \ {s}, !.source = s]
             /\ UNCHANGED draftSources
  BY DEF Take
<1>2. repair.pc = "next" /\ UNCHANGED <<row, sources, draft, locked>>
  BY DEF Take
<1>3. Working /\ ~AtSource
  BY <1>2 DEF Working, AtSource
<1>4. s \in Source /\ Affected(s) /\ repair.sources[s] # Null
  BY <1>3 DEF RepairInv, AsRead, Typed, Locals, Affected
<1>5. AsFound(s)
  BY <1>3, <1>4 DEF RepairInv, Progress, Waiting
<1>6. Tagged /\ MergedKept
  BY <1>3 DEF RepairInv, Carried, Active
<1>7. CASE CleanFor(s) = Null
  <2>1. /\ draftSources' = [draftSources EXCEPT ![s] = Null]
        /\ repair' = [repair EXCEPT !.todo = @ \ {s}]
    BY <1>1, <1>7 DEF CleanFor
  <2>2. /\ repair' \in Locals /\ repair'.pc = "next"
        /\ repair'.sources = repair.sources /\ repair'.todo = repair.todo \ {s}
        /\ repair'.source = repair.source /\ repair'.rows = repair.rows
        /\ repair'.merged = repair.merged
    BY <1>2, <2>1 DEF RepairInv, Typed, Locals
  <2>3. /\ draftSources' \in [Source -> SourceRow \union {Null}]
        /\ \A u \in Source \ {s} : draftSources'[u] = draftSources[u]
        /\ draftSources'[s] = Null
    BY <1>4, <2>1 DEF RepairInv, Typed
  <2>4. Typed' /\ Consistent' /\ Hosts' /\ Beside'
    BY <1>2, <2>2, <2>3
    DEF RepairInv, Typed, Consistent, Hosts, Beside, Rooted, Plain, Unique
  <2>5. AsRead'
    BY <1>2, <2>2 DEF RepairInv, AsRead, Working, AtSource, Affected, Rooted, Plain
  <2>6. ASSUME NEW u \in Source, repair.sources[u] # Null
        PROVE  /\ ~Affected(u) => draftSources'[u] = repair.sources[u]
               /\ Affected(u) /\ u \in repair.todo \ {s} => AsFound(u)'
               /\ Affected(u) /\ u \notin repair.todo \ {s} /\ CleanFor(u) # Null => Placed(u)'
    <3>1. /\ ~Affected(u) => draftSources[u] = repair.sources[u]
          /\ Affected(u) /\ u \in repair.todo => AsFound(u)
          /\ Affected(u) /\ u \notin repair.todo /\ CleanFor(u) # Null => Placed(u)
      BY <2>6, <1>3 DEF RepairInv, Progress, Waiting
    <3>2. ASSUME Affected(u), u \notin repair.todo \ {s}, CleanFor(u) # Null
          PROVE  Placed(u)'
      <4>1. PICK t \in Source :
              /\ draftSources[t] # Null
              /\ draftSources[t].message = repair.sources[u].message
              /\ draftSources[t].raw = CleanFor(u) /\ draftSources[t].url = CleanFor(u)
              /\ draftSources[t].link \in locked
              /\ draft[draftSources[t].link].domain = HostOf[CleanFor(u)]
              /\ Carries(repair.sources[u].link, draftSources[t].link)
        BY <3>1, <3>2, <1>7 DEF Placed
      <4>2. t # s
        BY <4>1, <3>2, <1>3, <1>4, <1>5, <1>7, StoredIsClean
      <4>3. draftSources'[t] = draftSources[t] /\ CleanFor(u)' = CleanFor(u)
        BY <4>2, <2>2, <2>3 DEF CleanFor
      <4> QED
        BY <4>1, <4>3, <2>2, <1>2 DEF Placed, Carries
    <3> QED
      BY <3>1, <3>2, <1>4, <2>2, <2>3 DEF AsFound
  <2>7. Progress'
    BY <2>2, <2>6 DEF Progress, Affected, CleanFor, Waiting, AtSource
  <2>8. Carried'
    BY <1>2, <1>4, <1>6, <2>2 DEF Carried, Tagged, MergedKept
  <2> QED
    BY <2>4, <2>5, <2>7, <2>8 DEF RepairInv
<1>8. CASE CleanFor(s) # Null
  <2>1. /\ repair' = [repair EXCEPT !.pc = "find", !.todo = @ \ {s}, !.source = s]
        /\ UNCHANGED draftSources
    BY <1>1, <1>5, <1>8 DEF CleanFor, AsFound
  <2>2. /\ repair' \in Locals /\ repair'.pc = "find"
        /\ repair'.sources = repair.sources /\ repair'.todo = repair.todo \ {s}
        /\ repair'.source = s /\ repair'.rows = repair.rows
        /\ repair'.merged = repair.merged
    BY <1>4, <2>1 DEF RepairInv, Typed, Locals
  <2>3. Typed' /\ Consistent' /\ Hosts' /\ Beside'
    BY <1>2, <2>1, <2>2
    DEF RepairInv, Typed, Consistent, Hosts, Beside, Rooted, Plain, Unique
  <2>4. AsRead'
    BY <1>2, <1>4, <1>8, <2>2
    DEF RepairInv, AsRead, Working, AtSource, Affected, Rooted, Plain, CleanFor
  <2>5. \A u \in Source : Waiting(u)' <=> Waiting(u)
    BY <1>3, <2>2 DEF Waiting, AtSource
  <2>6. Progress'
    <3> SUFFICES ASSUME NEW u \in Source, repair.sources[u] # Null
                 PROVE  /\ ~Affected(u) => draftSources[u] = repair.sources[u]
                        /\ Affected(u) /\ Waiting(u) => AsFound(u)'
                        /\ Affected(u) /\ ~Waiting(u) /\ CleanFor(u) # Null => Placed(u)'
      BY <2>1, <2>2, <2>5 DEF Progress, Affected, CleanFor
    <3>1. (AsFound(u) => AsFound(u)') /\ (Placed(u) => Placed(u)')
      BY <1>2, <2>1, <2>2 DEF AsFound, Placed, CleanFor, Carries
    <3> QED
      BY <3>1, <1>3 DEF RepairInv, Progress
  <2>7. Carried'
    BY <1>2, <1>4, <1>6, <2>2 DEF Carried, Tagged, MergedKept
  <2> QED
    BY <2>3, <2>4, <2>6, <2>7 DEF RepairInv
<1> QED
  BY <1>7, <1>8

LEMMA PlaceStep ==
  ASSUME RepairInv, Place
  PROVE  RepairInv'
<1> DEFINE s == repair.source
           k == repair.target
           c == CleanUrl
           m == repair.sources[s].message
           same == {t \in SourcesAt(draftSources, k) \ {s} :
                      draftSources[t].message = m /\ draftSources[t].url = c}
<1>1. /\ repair.pc = "place" /\ UNCHANGED <<row, sources, draft, locked>>
      /\ repair' = [repair EXCEPT !.pc = "next"]
      /\ draftSources' =
           IF same = {}
           THEN [draftSources EXCEPT ![s].link = k, ![s].raw = c, ![s].url = c]
           ELSE [t \in Source |-> IF t = s THEN Null
                                  ELSE IF t \in same /\ draftSources[t].raw \in Dirty
                                  THEN [draftSources[t] EXCEPT !.raw = c]
                                  ELSE draftSources[t]]
  BY DEF Place
<1>2. Working /\ AtSource
  BY <1>1 DEF Working, AtSource
<1>3. /\ s \in Source \ repair.todo /\ Affected(s) /\ CleanFor(s) # Null
      /\ k \in Found(HostOf[c]) /\ k \in locked
  BY <1>1, <1>2 DEF RepairInv, AsRead
<1>4. AsFound(s)
  BY <1>2, <1>3 DEF RepairInv, Progress, Waiting, Affected
<1>5. k \in Link /\ draft[k] # Null /\ draft[k].domain = HostOf[c]
  BY <1>3 DEF Found
<1>6. c \in Url /\ c \notin Dirty /\ c \in Raw /\ c = CleanFor(s)
  BY <1>1, OldLinkIsThere, RowsAreNotNull DEF Raw, CleanFor, CleanUrl
<1>7. /\ repair' \in Locals /\ repair'.pc = "next"
      /\ repair'.sources = repair.sources /\ repair'.todo = repair.todo
      /\ repair'.source = repair.source /\ repair'.rows = repair.rows
      /\ repair'.merged = repair.merged
  BY <1>1 DEF RepairInv, Typed, Locals
<1>8. draftSources[s] \in SourceRow /\ draftSources[s].message = m
  BY <1>3, <1>4 DEF RepairInv, Typed, AsFound
<1>9. Carries(repair.sources[s].link, k)
  BY <1>1 DEF RepairInv, Carried, OldLink
<1> HIDE DEF s, k, c, m
(* What becomes of the sources, in either case. *)
<1>10. /\ draftSources' \in [Source -> SourceRow \union {Null}]
       /\ \A t \in Source : draftSources'[t] # Null =>
            /\ draftSources[t] # Null
            /\ draftSources'[t].message = draftSources[t].message
            /\ \/ t = s /\ draftSources'[t].link = k /\ draftSources'[t].raw = c
                        /\ draftSources'[t].url = c
               \/ /\ t # s
                  /\ draftSources'[t].link = draftSources[t].link
                  /\ draftSources'[t].url = draftSources[t].url
                  /\ \/ draftSources'[t].raw = draftSources[t].raw
                     \/ draftSources'[t].raw = c /\ draftSources[t].url = c
       /\ \A t \in Source \ {s} :
            /\ draftSources[t] # Null => draftSources'[t] # Null
            /\ \/ draftSources'[t] = draftSources[t]
               \/ draftSources[t].raw \in Dirty
       /\ \E v \in Source : /\ draftSources'[v] # Null
                            /\ draftSources'[v].message = m /\ draftSources'[v].link = k
                            /\ draftSources'[v].raw = c /\ draftSources'[v].url = c
  <2>1. CASE same = {}
    <3> DEFINE moved == [draftSources[s] EXCEPT !.link = k, !.raw = c, !.url = c]
    <3>1. draftSources' = [draftSources EXCEPT ![s] = moved]
      BY <1>1, <2>1
    <3>2. /\ moved \in SourceRow /\ moved.message = m
          /\ moved.link = k /\ moved.raw = c /\ moved.url = c
      BY <1>5, <1>6, <1>8 DEF SourceRow
    <3> HIDE DEF moved
    <3>3. /\ draftSources' \in [Source -> SourceRow \union {Null}]
          /\ draftSources'[s] = moved
          /\ \A t \in Source \ {s} : draftSources'[t] = draftSources[t]
      BY <3>1, <3>2, <1>3 DEF RepairInv, Typed
    <3>4. draftSources[s] # Null /\ moved # Null
      BY <3>2, <1>8, RowsAreNotNull
    <3> QED
      BY <3>2, <3>3, <3>4, <1>3, <1>8
  <2>2. CASE same # {}
    <3> DEFINE cleaned(t) == [draftSources[t] EXCEPT !.raw = c]
    <3>1. draftSources' = [t \in Source |-> IF t = s THEN Null
                             ELSE IF t \in same /\ draftSources[t].raw \in Dirty
                             THEN cleaned(t) ELSE draftSources[t]]
      BY <1>1, <2>2
    <3>2. ASSUME NEW t \in same
          PROVE  /\ t \in Source /\ t # s /\ draftSources[t] \in SourceRow
                 /\ draftSources[t] # Null /\ draftSources[t].link = k
                 /\ draftSources[t].message = m /\ draftSources[t].url = c
                 /\ cleaned(t) \in SourceRow /\ cleaned(t) # Null
                 /\ cleaned(t).link = k /\ cleaned(t).raw = c
                 /\ cleaned(t).message = m /\ cleaned(t).url = c
      <4>1. t \in Source /\ t # s /\ draftSources[t] # Null /\ draftSources[t].link = k
        BY DEF SourcesAt
      <4>2. draftSources[t] \in SourceRow
        BY <4>1 DEF RepairInv, Typed
      <4>3. cleaned(t) \in SourceRow
        BY <4>2, <1>6 DEF SourceRow
      <4> QED
        BY <4>1, <4>2, <4>3, RowsAreNotNull DEF SourceRow
    <3> HIDE DEF cleaned
    <3>3. ASSUME NEW t \in same, draftSources[t].raw \notin Dirty
          PROVE  draftSources[t].raw = c
      <4>1. draftSources[t].url = Stored(draftSources[t].raw)
        BY <3>2 DEF RepairInv, Consistent, Plain
      <4> QED
        BY <3>2, <3>3, <4>1 DEF Stored
    <3>4. \A t \in same : t \in Source /\ t # s
      BY <3>2
    <3> HIDE DEF same
    <3>5. draftSources' \in [Source -> SourceRow \union {Null}]
      <4>1. \A t \in Source : draftSources[t] \in SourceRow \union {Null}
        BY DEF RepairInv, Typed
      <4> QED
        BY <3>1, <3>2, <4>1
    <3>6. /\ draftSources'[s] = Null
          /\ \A t \in Source \ {s} :
               \/ draftSources'[t] = draftSources[t]
               \/ /\ t \in same /\ draftSources[t].raw \in Dirty
                  /\ draftSources'[t] = cleaned(t)
      BY <3>1, <1>3
    <3>7. \A t \in same : \/ draftSources[t].raw \in Dirty /\ draftSources'[t] = cleaned(t)
                          \/ draftSources[t].raw = c /\ draftSources'[t] = draftSources[t]
      BY <3>1, <3>3, <3>4
    <3>8. \E v \in Source : /\ draftSources'[v] # Null
                            /\ draftSources'[v].message = m /\ draftSources'[v].link = k
                            /\ draftSources'[v].raw = c /\ draftSources'[v].url = c
      BY <2>2, <3>2, <3>7
    <3> QED
      BY <3>2, <3>5, <3>6, <3>8
  <2> QED
    BY <2>1, <2>2
<1>11. \A t \in Source \ {s} : draftSources[t] # Null =>
         /\ draftSources'[t] # Null
         /\ draftSources'[t].message = draftSources[t].message
         /\ draftSources'[t].link = draftSources[t].link
         /\ draftSources'[t].url = draftSources[t].url
  BY <1>10
<1>12. \A t \in Source \ {s} : \/ draftSources'[t] = draftSources[t]
                              \/ draftSources[t].raw \in Dirty
  BY <1>10
<1>13. PICK v \in Source : /\ draftSources'[v] # Null
                           /\ draftSources'[v].message = m /\ draftSources'[v].link = k
                           /\ draftSources'[v].raw = c /\ draftSources'[v].url = c
  BY <1>10
<1>14. Typed'
  BY <1>1, <1>7, <1>10 DEF RepairInv, Typed
<1>15. Rooted(draftSources, draft)'
  BY <1>1, <1>5, <1>10 DEF RepairInv, Consistent, Rooted
<1>16. Plain(draftSources)'
  <2>1. Stored(c) = c
    BY <1>6 DEF Stored
  <2> QED
    BY <2>1, <1>10 DEF RepairInv, Consistent, Plain
<1>17. Consistent' /\ Hosts' /\ Beside'
  <2>1. \A t \in Source : draftSources'[t] # Null => draftSources[t] # Null
    BY <1>10
  <2>2. UNCHANGED <<row, sources, draft, locked>>
    BY <1>1
  <2>3. Consistent'
    BY <2>2, <1>15, <1>16 DEF RepairInv, Consistent, Rooted, Plain
  <2>4. Hosts'
    BY <2>2 DEF RepairInv, Hosts, Unique
  <2>5. Beside'
    BY <2>1, <2>2, <1>7 DEF RepairInv, Beside
  <2> QED
    BY <2>3, <2>4, <2>5
<1>18. AsRead'
  BY <1>1, <1>7 DEF RepairInv, AsRead, Working, AtSource, Affected, Rooted, Plain
<1>19. ASSUME NEW u \in Source, repair.sources[u] # Null
       PROVE  /\ ~Affected(u) => draftSources'[u] = repair.sources[u]
              /\ Affected(u) /\ u \in repair.todo => AsFound(u)'
              /\ Affected(u) /\ u \notin repair.todo /\ CleanFor(u) # Null => Placed(u)'
  <2>1. /\ ~Affected(u) => draftSources[u] = repair.sources[u]
        /\ Affected(u) /\ u \in repair.todo => AsFound(u)
        /\ Affected(u) /\ u \notin repair.todo /\ u # s /\ CleanFor(u) # Null => Placed(u)
    BY <1>2, <1>19 DEF RepairInv, Progress, Waiting, s
  <2>2. ~Affected(u) => draftSources'[u] = repair.sources[u]
    BY <2>1, <1>3, <1>12, <1>19 DEF Affected
  <2>3. Affected(u) /\ u \in repair.todo => AsFound(u)'
    BY <2>1, <1>3, <1>7, <1>11 DEF AsFound
  <2>4. ASSUME Affected(u), m = repair.sources[u].message, c = CleanFor(u),
               Carries(repair.sources[u].link, k)
        PROVE  Placed(u)'
    <3>1. CleanFor(u)' = CleanFor(u)
      BY <1>7 DEF CleanFor
    <3>3. /\ locked' = locked /\ draft' = draft
          /\ repair'.sources = repair.sources /\ repair'.rows = repair.rows
      BY <1>1, <1>7
    <3>4. k \in locked /\ draft[k].domain = HostOf[c]
      BY <1>3, <1>5
    <3> QED
      BY <2>4, <3>1, <3>3, <3>4, <1>13 DEF Placed, Carries
  <2>5. ASSUME Affected(u), u \notin repair.todo, CleanFor(u) # Null, u # s
        PROVE  Placed(u)'
    <3>1. PICK t \in Source :
            /\ draftSources[t] # Null
            /\ draftSources[t].message = repair.sources[u].message
            /\ draftSources[t].raw = CleanFor(u) /\ draftSources[t].url = CleanFor(u)
            /\ draftSources[t].link \in locked
            /\ draft[draftSources[t].link].domain = HostOf[CleanFor(u)]
            /\ Carries(repair.sources[u].link, draftSources[t].link)
      BY <2>1, <2>5 DEF Placed
    <3>2. CASE t = s
      <4>1. CleanFor(s) = CleanFor(u)
        BY <3>1, <3>2, <2>5, <1>2, <1>3, <1>4, StoredIsClean
      <4>2. m = repair.sources[u].message /\ c = CleanFor(u)
        BY <4>1, <3>1, <3>2, <1>6, <1>8
      <4>3. draftSources[s].link = k
        <5>1. draftSources[s].link \in Link /\ draft[draftSources[s].link] # Null
          BY <1>3, <1>4, <1>8 DEF AsFound, RepairInv, Consistent, Rooted, SourceRow
        <5>2. draft[draftSources[s].link].domain = draft[k].domain
          BY <3>1, <3>2, <4>2, <1>5
        <5> QED
          BY <5>1, <5>2, <1>5 DEF RepairInv, Hosts, Unique
      <4> QED
        BY <3>1, <3>2, <4>2, <4>3, <2>4, <2>5
    <3>3. CASE t # s
      <4>1. CleanFor(u) \notin Dirty
        BY <2>5, RepairAssumption DEF CleanFor, Affected
      <4>2. draftSources'[t] = draftSources[t]
        BY <4>1, <3>1, <3>3, <1>12
      <4>3. CleanFor(u)' = CleanFor(u)
        BY <1>7 DEF CleanFor
      <4>4. /\ UNCHANGED <<draft, locked>>
            /\ repair'.sources = repair.sources /\ repair'.rows = repair.rows
        BY <1>1, <1>7
      <4> QED
        BY <3>1, <4>2, <4>3, <4>4 DEF Placed, Carries
    <3> QED
      BY <3>2, <3>3
  <2>6. Affected(u) /\ u = s => Placed(u)'
    BY <2>4, <1>6, <1>9 DEF m
  <2> QED
    BY <2>2, <2>3, <2>5, <2>6
<1>20. Progress'
  BY <1>7, <1>19 DEF Progress, Affected, CleanFor, Waiting, AtSource
<1>21. Carried'
  <2>1. Tagged /\ MergedKept
    BY <1>2 DEF RepairInv, Carried, Active
  <2> QED
    BY <2>1, <1>1, <1>7 DEF Carried, Tagged, MergedKept
<1> QED
  BY <1>14, <1>17, <1>18, <1>20, <1>21 DEF RepairInv

-----------------------------------------------------------------------------
(* What another transaction writes to a link that the repair has not       *)
(* locked, or that neither of them has yet.                                *)
Foreign(l, r) ==
  /\ \/ l \notin locked /\ row[l] # Null /\ r.tags = row[l].tags
     \/ row[l] = Null /\ draft[l] = Null
  /\ r \in Row
  /\ \A k \in Link \ {l} : /\ row[k] # Null => row[k].domain # r.domain
                           /\ draft[k] # Null => draft[k].domain # r.domain
  /\ row' = [row EXCEPT ![l] = r] /\ draft' = [draft EXCEPT ![l] = r]
  /\ UNCHANGED <<locked, repair>>

LEMMA ForeignKeeps ==
  ASSUME RepairInv, NEW l \in Link, NEW r, Foreign(l, r)
  PROVE  /\ row' \in [Link -> Row \union {Null}] /\ draft' \in [Link -> Row \union {Null}]
         /\ row'[l] = r /\ draft'[l] = r /\ r # Null
         /\ \A k \in Link \ {l} : row'[k] = row[k] /\ draft'[k] = draft[k]
         /\ \A k \in Link \ locked : draft'[k] = row'[k]
         /\ Hosts' /\ AsRead' /\ Carried'
         /\ \A k \in locked : draft[k] # Null => draft'[k] = draft[k]
<1>1. /\ row' \in [Link -> Row \union {Null}] /\ draft' \in [Link -> Row \union {Null}]
      /\ row'[l] = r /\ draft'[l] = r /\ r # Null /\ r \in Row
      /\ \A k \in Link \ {l} : row'[k] = row[k] /\ draft'[k] = draft[k]
  BY RowsAreNotNull DEF Foreign, RepairInv, Typed
<1>2. \A k \in Link \ locked : draft'[k] = row'[k]
  BY <1>1 DEF RepairInv, Beside
<1>3. \A k \in locked : draft[k] # Null => draft'[k] = draft[k]
  BY <1>1 DEF Foreign, RepairInv, Typed
<1>4. repair' = repair /\ locked' = locked
  BY DEF Foreign
<1>5. ASSUME repair.pc \in {"merge", "place"}
      PROVE  /\ repair.target \in Found(HostOf[CleanUrl])' /\ repair.target \in locked
             /\ draft'[repair.target] = draft[repair.target]
  <2>1. repair.target \in Found(HostOf[CleanUrl]) /\ repair.target \in locked
    BY <1>5 DEF RepairInv, AsRead, Working
  <2>2. CleanUrl' = CleanUrl
    BY <1>4 DEF CleanUrl
  <2> QED
    BY <2>1, <2>2, <1>3 DEF Found
<1>6. repair.pc = "url" => draft'[repair.target] # Null
  BY <1>1 DEF RepairInv, AsRead, Working
<1>7. AsRead'
  BY <1>4, <1>5, <1>6 DEF RepairInv, AsRead, Working, AtSource, Affected, CleanFor
<1>8. Hosts'
  BY <1>1 DEF Foreign, RepairInv, Hosts, Unique
<1>9. Carried'
  <2>1. ASSUME Working, Active
        PROVE  Tagged' /\ MergedKept'
    <3>1. Tagged /\ MergedKept
      BY <2>1 DEF RepairInv, Carried
    <3>2. ASSUME NEW k \in Link, draft[k] # Null
          PROVE  draft'[k] \in Row /\ draft[k].tags \subseteq draft'[k].tags
      <4>1. CASE k = l
        <5>1. l \notin locked /\ draft[l] = row[l] /\ r.tags = row[l].tags
          BY <3>2, <4>1 DEF Foreign, RepairInv, Beside
        <5> QED
          BY <4>1, <5>1, <1>1
      <4>2. CASE k # l
        BY <3>2, <4>2, <1>1 DEF RepairInv, Typed
      <4> QED
        BY <4>1, <4>2
    <3>3. \A k \in locked : draft[k] # Null => Keeps(draft[k], draft'[k])
      BY <1>3, KeepsItself DEF RepairInv, Typed
    <3> QED
      BY <3>1, <3>2, <3>3, <1>4, CarriedStays DEF RepairInv
  <2>2. OldLink' = OldLink
    BY <1>4 DEF OldLink
  <2>3. repair.pc = "place" => Carries(OldLink, repair.target)'
    BY <2>2, <1>4, <1>5 DEF RepairInv, Carried, Carries
  <2>4. (Working' <=> Working) /\ (Active' <=> Active)
    BY <1>4 DEF Working, Active, AtSource
  <2> QED
    BY <2>1, <2>3, <2>4, <1>4 DEF RepairInv, Carried
<1> QED
  BY <1>1, <1>2, <1>3, <1>7, <1>8, <1>9

(* So Progress holds too, whatever sources are added. *)
LEMMA ForeignProgress ==
  ASSUME RepairInv, NEW l \in Link, NEW r, Foreign(l, r),
         \A s \in Source : draftSources[s] # Null => draftSources'[s] = draftSources[s]
  PROVE  Progress'
<1>1. repair' = repair /\ locked' = locked
  BY DEF Foreign
<1>2. CASE ~Working
  BY <1>2, <1>1 DEF Progress, Working
<1>3. CASE Working
  <2>1. AtSource' = AtSource
    BY <1>1 DEF AtSource
  <2>2. ASSUME NEW s \in Source, draftSources[s] # Null, draftSources[s].link \in locked
        PROVE  LET k == draftSources[s].link
               IN /\ draft'[k] \in Row /\ draft'[k].domain = draft[k].domain
                  /\ Keeps(draft[k], draft'[k])
    <3>1. draft[draftSources[s].link] \in Row
      BY <2>2 DEF RepairInv, Typed, Consistent, Rooted, SourceRow
    <3>2. draft'[draftSources[s].link] = draft[draftSources[s].link]
      BY <2>2, <3>1, ForeignKeeps, RowsAreNotNull
    <3> QED
      BY <3>1, <3>2, KeepsItself
  <2> QED
    BY <1>1, <1>3, <2>1, <2>2, ProgressStays DEF RepairInv
<1> QED
  BY <1>2, <1>3

(* An edit leaves the tags, and takes no host that another link has. *)
LEMMA EditStep ==
  ASSUME RepairInv, NEW l \in Link, NEW r \in Row, row[l] # Null, r.tags = row[l].tags,
         \/ r.domain = row[l].domain
         \/ \A k \in Link \ {l} : /\ row[k] # Null => row[k].domain # r.domain
                                  /\ draft[k] # Null => draft[k].domain # r.domain,
         Edit(l, r)
  PROVE  RepairInv'
<1>1. l \notin locked /\ draft[l] = row[l]
  BY DEF Edit, RepairInv, Beside
<1>2. \A k \in Link \ {l} : /\ row[k] # Null => row[k].domain # r.domain
                            /\ draft[k] # Null => draft[k].domain # r.domain
  BY <1>1 DEF RepairInv, Hosts, Unique
<1>3. Foreign(l, r) /\ UNCHANGED <<sources, draftSources, locked, repair>>
  BY <1>1, <1>2 DEF Edit, Foreign
<1>4. /\ row' \in [Link -> Row \union {Null}] /\ draft' \in [Link -> Row \union {Null}]
      /\ row'[l] = r /\ draft'[l] = r /\ r # Null
      /\ \A k \in Link \ {l} : row'[k] = row[k] /\ draft'[k] = draft[k]
      /\ \A k \in Link \ locked : draft'[k] = row'[k]
      /\ Hosts' /\ AsRead' /\ Carried'
  BY <1>3, ForeignKeeps
<1>5. Typed'
  BY <1>3, <1>4 DEF RepairInv, Typed
<1>6. Rooted(sources, row') /\ Rooted(draftSources, draft')
  BY <1>4 DEF RepairInv, Consistent, Rooted, Typed, SourceRow
<1>7. Consistent' /\ Beside'
  BY <1>3, <1>4, <1>6 DEF RepairInv, Consistent, Beside, Rooted, Plain
<1>8. Progress'
  BY <1>3, ForeignProgress
<1> QED
  BY <1>4, <1>5, <1>7, <1>8 DEF RepairInv

LEMMA AdministratorsStep ==
  ASSUME RepairInv, Organize \/ Archive \/ Move
  PROVE  RepairInv'
<1>1. \A l \in Link : row[l] # Null => row[l] \in Row
  BY DEF RepairInv, Typed
<1>2. CASE Organize
  <2>1. PICK l \in Link, c \in Category \union {Null}, s \in OrganizationStatus :
          row[l] # Null /\ Edit(l, [row[l] EXCEPT !.category = c, !.status = s])
    BY <1>2 DEF Organize
  <2> DEFINE r == [row[l] EXCEPT !.category = c, !.status = s]
  <2>2. r \in Row /\ r.tags = row[l].tags /\ r.domain = row[l].domain
    BY <1>1, <2>1 DEF Row
  <2> HIDE DEF r
  <2>3. row[l] # Null /\ Edit(l, r)
    BY <2>1 DEF r
  <2> QED
    BY <2>2, <2>3, EditStep
<1>3. CASE Archive
  <2>1. PICK l \in Link : row[l] # Null /\ Edit(l, [row[l] EXCEPT !.archived = ~@])
    BY <1>3 DEF Archive
  <2> DEFINE r == [row[l] EXCEPT !.archived = ~@]
  <2>2. r \in Row /\ r.tags = row[l].tags /\ r.domain = row[l].domain
    BY <1>1, <2>1 DEF Row
  <2> HIDE DEF r
  <2>3. row[l] # Null /\ Edit(l, r)
    BY <2>1 DEF r
  <2> QED
    BY <2>2, <2>3, EditStep
<1>4. CASE Move
  <2>1. PICK l \in Link, u \in Url :
          /\ row[l] # Null
          /\ \A k \in Link \ {l} : /\ row[k] # Null => row[k].domain # HostOf[u]
                                   /\ draft[k] # Null => draft[k].domain # HostOf[u]
          /\ Edit(l, [row[l] EXCEPT !.domain = HostOf[u], !.url = u])
    BY <1>4 DEF Move
  <2>2. HostOf[u] \in Host
    BY RepairAssumption
  <2> DEFINE r == [row[l] EXCEPT !.domain = HostOf[u], !.url = u]
  <2>3. r \in Row /\ r.tags = row[l].tags /\ r.domain = HostOf[u]
    BY <1>1, <2>1, <2>2 DEF Row
  <2> HIDE DEF r
  <2>4. row[l] # Null /\ Edit(l, r)
    BY <2>1 DEF r
  <2> QED
    BY <2>1, <2>3, <2>4, EditStep
<1> QED
  BY <1>2, <1>3, <1>4

LEMMA ScanStoreStep ==
  ASSUME RepairInv, ScanStore
  PROVE  RepairInv'
<1>1. PICK l \in Link, u \in Url, m \in Message, j \in Job, s \in Source,
             d \in Category \union {Null} :
        /\ ScanLink(l, u) /\ NextSource(s)
        /\ \A t \in SourcesAt(sources, l) :
             sources[t].message = m => sources[t].url # u
        /\ sources' = [sources EXCEPT ![s] = ScanSource(l, u, m, j)]
        /\ draftSources' = [draftSources EXCEPT ![s] = ScanSource(l, u, m, j)]
        /\ row' = [row EXCEPT ![l] = ScanRow(l, u, m, d)]
        /\ draft' = [draft EXCEPT ![l] = ScanRow(l, u, m, d)]
        /\ stored' = IF repair.pc = "idle" THEN stored ELSE stored \union {l}
  BY DEF ScanStore
<1> DEFINE new == ScanSource(l, u, m, j)
           r == ScanRow(l, u, m, d)
<1>2. UNCHANGED <<locked, repair>>
  BY DEF ScanStore
<1>3. r \in Row
  <2>1. HostOf[u] \in Host /\ SentAt[m] \in Nat
    BY RepairAssumption
  <2>2. row[l] \in Row \union {Null}
    BY DEF RepairInv, Typed
  <2> QED
    BY <2>1, <2>2 DEF ScanRow, Coalesce, Row, OrganizationStatus
<1>4. new \in SourceRow /\ new # Null /\ new.link = l /\ new.url = Stored(new.raw)
  <2>1. new \in SourceRow
    BY DEF ScanSource, SourceRow, Raw
  <2>2. Stored(u) = u
    BY RepairAssumption DEF Stored
  <2> QED
    BY <2>1, <2>2, RowsAreNotNull DEF ScanSource
<1>5. Foreign(l, r)
  <2>1. row[l] # Null => /\ l \notin locked /\ row[l].domain = HostOf[u]
                         /\ draft[l] = row[l]
    BY <1>1 DEF ScanLink, RepairInv, Beside
  <2>2. /\ r.domain = IF row[l] # Null THEN row[l].domain ELSE HostOf[u]
        /\ row[l] # Null => r.tags = row[l].tags
    BY DEF RepairInv, Typed, Row, ScanRow
  <2>3. \A k \in Link \ {l} : /\ row[k] # Null => row[k].domain # r.domain
                              /\ draft[k] # Null => draft[k].domain # r.domain
    <3>1. CASE row[l] # Null
      BY <3>1, <2>1, <2>2 DEF RepairInv, Hosts, Unique
    <3>2. CASE row[l] = Null
      BY <3>2, <2>2, <1>1 DEF ScanLink
    <3> QED
      BY <3>1, <3>2
  <2>4. row[l] # Null \/ draft[l] = Null
    BY <1>1 DEF ScanLink
  <2> QED
    BY <2>1, <2>2, <2>3, <2>4, <1>1, <1>2, <1>3 DEF Foreign
<1> HIDE DEF new, r
<1>6. /\ row' \in [Link -> Row \union {Null}] /\ draft' \in [Link -> Row \union {Null}]
      /\ row'[l] = r /\ draft'[l] = r /\ r # Null
      /\ \A k \in Link \ {l} : row'[k] = row[k] /\ draft'[k] = draft[k]
      /\ \A k \in Link \ locked : draft'[k] = row'[k]
      /\ Hosts' /\ AsRead' /\ Carried'
  BY <1>5, ForeignKeeps
<1>7. sources[s] = Null /\ draftSources[s] = Null
  BY <1>1 DEF NextSource, Source, RepairInv, Beside
<1>8. /\ sources' \in [Source -> SourceRow \union {Null}]
      /\ draftSources' \in [Source -> SourceRow \union {Null}]
      /\ sources'[s] = new /\ draftSources'[s] = new
      /\ \A t \in Source \ {s} : sources'[t] = sources[t] /\ draftSources'[t] = draftSources[t]
  BY <1>1, <1>4 DEF RepairInv, Typed, new
<1>9. Typed'
  BY <1>2, <1>6, <1>8 DEF RepairInv, Typed
<1>10. Rooted(sources, row)' /\ Rooted(draftSources, draft)'
  <2>1. ASSUME NEW S, NEW R, NEW S2, NEW R2, Rooted(S, R),
               S \in [Source -> SourceRow \union {Null}],
               S2[s] = new, \A t \in Source \ {s} : S2[t] = S[t],
               R2[l] = r, \A k \in Link \ {l} : R2[k] = R[k]
        PROVE  Rooted(S2, R2)
    BY <2>1, <1>4, <1>6 DEF Rooted, SourceRow
  <2> QED
    BY <2>1, <1>6, <1>8 DEF RepairInv, Consistent, Typed
<1>11. Plain(sources)' /\ Plain(draftSources)'
  BY <1>4, <1>8 DEF RepairInv, Consistent, Plain
<1>12. Beside'
  BY <1>1, <1>2, <1>4, <1>6, <1>8 DEF RepairInv, Beside, new
<1>13. Progress'
  BY <1>5, <1>7, <1>8, ForeignProgress
<1> QED
  BY <1>6, <1>9, <1>10, <1>11, <1>12, <1>13 DEF RepairInv, Consistent

-----------------------------------------------------------------------------
(* The invariant, for every instance. *)
THEOREM RepairInvariant == Spec => []RepairInv
<1>1. Init => RepairInv
  BY InitIsSafe
<1>2. RepairInv /\ [Next]_vars => RepairInv'
  <2> SUFFICES ASSUME RepairInv, [Next]_vars
               PROVE  RepairInv'
    OBVIOUS
  <2>1. CASE Repair
    BY <2>1, BeginStep, ReadStep, TakeStep, FindStep, CloneStep, MergeStep, PlaceStep,
       EmptyStep, LatestStep, WriteUrlStep, EndStep DEF Repair
  <2>2. CASE Organize \/ Archive \/ Move
    BY <2>2, AdministratorsStep
  <2>3. CASE ScanBegin \/ ScanEnd \/ UNCHANGED vars
    <3>1. UNCHANGED <<row, sources, draft, draftSources, locked, repair>>
      BY <2>3 DEF ScanBegin, ScanEnd, vars, linkVars
    <3> QED
      BY <3>1 DEF RepairInv, Typed, Consistent, Hosts, Beside, AsRead, Carried, Progress,
                  Working, AtSource, Rooted, Plain, Unique, Affected, CleanFor, CleanUrl,
                  OldLink, Found, Active, Tagged, MergedKept, Carries, Waiting, AsFound,
                  Placed
  <2>4. CASE ScanStore
    BY <2>4, ScanStoreStep
  <2> QED
    BY <2>1, <2>2, <2>3, <2>4 DEF Next, World
<1> QED
  BY <1>1, <1>2, PTL DEF Spec

(* The repair loses no source and leaves none with a Han character that it *)
(* has read, in whatever order the rows come and whoever writes beside it  *)
(* (lines 354-482 of the script).                                          *)
THEOREM SourcesArePlacedHolds == Spec => []SourcesArePlaced
<1>1. RepairInv => SourcesArePlaced
  <2> SUFFICES ASSUME RepairInv, Ready, NEW s \in Source, repair.sources[s] # Null
               PROVE  LET old == repair.sources[s]
                          clean == CleanOf[old.raw]
                      IN IF old.raw \notin Dirty
                         THEN draftSources[s] = old /\ draft[old.link] # Null
                         ELSE clean # Null => \E t \in Source :
                                /\ draftSources[t] # Null
                                /\ draftSources[t].message = old.message
                                /\ draftSources[t].raw = clean
                                /\ draftSources[t].url = clean
                                /\ draftSources[t].link \in Found(HostOf[clean])
    BY DEF SourcesArePlaced
  <2>1. Working /\ ~Waiting(s)
    BY DEF Ready, Working, Waiting, AtSource
  <2>2. CASE ~Affected(s)
    <3>1. draftSources[s] = repair.sources[s]
      BY <2>1, <2>2 DEF RepairInv, Progress
    <3>2. draft[repair.sources[s].link] # Null
      BY <3>1 DEF RepairInv, Consistent, Rooted
    <3> QED
      BY <2>2, <3>1, <3>2 DEF Affected
  <2>3. CASE Affected(s) /\ CleanFor(s) # Null
    <3>1. PICK t \in Source :
            /\ draftSources[t] # Null
            /\ draftSources[t].message = repair.sources[s].message
            /\ draftSources[t].raw = CleanFor(s) /\ draftSources[t].url = CleanFor(s)
            /\ draftSources[t].link \in locked
            /\ draft[draftSources[t].link].domain = HostOf[CleanFor(s)]
      BY <2>1, <2>3 DEF RepairInv, Progress, Placed
    <3>2. draftSources[t].link \in Found(HostOf[CleanFor(s)])
      BY <3>1 DEF RepairInv, Typed, Consistent, Rooted, Found
    <3> QED
      BY <2>3, <3>1, <3>2 DEF Affected, CleanFor
  <2> QED
    BY <2>2, <2>3 DEF Affected, CleanFor
<1> QED
  BY <1>1, RepairInvariant, PTL

(* What administrators made of a link goes along with its sources to every *)
(* link they go to: merged, cloned, or merged into a clone (lines 70-185). *)
THEOREM OrganizationIsKeptHolds == Spec => []OrganizationIsKept
<1>1. RepairInv => OrganizationIsKept
  <2> SUFFICES ASSUME RepairInv, Ready, NEW s \in Source, Affected(s), CleanFor(s) # Null,
                      NEW k \in Found(HostOf[CleanFor(s)]), k # repair.sources[s].link
               PROVE  Keeps(repair.rows[repair.sources[s].link], draft[k])
    BY DEF OrganizationIsKept, Affected, CleanFor
  <2>1. Working /\ ~Waiting(s)
    BY DEF Ready, Working, Waiting, AtSource
  <2>2. PICK t \in Source :
          /\ draftSources[t] # Null
          /\ draftSources[t].link \in locked
          /\ draft[draftSources[t].link].domain = HostOf[CleanFor(s)]
          /\ Carries(repair.sources[s].link, draftSources[t].link)
    BY <2>1 DEF RepairInv, Progress, Placed, Affected
  <2>3. draftSources[t].link \in Link /\ draft[draftSources[t].link] # Null
    BY <2>2 DEF RepairInv, Typed, Consistent, Rooted
  <2>4. draftSources[t].link = k
    BY <2>2, <2>3 DEF Found, RepairInv, Hosts, Unique
  <2> QED
    BY <2>2, <2>4 DEF Carries
<1> QED
  BY <1>1, RepairInvariant, PTL

-----------------------------------------------------------------------------
(* All rows there are, as committed, as changed and as read. *)
Categorized(R) == \A l \in Link : R[l] # Null => CanOrganize(R[l])

CategoryInv == Categorized(row) /\ Categorized(draft) /\ Categorized(repair.rows)

(* A merge of two rows with categories has one if it is organized. *)
LEMMA MergedIsCategorized ==
  ASSUME NEW r \in Row, NEW q \in Row, CanOrganize(r), CanOrganize(q), NEW T \in SUBSET Tag
  PROVE  CanOrganize([Merged(r, q) EXCEPT !.tags = @ \union T])
<1> DEFINE n == [Merged(r, q) EXCEPT !.tags = @ \union T]
<1>1. Merged(r, q) \in Row
  BY MergedIsRow
<1>2. n.status = Merged(r, q).status /\ n.category = Merged(r, q).category
  BY <1>1 DEF Row
<1>3. CanOrganize(Merged(r, q))
  BY DEF CanOrganize, Merged, Coalesce, Row
<1> QED
  BY <1>2, <1>3 DEF CanOrganize

(* A row is replaced by one that may be organized if it is. *)
LEMMA CategorizedStays ==
  ASSUME NEW R \in [Link -> Row \union {Null}], NEW l \in Link, NEW r,
         Categorized(R), CanOrganize(r)
  PROVE  Categorized([R EXCEPT ![l] = r])
BY DEF Categorized

LEMMA CategoryInit ==
  ASSUME Init
  PROVE  CategoryInv
<1>1. PICK f \in Histories, o \in [Host -> Organized] :
        \E newest \in [Linked(InitialSources(f)) -> DOMAIN f] :
          row = InitialRows(InitialSources(f), newest, o)
  BY DEF Init
<1> DEFINE S == InitialSources(f)
           HostAt(l) == CHOOSE g \in Linked(S) : LinkOf[g] = l
<1>2. PICK newest \in [Linked(S) -> DOMAIN f] :
        row = [l \in Link |->
                 IF \E h \in Linked(S) : LinkOf[h] = l
                 THEN InitialRow(HostAt(l), S[newest[HostAt(l)]].url, o[HostAt(l)])
                 ELSE Null]
  BY <1>1 DEF InitialRows
<1>3. ASSUME NEW l \in Link, row[l] # Null
      PROVE  CanOrganize(row[l])
  <2>1. HostAt(l) \in Linked(S)
        /\ row[l] = InitialRow(HostAt(l), S[newest[HostAt(l)]].url, o[HostAt(l)])
    BY <1>2, <1>3
  <2>2. o[HostAt(l)] \in Organized
    BY <2>1 DEF Linked
  <2>3. o[HostAt(l)].status = "ORGANIZED" => o[HostAt(l)].category # Null
    BY <2>2, RepairAssumption
  <2>4. /\ row[l].status = o[HostAt(l)].status
        /\ row[l].category = o[HostAt(l)].category
    BY <2>1 DEF InitialRow
  <2> QED
    BY <2>3, <2>4 DEF CanOrganize
<1>4. draft = row /\ repair = Idle
  BY DEF Init
<1> QED
  BY <1>3, <1>4 DEF CategoryInv, Categorized, Idle

LEMMA CategoryStep ==
  ASSUME CategoryInv, RepairInv, [Next]_vars
  PROVE  CategoryInv'
<1> DEFINE SameRows == repair'.rows = repair.rows
<1>1. CASE Begin \/ Read \/ Commit \/ Abort
  <2>1. /\ \A l \in Link : Idle.rows[l] = Null
        /\ [Idle EXCEPT !.pc = "read"].rows = Idle.rows
    BY DEF Idle
  <2>2. CASE Read
    <3>1. row' = row /\ draft' = draft /\ repair'.rows = row
      BY <2>2 DEF Read, linkVars, RepairInv, Typed, Locals
    <3> QED
      BY <3>1 DEF CategoryInv, Categorized
  <2>3. CASE Begin \/ Commit \/ Abort
    <3>1. /\ row' \in {row, draft} /\ draft' \in {row, draft}
          /\ repair'.rows = Idle.rows
      BY <2>1, <2>3 DEF Begin, Commit, Abort, linkVars
    <3> QED
      BY <2>1, <3>1 DEF CategoryInv, Categorized
  <2> QED
    BY <1>1, <2>2, <2>3
<1>2. CASE Take \/ Find \/ Place \/ Latest \/ UNCHANGED vars \/ ScanBegin \/ ScanEnd
  <2>1. UNCHANGED <<row, draft>> /\ SameRows
    BY <1>2 DEF Take, Find, Place, Latest, ScanBegin, ScanEnd, vars, linkVars,
                RepairInv, Typed, Locals
  <2> QED
    BY <2>1 DEF CategoryInv, Categorized
<1>3. CASE Empty
  <2>1. row' = row /\ SameRows /\ \A l \in Link : draft'[l] \in {draft[l], Null}
    BY <1>3 DEF Empty, RepairInv, Typed, Locals
  <2> QED
    BY <2>1 DEF CategoryInv, Categorized
<1>4. CASE Clone
  <2>1. repair.rows[OldLink] \in Row /\ CanOrganize(repair.rows[OldLink])
    BY <1>4, OldLinkIsThere, RowsAreNotNull DEF Clone, CategoryInv, Categorized
  <2>2. PICK l \in Link :
          draft' = [draft EXCEPT ![l] =
            [repair.rows[OldLink] EXCEPT !.domain = HostOf[CleanUrl], !.url = CleanUrl,
                                         !.tags = draft[OldLink].tags]]
    BY <1>4 DEF Clone
  <2>3. CanOrganize([repair.rows[OldLink] EXCEPT !.domain = HostOf[CleanUrl],
                       !.url = CleanUrl, !.tags = draft[OldLink].tags])
    BY <2>1 DEF CanOrganize, Row
  <2>4. row' = row /\ SameRows
    BY <1>4 DEF Clone, RepairInv, Typed, Locals
  <2> QED
    BY <2>2, <2>3, <2>4, CategorizedStays DEF CategoryInv, RepairInv, Typed
<1>5. CASE Merge
  <2>1. /\ repair.rows[OldLink] \in Row /\ CanOrganize(repair.rows[OldLink])
        /\ draft[OldLink].tags \in SUBSET Tag
    BY <1>5, OldLinkIsThere, RowsAreNotNull DEF Merge, CategoryInv, Categorized, Row
  <2>2. repair.target \in Link /\ draft[repair.target] \in Row
    BY <1>5 DEF Merge, RepairInv, AsRead, Working, Found, Typed
  <2>3. CanOrganize(draft[repair.target])
    BY <2>2, RowsAreNotNull DEF CategoryInv, Categorized
  <2>4. draft' = [draft EXCEPT ![repair.target] =
           [Merged(draft[repair.target], repair.rows[OldLink])
              EXCEPT !.tags = @ \union draft[OldLink].tags]]
    BY <1>5 DEF Merge
  <2>5. row' = row /\ SameRows
    BY <1>5 DEF Merge, RepairInv, Typed, Locals
  <2> QED
    BY <2>1, <2>2, <2>3, <2>4, <2>5, MergedIsCategorized, CategorizedStays
    DEF CategoryInv, RepairInv, Typed
<1>6. CASE WriteUrl
  <2>1. repair.target \in Link /\ draft[repair.target] \in Row
    BY <1>6 DEF WriteUrl, RepairInv, AsRead, Working, Typed
  <2>2. CanOrganize([draft[repair.target] EXCEPT !.url = repair.url])
    BY <2>1, RowsAreNotNull DEF CategoryInv, Categorized, CanOrganize, Row
  <2>3. /\ draft' = [draft EXCEPT ![repair.target] =
                      [draft[repair.target] EXCEPT !.url = repair.url]]
        /\ row' = row /\ SameRows
    BY <1>6 DEF WriteUrl, RepairInv, Typed, Locals
  <2> QED
    BY <2>1, <2>2, <2>3, CategorizedStays DEF CategoryInv, RepairInv, Typed
<1>7. ASSUME NEW l \in Link, NEW r, Edit(l, r)
      PROVE  CategoryInv'
  <2>1. /\ CanOrganize(r) /\ repair' = repair
        /\ row' = [row EXCEPT ![l] = r] /\ draft' = [draft EXCEPT ![l] = r]
    BY <1>7 DEF Edit
  <2> QED
    BY <2>1, CategorizedStays DEF CategoryInv, RepairInv, Typed
<1>8. CASE Organize \/ Archive \/ Move
  BY <1>7, <1>8 DEF Organize, Archive, Move
<1>9. CASE ScanStore
  <2>1. PICK l \in Link, u \in Url, m \in Message, j \in Job, s \in Source,
             d \in Category \union {Null} :
        /\ ScanLink(l, u) /\ NextSource(s)
        /\ \A t \in SourcesAt(sources, l) :
             sources[t].message = m => sources[t].url # u
        /\ sources' = [sources EXCEPT ![s] = ScanSource(l, u, m, j)]
        /\ draftSources' = [draftSources EXCEPT ![s] = ScanSource(l, u, m, j)]
        /\ row' = [row EXCEPT ![l] = ScanRow(l, u, m, d)]
        /\ draft' = [draft EXCEPT ![l] = ScanRow(l, u, m, d)]
        /\ stored' = IF repair.pc = "idle" THEN stored ELSE stored \union {l}
    BY <1>9 DEF ScanStore
  <2>2. CanOrganize(ScanRow(l, u, m, d))
    <3>1. CASE row[l] = Null
      <4>1. ScanRow(l, u, m, d).status = "PENDING"
        BY <3>1 DEF ScanRow
      <4> QED
        BY <4>1 DEF CanOrganize
    <3>2. CASE row[l] # Null
      <4>1. row[l] \in Row /\ CanOrganize(row[l])
        BY <3>2 DEF CategoryInv, Categorized, RepairInv, Typed
      <4>2. ScanRow(l, u, m, d).status = row[l].status
        BY <3>2, <4>1 DEF ScanRow, Row
      <4>3. row[l].status = "ORGANIZED" => ScanRow(l, u, m, d).category = row[l].category
        BY <3>2, <4>1 DEF ScanRow, Row
      <4> QED
        BY <4>1, <4>2, <4>3 DEF CanOrganize
    <3> QED
      BY <3>1, <3>2
  <2>3. repair' = repair
    BY <1>9 DEF ScanStore
  <2> QED
    BY <2>1, <2>2, <2>3, CategorizedStays DEF CategoryInv, RepairInv, Typed
<1> QED
  BY <1>1, <1>2, <1>3, <1>4, <1>5, <1>6, <1>8, <1>9 DEF Next, Repair, World

(* An organized link has a category, whatever is merged and edited         *)
(* meanwhile (mergedMetadata, lines 70-102).                               *)
THEOREM OrganizedHasCategoryHolds == Spec => []OrganizedHasCategory
<1>1. Init => CategoryInv
  BY CategoryInit
<1>2. CategoryInv /\ RepairInv /\ [Next]_vars => CategoryInv'
  BY CategoryStep
<1>3. CategoryInv => OrganizedHasCategory
  BY DEF CategoryInv, Categorized, OrganizedHasCategory
<1> QED
  BY <1>1, <1>2, <1>3, RepairInvariant, PTL DEF Spec

-----------------------------------------------------------------------------
(* Whose URL a link has. *)

(* It is that of a source of l that none of its sources is newer than. *)
IsNewest(url, S, l) ==
  \E s \in SourcesAt(S, l) :
    /\ url = S[s].url
    /\ \A t \in SourcesAt(S, l) : SentAt[S[t].message] <= SentAt[S[s].message]

Leads(R, S, l) ==
  R[l] # Null /\ SourcesAt(S, l) # {} => IsNewest(R[l].url, S, l)

(* The links whose URL is the scans' and the repair's. *)
Untouched == Link \ (edited \union stored)

(* Links whose URL the repair has yet to choose, or to write. *)
ToChoose(l) == Working /\ l \in repair.touched
ToWrite(l)  == repair.pc = "url" /\ l = repair.target

(* Sources leave, and arrive at, only links that are chosen for later. *)
TouchedInTime ==
  /\ Working => \A s \in Source :
       Affected(s) /\ Waiting(s) => repair.sources[s].link \in repair.touched
  /\ repair.pc \in {"merge", "place"} => repair.target \in repair.touched

UrlsLead ==
  /\ \A l \in Untouched : Leads(row, sources, l)
  /\ \A l \in Untouched : ToChoose(l) \/ ToWrite(l) \/ Leads(draft, draftSources, l)
  /\ \A l \in Untouched : ToWrite(l) => IsNewest(repair.url, draftSources, l)

(* The inductive invariant of the URLs. *)
UrlInv == RepairInv /\ TouchedInTime /\ UrlsLead

(* A link keeps its sources and their URLs. *)
SameSources(S, S2, l) ==
  \A s \in Source :
    /\ s \in SourcesAt(S2, l) <=> s \in SourcesAt(S, l)
    /\ s \in SourcesAt(S, l) => S2[s].message = S[s].message /\ S2[s].url = S[s].url

LEMMA NewestStays ==
  ASSUME NEW S, NEW S2, NEW l, NEW url, SameSources(S, S2, l), IsNewest(url, S, l)
  PROVE  IsNewest(url, S2, l)
<1>1. PICK s \in SourcesAt(S, l) :
        /\ url = S[s].url
        /\ \A t \in SourcesAt(S, l) : SentAt[S[t].message] <= SentAt[S[s].message]
  BY DEF IsNewest
<1>2. \A t \in SourcesAt(S, l) \union SourcesAt(S2, l) : t \in Source
  BY DEF SourcesAt
<1>3. /\ \A t \in SourcesAt(S2, l) : t \in SourcesAt(S, l) /\ S2[t].message = S[t].message
      /\ s \in SourcesAt(S2, l) /\ S2[s].message = S[s].message /\ S2[s].url = S[s].url
  BY <1>1, <1>2 DEF SameSources
<1> HIDE DEF SourcesAt
<1> QED
  BY <1>1, <1>3 DEF IsNewest

LEMMA LeadStays ==
  ASSUME NEW S, NEW S2, NEW R, NEW R2, NEW l, SameSources(S, S2, l), Leads(R, S, l),
         R2[l] # Null => R[l] # Null /\ R2[l].url = R[l].url
  PROVE  Leads(R2, S2, l)
<1> SUFFICES ASSUME R2[l] # Null, SourcesAt(S2, l) # {}
             PROVE  IsNewest(R2[l].url, S2, l)
  BY DEF Leads
<1>1. SourcesAt(S, l) # {}
  BY DEF SameSources, SourcesAt
<1>2. IsNewest(R[l].url, S, l)
  BY <1>1 DEF Leads
<1> QED
  BY <1>2, NewestStays

LEMMA SameAsThemselves ==
  ASSUME NEW S, NEW l
  PROVE  SameSources(S, S, l)
BY DEF SameSources

(* A statement of the repair: a link whose URL is not chosen later keeps   *)
(* its URL and its sources.                                                *)
LEMMA StatementKeepsUrls ==
  ASSUME UrlInv, UNCHANGED <<row, sources, edited, stored>>,
         repair.pc # "url", repair'.pc # "url",
         \A l \in Untouched : ToChoose(l) => ToChoose(l)',
         \A l \in Untouched : ~ToChoose(l)' =>
           /\ draft'[l] # Null => draft[l] # Null /\ draft'[l].url = draft[l].url
           /\ SameSources(draftSources, draftSources', l)
  PROVE  UrlsLead'
<1>1. \A l \in Untouched : ToChoose(l)' \/ Leads(draft, draftSources, l)'
  <2> SUFFICES ASSUME NEW l \in Untouched, ~ToChoose(l)'
               PROVE  Leads(draft', draftSources', l)
    BY DEF Leads, IsNewest, SourcesAt
  <2>1. Leads(draft, draftSources, l)
    BY DEF UrlInv, UrlsLead, ToWrite
  <2> QED
    BY <2>1, LeadStays
<1>2. Untouched' = Untouched /\ \A l : ~ToWrite(l)'
  BY DEF Untouched, ToWrite
<1>3. \A l \in Untouched : Leads(row, sources, l)'
  BY DEF UrlInv, UrlsLead, Leads, IsNewest, SourcesAt
<1> QED
  BY <1>1, <1>2, <1>3 DEF UrlsLead

LEMMA OpeningKeepsUrls ==
  ASSUME UrlInv, Begin \/ Read
  PROVE  TouchedInTime' /\ UrlsLead'
<1>1. /\ UNCHANGED <<row, sources, edited, stored, draft, draftSources>>
      /\ repair.pc \in {"idle", "read"}
  BY DEF Begin, Read, linkVars, worldVars
<1>2. CASE Begin
  <2>1. repair'.pc = "read"
    BY <1>2 DEF Begin, Idle
  <2>2. TouchedInTime'
    BY <2>1 DEF TouchedInTime, Working
  <2>3. UrlsLead'
    BY <1>1, <2>1, StatementKeepsUrls, SameAsThemselves DEF ToChoose, Working
  <2> QED
    BY <2>2, <2>3
<1>3. CASE Read
  <2> DEFINE affected == {s \in Source : sources[s] # Null /\ sources[s].raw \in Dirty}
             theirs == {sources[s].link : s \in affected}
  <2>1. /\ repair'.pc = "next" /\ repair'.sources = sources /\ repair'.touched = theirs
    BY <1>3 DEF Read, RepairInv, UrlInv, Typed, Locals
  <2>2. TouchedInTime'
    BY <2>1 DEF TouchedInTime, Working, Affected
  <2>3. UrlsLead'
    BY <1>1, <2>1, StatementKeepsUrls, SameAsThemselves DEF ToChoose, Working
  <2> QED
    BY <2>2, <2>3
<1> QED
  BY <1>2, <1>3

(* The sources of a link that a step leaves alone. *)
LEMMA LookElsewhere ==
  ASSUME NEW S, NEW S2, NEW l, NEW s \in Source,
         \A t \in Source \ {s} : \/ S2[t] = S[t]
                                 \/ /\ S[t] # Null /\ S2[t] # Null
                                    /\ S2[t].link = S[t].link
                                    /\ S2[t].message = S[t].message
                                    /\ S2[t].url = S[t].url,
         S[s] # Null => S[s].link # l,
         S2[s] # Null => S2[s].link # l
  PROVE  SameSources(S, S2, l)
BY DEF SameSources, SourcesAt

LEMMA TakeKeepsUrls ==
  ASSUME UrlInv, Take
  PROVE  TouchedInTime' /\ UrlsLead'
<1>1. PICK s \in repair.todo :
        IF draftSources[s] = Null \/ CleanOf[repair.sources[s].raw] = Null
        THEN /\ draftSources' = [draftSources EXCEPT ![s] = Null]
             /\ repair' = [repair EXCEPT !.todo = @ \ {s}]
        ELSE /\ repair' = [repair EXCEPT !.pc = "find", !.todo = @ \ {s}, !.source = s]
             /\ UNCHANGED draftSources
  BY DEF Take
<1>2. repair.pc = "next" /\ UNCHANGED <<row, sources, draft, edited, stored>>
  BY DEF Take, worldVars
<1>3. Working /\ ~AtSource
  BY <1>2 DEF Working, AtSource
<1>4. s \in Source /\ Affected(s)
  BY <1>3 DEF UrlInv, RepairInv, AsRead, Typed, Locals
<1>5. AsFound(s)
  BY <1>3, <1>4 DEF UrlInv, RepairInv, Progress, Waiting, Affected
<1>6. /\ repair'.touched = repair.touched /\ repair'.sources = repair.sources
      /\ repair'.pc \in {"next", "find"} /\ repair'.todo = repair.todo \ {s}
      /\ repair'.pc = "find" => repair'.source = s
  BY <1>1, <1>2 DEF UrlInv, RepairInv, Typed, Locals
<1>7. repair.sources[s].link \in repair.touched
  BY <1>3, <1>4 DEF UrlInv, TouchedInTime, Waiting
<1>8. TouchedInTime'
  BY <1>3, <1>6 DEF UrlInv, TouchedInTime, Waiting, Working, AtSource, Affected
<1>9. ASSUME NEW l \in Link, l \notin repair.touched
      PROVE  SameSources(draftSources, draftSources', l)
  <2>1. draftSources[s].link # l
    BY <1>5, <1>7, <1>9 DEF AsFound
  <2>2. /\ \A t \in Source \ {s} : draftSources'[t] = draftSources[t]
        /\ draftSources'[s] \in {draftSources[s], Null}
    BY <1>1, <1>4 DEF UrlInv, RepairInv, Typed
  <2> QED
    BY <1>4, <2>1, <2>2, LookElsewhere
<1>10. UrlsLead'
  BY <1>2, <1>3, <1>6, <1>9, StatementKeepsUrls DEF ToChoose, Untouched, Working
<1> QED
  BY <1>8, <1>10

LEMMA TargetKeepsUrls ==
  ASSUME UrlInv, Find \/ Clone \/ Merge
  PROVE  TouchedInTime' /\ UrlsLead'
<1>1. /\ UNCHANGED <<row, sources, draftSources, edited, stored>>
      /\ repair.pc \in {"find", "clone", "merge"}
  BY DEF Find, Clone, Merge, linkVars, worldVars
<1>2. /\ repair.touched \subseteq repair'.touched /\ repair'.sources = repair.sources
      /\ repair'.todo = repair.todo /\ repair'.source = repair.source
      /\ repair'.pc \in {"clone", "merge", "place"}
      /\ repair'.pc \in {"merge", "place"} => repair'.target \in repair'.touched
  <2>1. CASE Find
    <3>1. \/ repair' = [repair EXCEPT !.pc = "clone"]
          \/ \E l \in Link, p \in {"place", "merge"} :
               repair' = [repair EXCEPT !.target = l, !.touched = @ \union {l}, !.pc = p]
      BY <2>1 DEF Find, Found
    <3>2. CASE repair' = [repair EXCEPT !.pc = "clone"]
      BY <3>2 DEF UrlInv, RepairInv, Typed, Locals
    <3>3. ASSUME NEW l \in Link, NEW p \in {"place", "merge"},
                 repair' = [repair EXCEPT !.target = l, !.touched = @ \union {l}, !.pc = p]
          PROVE  /\ repair.touched \subseteq repair'.touched
                 /\ repair'.sources = repair.sources /\ repair'.todo = repair.todo
                 /\ repair'.source = repair.source /\ repair'.pc = p
                 /\ repair'.target \in repair'.touched
      BY <3>3 DEF UrlInv, RepairInv, Typed, Locals
    <3> QED
      BY <3>1, <3>2, <3>3
  <2>2. CASE Clone
    <3>1. \E l \in Link :
            repair' = [repair EXCEPT !.pc = "place", !.target = l,
                                     !.touched = @ \union {l}]
      BY <2>2 DEF Clone
    <3> QED
      BY <3>1 DEF UrlInv, RepairInv, Typed, Locals
  <2>3. CASE Merge
    <3>1. repair.target \in repair.touched
      BY <2>3 DEF Merge, UrlInv, TouchedInTime
    <3> QED
      BY <2>3, <3>1 DEF Merge, UrlInv, RepairInv, Typed, Locals
  <2> QED
    BY <2>1, <2>2, <2>3
<1>3. TouchedInTime'
  BY <1>1, <1>2 DEF UrlInv, TouchedInTime, Waiting, Working, AtSource, Affected
<1>4. \A l \in Link \ repair'.touched : draft'[l] = draft[l]
  <2>1. CASE Find
    BY <2>1 DEF Find, linkVars
  <2>2. CASE Clone
    <3>1. PICK l \in Link : /\ \A k \in Link \ {l} : draft'[k] = draft[k]
                            /\ repair' = [repair EXCEPT !.pc = "place", !.target = l,
                                            !.touched = @ \union {l}]
      BY <2>2 DEF Clone, UrlInv, RepairInv, Typed
    <3>2. l \in repair'.touched
      BY <3>1 DEF UrlInv, RepairInv, Typed, Locals
    <3> QED
      BY <3>1, <3>2
  <2>3. CASE Merge
    <3>1. repair.target \in repair'.touched
      BY <2>3, <1>2 DEF Merge, UrlInv, TouchedInTime
    <3> QED
      BY <2>3, <3>1 DEF Merge, UrlInv, RepairInv, Typed
  <2> QED
    BY <2>1, <2>2, <2>3
<1>5. UrlsLead'
  BY <1>1, <1>2, <1>4, StatementKeepsUrls, SameAsThemselves DEF ToChoose, Untouched, Working
<1> QED
  BY <1>3, <1>5

LEMMA PlaceKeepsUrls ==
  ASSUME UrlInv, Place
  PROVE  TouchedInTime' /\ UrlsLead'
<1> DEFINE s == repair.source
           k == repair.target
<1>1. /\ repair.pc = "place" /\ UNCHANGED <<row, sources, draft, edited, stored>>
      /\ repair' = [repair EXCEPT !.pc = "next"]
  BY DEF Place, worldVars
<1>2. /\ s \in Source /\ Affected(s) /\ Working /\ Waiting(s)
  BY <1>1 DEF UrlInv, RepairInv, AsRead, Working, AtSource, Waiting
<1>3. AsFound(s) /\ draftSources[s] \in SourceRow
  BY <1>2 DEF UrlInv, RepairInv, Progress, Affected, Typed, AsFound
<1>4. repair.sources[s].link \in repair.touched /\ k \in repair.touched
  BY <1>1, <1>2 DEF UrlInv, TouchedInTime
<1>5. /\ repair'.touched = repair.touched /\ repair'.sources = repair.sources
      /\ repair'.pc = "next" /\ repair'.todo = repair.todo
  BY <1>1 DEF UrlInv, RepairInv, Typed, Locals
<1>6. TouchedInTime'
  BY <1>2, <1>5 DEF UrlInv, TouchedInTime, Waiting, Working, AtSource, Affected
<1>7. /\ draftSources'[s] # Null => draftSources'[s].link = k
      /\ \A t \in Source \ {s} :
           \/ draftSources'[t] = draftSources[t]
           \/ /\ draftSources[t] # Null /\ draftSources'[t] # Null
              /\ draftSources'[t].link = draftSources[t].link
              /\ draftSources'[t].message = draftSources[t].message
              /\ draftSources'[t].url = draftSources[t].url
  <2> DEFINE m == repair.sources[s].message
             same == {t \in SourcesAt(draftSources, k) \ {s} :
                        draftSources[t].message = m /\ draftSources[t].url = CleanUrl}
  <2>1. draftSources' =
           IF same = {}
           THEN [draftSources EXCEPT ![s].link = k, ![s].raw = CleanUrl, ![s].url = CleanUrl]
           ELSE [t \in Source |-> IF t = s THEN Null
                                  ELSE IF t \in same /\ draftSources[t].raw \in Dirty
                                  THEN [draftSources[t] EXCEPT !.raw = CleanUrl]
                                  ELSE draftSources[t]]
    BY DEF Place
  <2>2. \A t \in same : t \in Source /\ draftSources[t] # Null /\ draftSources[t] \in SourceRow
    BY DEF SourcesAt, UrlInv, RepairInv, Typed
  <2> HIDE DEF same
  <2>3. CASE same = {}
    <3> DEFINE moved == [draftSources[s] EXCEPT !.link = k, !.raw = CleanUrl, !.url = CleanUrl]
    <3>1. draftSources' = [draftSources EXCEPT ![s] = moved]
      BY <2>1, <2>3
    <3>2. moved.link = k
      BY <1>3 DEF SourceRow
    <3> QED
      BY <1>2, <3>1, <3>2 DEF UrlInv, RepairInv, Typed
  <2>4. CASE same # {}
    <3>1. /\ draftSources'[s] = Null
          /\ \A t \in Source \ {s} :
               IF t \in same /\ draftSources[t].raw \in Dirty
               THEN draftSources'[t] = [draftSources[t] EXCEPT !.raw = CleanUrl]
               ELSE draftSources'[t] = draftSources[t]
      BY <2>1, <2>4, <1>2
    <3>2. CleanUrl \in Url
      BY <1>1, OldLinkIsThere DEF UrlInv
    <3>3. ASSUME NEW t \in same
          PROVE  LET n == [draftSources[t] EXCEPT !.raw = CleanUrl]
                 IN /\ n # Null /\ n.link = draftSources[t].link
                    /\ n.message = draftSources[t].message /\ n.url = draftSources[t].url
      <4>1. [draftSources[t] EXCEPT !.raw = CleanUrl] \in SourceRow
        BY <2>2, <3>2 DEF SourceRow, Raw
      <4> QED
        BY <4>1, <2>2, RowsAreNotNull DEF SourceRow
    <3> QED
      BY <2>2, <3>1, <3>3
  <2> QED
    BY <2>3, <2>4
<1>8. ASSUME NEW l \in Link, l \notin repair.touched
      PROVE  SameSources(draftSources, draftSources', l)
  <2>1. /\ draftSources[s].link # l
        /\ draftSources'[s] # Null => draftSources'[s].link # l
    BY <1>3, <1>4, <1>7, <1>8 DEF AsFound
  <2> HIDE DEF s
  <2> QED
    BY <1>2, <1>7, <2>1, LookElsewhere
<1>9. UrlsLead'
  BY <1>1, <1>2, <1>5, <1>8, StatementKeepsUrls DEF ToChoose, Untouched, Working
<1> QED
  BY <1>6, <1>9

LEMMA EmptyKeepsUrls ==
  ASSUME UrlInv, Empty
  PROVE  TouchedInTime' /\ UrlsLead'
<1>1. /\ repair.pc = "next" /\ UNCHANGED <<row, sources, edited, stored>>
      /\ repair.todo = {} /\ repair' = [repair EXCEPT !.emptied = repair'.emptied]
  BY DEF Empty, worldVars, UrlInv, RepairInv, Typed, Locals
<1>2. /\ repair'.touched = repair.touched /\ repair'.pc = "next" /\ repair'.todo = {}
  BY <1>1 DEF UrlInv, RepairInv, Typed, Locals
<1>3. TouchedInTime'
  BY <1>2 DEF TouchedInTime, Waiting, AtSource
<1>4. /\ \A k \in Link : draft'[k] # Null => draft'[k] = draft[k]
      /\ \A t \in Source : draftSources'[t] = draftSources[t]
  <2>1. PICK l \in repair.emptied :
          IF Orphaned(l)
          THEN /\ draft' = [draft EXCEPT ![l] = Null]
               /\ draftSources' = [s \in Source |->
                    IF s \in SourcesAt(draftSources, l) THEN Null ELSE draftSources[s]]
          ELSE UNCHANGED <<draft, draftSources>>
    BY DEF Empty
  <2>2. CASE Orphaned(l)
    BY <2>1, <2>2 DEF Orphaned, UrlInv, RepairInv, Typed
  <2> QED
    BY <2>1, <2>2
<1>5. \A l : SameSources(draftSources, draftSources', l)
  BY <1>4 DEF SameSources, SourcesAt
<1>6. UrlsLead'
  BY <1>1, <1>2, <1>4, <1>5, StatementKeepsUrls DEF ToChoose, Untouched, Working
<1> QED
  BY <1>3, <1>6

LEMMA LatestKeepsUrls ==
  ASSUME UrlInv, Latest
  PROVE  TouchedInTime' /\ UrlsLead'
<1>1. /\ repair.pc = "next" /\ repair.todo = {}
      /\ UNCHANGED <<row, sources, draft, draftSources, edited, stored>>
  BY DEF Latest, linkVars, worldVars
<1>2. PICK l \in repair.touched :
        \/ /\ SourcesAt(draftSources, l) = {}
           /\ repair' = [repair EXCEPT !.touched = @ \ {l}]
        \/ \E s \in SourcesAt(draftSources, l) :
             /\ \A t \in SourcesAt(draftSources, l) \ {s} : Newer(draftSources, s, t)
             /\ repair' = [repair EXCEPT !.pc = "url", !.touched = @ \ {l},
                                         !.target = l, !.url = draftSources[s].url]
  BY DEF Latest
<1>3. Untouched' = Untouched /\ \A k : ~ToWrite(k)
  BY <1>1 DEF Untouched, ToWrite
<1>4. Working
  BY <1>1 DEF Working
<1>5. \A k \in Untouched : ToChoose(k) \/ Leads(draft, draftSources, k)
  BY <1>3 DEF UrlInv, UrlsLead
<1>6. \A k \in Untouched : Leads(row, sources, k)'
  BY <1>1, <1>3 DEF UrlInv, UrlsLead, Leads, IsNewest, SourcesAt
<1>7. CASE SourcesAt(draftSources, l) = {} /\ repair' = [repair EXCEPT !.touched = @ \ {l}]
  <2>1. /\ repair'.touched = repair.touched \ {l} /\ repair'.pc = "next"
        /\ repair'.todo = {}
    BY <1>1, <1>7 DEF UrlInv, RepairInv, Typed, Locals
  <2>2. TouchedInTime'
    BY <2>1 DEF TouchedInTime, Waiting, AtSource
  <2>3. Leads(draft, draftSources, l)
    BY <1>7 DEF Leads
  <2>4. \A k \in Untouched : ToChoose(k)' \/ Leads(draft, draftSources, k)
    BY <1>4, <1>5, <2>1, <2>3 DEF ToChoose, Working
  <2>5. \A k : ~ToWrite(k)' /\ Leads(draft, draftSources, k)' = Leads(draft, draftSources, k)
    BY <1>1, <2>1 DEF ToWrite, Leads, IsNewest, SourcesAt
  <2>6. UrlsLead'
    BY <1>3, <1>6, <2>4, <2>5 DEF UrlsLead
  <2> QED
    BY <2>2, <2>6
<1>8. ASSUME NEW s \in SourcesAt(draftSources, l),
             \A t \in SourcesAt(draftSources, l) \ {s} : Newer(draftSources, s, t),
             repair' = [repair EXCEPT !.pc = "url", !.touched = @ \ {l},
                                      !.target = l, !.url = draftSources[s].url]
      PROVE  TouchedInTime' /\ UrlsLead'
  <2>1. /\ repair'.touched = repair.touched \ {l} /\ repair'.pc = "url"
        /\ repair'.todo = {} /\ repair'.target = l /\ repair'.url = draftSources[s].url
    BY <1>1, <1>8 DEF UrlInv, RepairInv, Typed, Locals
  <2>2. TouchedInTime'
    BY <2>1 DEF TouchedInTime, Waiting, AtSource
  <2>3. \A t \in SourcesAt(draftSources, l) :
          SentAt[draftSources[t].message] <= SentAt[draftSources[s].message]
    <3> SUFFICES ASSUME NEW t \in SourcesAt(draftSources, l)
                 PROVE  SentAt[draftSources[t].message] <= SentAt[draftSources[s].message]
      OBVIOUS
    <3>1. /\ SentAt[draftSources[t].message] \in Nat
          /\ SentAt[draftSources[s].message] \in Nat
      <4>1. draftSources[t] \in SourceRow /\ draftSources[s] \in SourceRow
        BY DEF SourcesAt, UrlInv, RepairInv, Typed
      <4> QED
        BY <4>1, RepairAssumption DEF SourceRow
    <3>2. t = s \/ Newer(draftSources, s, t)
      BY <1>8
    <3> QED
      BY <3>1, <3>2 DEF Newer
  <2>4. IsNewest(repair'.url, draftSources, l)
    BY <2>1, <2>3 DEF IsNewest
  <2>5. \A k \in Untouched : ToWrite(k)' => IsNewest(repair.url, draftSources, k)'
    BY <1>1, <2>1, <2>4 DEF ToWrite, IsNewest, SourcesAt
  <2>6. \A k \in Untouched : ToChoose(k)' \/ ToWrite(k)' \/ Leads(draft, draftSources, k)
    BY <1>4, <1>5, <2>1 DEF ToChoose, ToWrite, Working
  <2>7. \A k : Leads(draft, draftSources, k)' = Leads(draft, draftSources, k)
    BY <1>1 DEF Leads, IsNewest, SourcesAt
  <2>8. UrlsLead'
    BY <1>3, <1>6, <2>5, <2>6, <2>7 DEF UrlsLead
  <2> QED
    BY <2>2, <2>8
<1> QED
  BY <1>2, <1>7, <1>8

LEMMA WriteUrlKeepsUrls ==
  ASSUME UrlInv, WriteUrl
  PROVE  TouchedInTime' /\ UrlsLead'
<1> DEFINE l == repair.target
<1>1. /\ repair.pc = "url" /\ UNCHANGED <<row, sources, draftSources, edited, stored>>
      /\ draft' = [draft EXCEPT ![l].url = repair.url]
      /\ repair' = [repair EXCEPT !.pc = "next"]
  BY DEF WriteUrl, worldVars
<1>2. /\ repair'.touched = repair.touched /\ repair'.pc = "next"
      /\ repair'.todo = repair.todo /\ repair'.sources = repair.sources
  BY <1>1 DEF UrlInv, RepairInv, Typed, Locals
<1>3. Working /\ ~AtSource
  BY <1>1 DEF Working, AtSource
<1>4. TouchedInTime'
  BY <1>2, <1>3 DEF UrlInv, TouchedInTime, Waiting, Working, AtSource, Affected
<1>5. l \in Link /\ draft[l] \in Row
  BY <1>1, <1>3 DEF UrlInv, RepairInv, AsRead, Typed
<1>6. /\ draft'[l].url = repair.url
      /\ \A k \in Link \ {l} : draft'[k] = draft[k]
  BY <1>1, <1>5 DEF UrlInv, RepairInv, Typed, Row
<1>7. Untouched' = Untouched /\ \A k : ~ToWrite(k)'
  BY <1>1, <1>2 DEF Untouched, ToWrite
<1>8. \A k \in Untouched : Leads(row, sources, k)'
  BY <1>1, <1>7 DEF UrlInv, UrlsLead, Leads, IsNewest, SourcesAt
<1>9. ASSUME NEW k \in Untouched
      PROVE  ToChoose(k)' \/ Leads(draft', draftSources, k)
  <2>1. CASE k = l
    <3>1. IsNewest(repair.url, draftSources, l)
      BY <1>1, <2>1 DEF UrlInv, UrlsLead, ToWrite
    <3> QED
      BY <1>6, <2>1, <3>1 DEF Leads
  <2>2. CASE k # l
    <3>1. ToChoose(k) \/ Leads(draft, draftSources, k)
      BY <2>2 DEF UrlInv, UrlsLead, ToWrite
    <3>2. draft'[k] = draft[k]
      BY <1>6, <2>2 DEF Untouched
    <3> QED
      BY <3>1, <3>2, <1>2, <1>3 DEF ToChoose, Working, Leads
  <2> QED
    BY <2>1, <2>2
<1>10. \A k : Leads(draft, draftSources, k)' = Leads(draft', draftSources, k)
  BY <1>1 DEF Leads, IsNewest, SourcesAt
<1> QED
  BY <1>4, <1>7, <1>8, <1>9, <1>10 DEF UrlsLead

(* At the commit no URL is left to choose. *)
LEMMA EndKeepsUrls ==
  ASSUME UrlInv, Commit \/ Abort
  PROVE  TouchedInTime' /\ UrlsLead'
<1>1. repair'.pc = "idle" /\ UNCHANGED <<edited, stored>>
  BY IdleIsTyped DEF Commit, Abort, worldVars
<1>2. TouchedInTime' /\ \A k : ~ToWrite(k)'
  BY <1>1 DEF TouchedInTime, Working, ToWrite
<1>3. Untouched' = Untouched
  BY <1>1 DEF Untouched
<1>4. \A k \in Untouched : Leads(row', sources', k) /\ Leads(draft', draftSources', k)
  <2>1. CASE Commit
    <3>1. \A k \in Untouched : Leads(draft, draftSources, k)
      BY <2>1 DEF Commit, Ready, UrlInv, UrlsLead, ToChoose, ToWrite
    <3> QED
      BY <2>1, <3>1 DEF Commit
  <2>2. CASE Abort
    BY <2>2 DEF Abort, UrlInv, UrlsLead
  <2> QED
    BY <2>1, <2>2
<1>5. \A k : /\ Leads(row, sources, k)' = Leads(row', sources', k)
             /\ Leads(draft, draftSources, k)' = Leads(draft', draftSources', k)
  BY DEF Leads, IsNewest, SourcesAt
<1> QED
  BY <1>2, <1>3, <1>4, <1>5 DEF UrlsLead

(* Edits, and scans beside the repair, take their links out of the claim. *)
LEMMA ForeignKeepsUrls ==
  ASSUME UrlInv, UNCHANGED repair, NEW l \in Link,
         Untouched' \subseteq Untouched \ {l},
         \A k \in Link \ {l} : /\ row'[k] = row[k] /\ draft'[k] = draft[k]
                               /\ SameSources(sources, sources', k)
                               /\ SameSources(draftSources, draftSources', k)
  PROVE  TouchedInTime' /\ UrlsLead'
<1>1. TouchedInTime'
  BY DEF UrlInv, TouchedInTime, Working, Affected, Waiting, AtSource
<1>2. \A k : ToChoose(k)' = ToChoose(k) /\ ToWrite(k)' = ToWrite(k)
  BY DEF ToChoose, ToWrite, Working
<1>3. ASSUME NEW k \in Untouched'
      PROVE  /\ Leads(row', sources', k)
             /\ ToChoose(k) \/ ToWrite(k) \/ Leads(draft', draftSources', k)
             /\ ToWrite(k) => IsNewest(repair.url, draftSources', k)
  <2>1. k \in Untouched /\ k \in Link \ {l}
    BY <1>3 DEF Untouched
  <2>2. /\ Leads(row, sources, k)
        /\ ToChoose(k) \/ ToWrite(k) \/ Leads(draft, draftSources, k)
        /\ ToWrite(k) => IsNewest(repair.url, draftSources, k)
    BY <2>1 DEF UrlInv, UrlsLead
  <2>3. /\ row'[k] = row[k] /\ draft'[k] = draft[k]
        /\ SameSources(sources, sources', k) /\ SameSources(draftSources, draftSources', k)
    BY <2>1
  <2> QED
    BY <2>2, <2>3, LeadStays, NewestStays
<1>4. \A k : /\ Leads(row, sources, k)' = Leads(row', sources', k)
             /\ Leads(draft, draftSources, k)' = Leads(draft', draftSources', k)
             /\ IsNewest(repair.url, draftSources, k)'
                  = IsNewest(repair.url, draftSources', k)
  BY DEF Leads, IsNewest, SourcesAt
<1> QED
  BY <1>1, <1>2, <1>3, <1>4 DEF UrlsLead

LEMMA EditKeepsUrls ==
  ASSUME UrlInv, Organize \/ Archive \/ Move
  PROVE  TouchedInTime' /\ UrlsLead'
<1>1. PICK l \in Link : \E r : Edit(l, r)
  BY DEF Organize, Archive, Move
<1>2. /\ UNCHANGED <<repair, sources, draftSources>>
      /\ \A k \in Link \ {l} : row'[k] = row[k] /\ draft'[k] = draft[k]
      /\ Untouched' = Untouched \ {l}
  BY <1>1 DEF Edit, Untouched, UrlInv, RepairInv, Typed
<1> QED
  BY <1>2, ForeignKeepsUrls, SameAsThemselves

(* What a scan stores gets the URL it has found, unless a newer source has *)
(* given the link another.                                                 *)
LEMMA ScanKeepsUrls ==
  ASSUME UrlInv, ScanStore
  PROVE  TouchedInTime' /\ UrlsLead'
<1>1. PICK l \in Link, u \in Url, m \in Message, j \in Job, s \in Source,
             d \in Category \union {Null} :
        /\ ScanLink(l, u) /\ NextSource(s)
        /\ \A t \in SourcesAt(sources, l) :
             sources[t].message = m => sources[t].url # u
        /\ sources' = [sources EXCEPT ![s] = ScanSource(l, u, m, j)]
        /\ draftSources' = [draftSources EXCEPT ![s] = ScanSource(l, u, m, j)]
        /\ row' = [row EXCEPT ![l] = ScanRow(l, u, m, d)]
        /\ draft' = [draft EXCEPT ![l] = ScanRow(l, u, m, d)]
        /\ stored' = IF repair.pc = "idle" THEN stored ELSE stored \union {l}
  BY DEF ScanStore
<1> DEFINE new == ScanSource(l, u, m, j)
           r == ScanRow(l, u, m, d)
<1>2. UNCHANGED <<repair, edited, locked>>
  BY DEF ScanStore
<1>3. new # Null /\ new.link = l /\ new.url = u /\ new.message = m
  <2>1. new \in SourceRow
    BY DEF ScanSource, SourceRow, Raw
  <2> QED
    BY <2>1, RowsAreNotNull DEF ScanSource
<1>4. sources[s] = Null /\ draftSources[s] = Null
  BY <1>1 DEF NextSource, Source, UrlInv, RepairInv, Beside
<1> HIDE DEF new, r
<1>5. /\ sources'[s] = new /\ draftSources'[s] = new
      /\ \A t \in Source \ {s} : sources'[t] = sources[t] /\ draftSources'[t] = draftSources[t]
      /\ row'[l] = r /\ draft'[l] = r
      /\ \A k \in Link \ {l} : row'[k] = row[k] /\ draft'[k] = draft[k]
  BY <1>1 DEF UrlInv, RepairInv, Typed, new, r
<1>6. ASSUME NEW k \in Link \ {l}
      PROVE  /\ SameSources(sources, sources', k)
             /\ SameSources(draftSources, draftSources', k)
  BY <1>3, <1>4, <1>5, LookElsewhere
<1>7. CASE repair.pc # "idle"
  <2>1. Untouched' = Untouched \ {l}
    BY <1>1, <1>2, <1>7 DEF Untouched
  <2> QED
    BY <2>1, <1>2, <1>5, <1>6, ForeignKeepsUrls
<1>8. CASE repair.pc = "idle"
  <2>1. Untouched' = Untouched
    BY <1>1, <1>2, <1>8 DEF Untouched
  <2>2. TouchedInTime' /\ \A k : ~ToWrite(k)' /\ ~ToWrite(k) /\ ~ToChoose(k)
    BY <1>2, <1>8 DEF TouchedInTime, Working, ToWrite, ToChoose
  <2>3. /\ \A t \in Source : draftSources[t] = sources[t]
        /\ draft[l] = row[l]
    BY <1>8 DEF UrlInv, RepairInv, Beside
  <2>4. SourcesAt(draftSources', l) = SourcesAt(sources', l)
        /\ \A t \in Source : draftSources'[t] = sources'[t]
    BY <1>5, <2>3 DEF SourcesAt
  <2>5. SourcesAt(sources', l) = SourcesAt(sources, l) \union {s}
    BY <1>3, <1>4, <1>5 DEF SourcesAt
  <2>6. \A t \in SourcesAt(sources, l) :
          t # s /\ sources'[t] = sources[t] /\ SentAt[sources[t].message] \in Nat
    <3> SUFFICES ASSUME NEW t \in SourcesAt(sources, l)
                 PROVE  t # s /\ sources'[t] = sources[t] /\ SentAt[sources[t].message] \in Nat
      OBVIOUS
    <3>1. t \in Source /\ sources[t] # Null
      BY DEF SourcesAt
    <3>2. sources[t] \in SourceRow
      BY <3>1 DEF UrlInv, RepairInv, Typed
    <3> QED
      BY <3>1, <3>2, <1>4, <1>5, RepairAssumption DEF SourceRow
  <2>7. SentAt[m] \in Nat
    BY RepairAssumption
  <2>8. ASSUME l \in Untouched
        PROVE  IsNewest(r.url, sources', l)
    <3> DEFINE newer == {t \in SourcesAt(sources, l) : SentAt[sources[t].message] > SentAt[m]}
    <3>1. r.url = IF newer = {} THEN u ELSE row[l].url
      <4>1. row[l] # Null => row[l] \in Row
        BY DEF UrlInv, RepairInv, Typed
      <4>2. newer # {} => row[l] # Null
        BY DEF SourcesAt, UrlInv, RepairInv, Consistent, Rooted
      <4>3. CASE row[l] # Null
        BY <4>1, <4>3 DEF r, ScanRow, Row
      <4>4. CASE row[l] = Null
        BY <4>2, <4>4 DEF r, ScanRow
      <4> QED
        BY <4>3, <4>4
    <3>2. CASE newer = {}
      <4>1. \A t \in SourcesAt(sources, l) : SentAt[sources[t].message] <= SentAt[m]
        BY <2>6, <2>7, <3>2
      <4>2. s \in SourcesAt(sources', l) /\ sources'[s].url = u /\ sources'[s].message = m
        BY <1>3, <1>5, <2>5
      <4>3. \A t \in SourcesAt(sources', l) :
              SentAt[sources'[t].message] <= SentAt[sources'[s].message]
        BY <2>5, <2>6, <2>7, <4>1, <4>2
      <4> QED
        BY <3>1, <3>2, <4>2, <4>3 DEF IsNewest
    <3>3. CASE newer # {}
      <4>1. Leads(row, sources, l)
        BY <2>8 DEF UrlInv, UrlsLead
      <4>2. row[l] # Null
        BY <3>3 DEF SourcesAt, UrlInv, RepairInv, Consistent, Rooted
      <4>3. PICK v \in SourcesAt(sources, l) :
              /\ row[l].url = sources[v].url
              /\ \A t \in SourcesAt(sources, l) :
                   SentAt[sources[t].message] <= SentAt[sources[v].message]
        BY <3>3, <4>1, <4>2 DEF Leads, IsNewest
      <4>4. SentAt[m] <= SentAt[sources[v].message]
        BY <2>6, <2>7, <3>3, <4>3
      <4>5. v \in SourcesAt(sources', l) /\ sources'[v] = sources[v]
            /\ sources'[s].message = m
        BY <1>3, <1>5, <2>5, <2>6
      <4>6. \A t \in SourcesAt(sources', l) :
              SentAt[sources'[t].message] <= SentAt[sources'[v].message]
        BY <2>5, <2>6, <4>3, <4>4, <4>5
      <4> QED
        BY <3>1, <3>3, <4>3, <4>5, <4>6 DEF IsNewest
    <3> QED
      BY <3>2, <3>3
  <2>9. \A k \in Untouched : Leads(row', sources', k) /\ Leads(draft', draftSources', k)
    <3> SUFFICES ASSUME NEW k \in Untouched
                 PROVE  Leads(row', sources', k) /\ Leads(draft', draftSources', k)
      OBVIOUS
    <3>1. CASE k = l
      <4>1. IsNewest(r.url, sources', l)
        BY <2>8, <3>1
      <4>2. SameSources(sources', draftSources', l)
        BY <2>4 DEF SameSources
      <4>3. IsNewest(r.url, draftSources', l)
        BY <4>1, <4>2, NewestStays
      <4> QED
        BY <1>5, <3>1, <4>1, <4>3 DEF Leads
    <3>2. CASE k # l
      <4>1. k \in Link \ {l} /\ Leads(row, sources, k) /\ Leads(draft, draftSources, k)
        BY <2>2, <3>2 DEF UrlInv, UrlsLead, Untouched
      <4>2. /\ row'[k] = row[k] /\ draft'[k] = draft[k]
            /\ SameSources(sources, sources', k)
            /\ SameSources(draftSources, draftSources', k)
        BY <1>5, <1>6, <4>1
      <4> QED
        BY <4>1, <4>2, LeadStays
    <3> QED
      BY <3>1, <3>2
  <2>10. \A k : /\ Leads(row, sources, k)' = Leads(row', sources', k)
                /\ Leads(draft, draftSources, k)' = Leads(draft', draftSources', k)
    BY DEF Leads, IsNewest, SourcesAt
  <2> QED
    BY <2>1, <2>2, <2>9, <2>10 DEF UrlsLead
<1> QED
  BY <1>7, <1>8

LEMMA UrlInit ==
  ASSUME Init
  PROVE  UrlInv
<1>1. RepairInv
  BY InitIsSafe
<1>2. PICK f \in Histories, o \in [Host -> Organized] :
        \E newest \in [Linked(InitialSources(f)) -> DOMAIN f] :
          /\ \A h \in Linked(InitialSources(f)) :
               StoredLast(InitialSources(f), newest[h], LinkOf[h])
          /\ sources = InitialSources(f)
          /\ row = InitialRows(InitialSources(f), newest, o)
  BY DEF Init
<1> DEFINE linked == Linked(sources)
           HostAt(l) == CHOOSE g \in linked : LinkOf[g] = l
<1>3. PICK newest \in [linked -> DOMAIN f] :
        /\ \A h \in linked : StoredLast(sources, newest[h], LinkOf[h])
        /\ row = [l \in Link |->
             IF \E h \in linked : LinkOf[h] = l
             THEN InitialRow(HostAt(l), sources[newest[HostAt(l)]].url, o[HostAt(l)])
             ELSE Null]
  BY <1>2 DEF InitialRows
<1>4. ASSUME NEW l \in Link, row[l] # Null
      PROVE  IsNewest(row[l].url, sources, l)
  <2> DEFINE s == newest[HostAt(l)]
  <2>1. HostAt(l) \in linked /\ LinkOf[HostAt(l)] = l
    BY <1>3, <1>4
  <2>2. row[l] = InitialRow(HostAt(l), sources[s].url, o[HostAt(l)])
    BY <1>3, <1>4
  <2>3. StoredLast(sources, s, l)
    BY <1>3, <2>1
  <2>4. row[l].url = sources[s].url
    BY <2>2 DEF InitialRow
  <2> HIDE DEF s
  <2>5. s \in SourcesAt(sources, l)
    BY <2>3 DEF StoredLast
  <2>6. \A t \in SourcesAt(sources, l) : SentAt[sources[t].message] \in Nat
    <3> SUFFICES ASSUME NEW t \in SourcesAt(sources, l)
                 PROVE  SentAt[sources[t].message] \in Nat
      OBVIOUS
    <3>1. sources[t] \in SourceRow
      BY <1>1 DEF SourcesAt, RepairInv, Typed
    <3> QED
      BY <3>1, RepairAssumption DEF SourceRow
  <2>7. \A t \in SourcesAt(sources, l) :
          SentAt[sources[t].message] <= SentAt[sources[s].message]
    BY <2>3, <2>5, <2>6 DEF StoredLast
  <2> QED
    BY <2>4, <2>5, <2>7 DEF IsNewest
<1>5. draft = row /\ draftSources = sources /\ repair.pc = "idle"
  BY IdleIsTyped DEF Init
<1>6. \A l \in Link : Leads(row, sources, l) /\ Leads(draft, draftSources, l)
  BY <1>4, <1>5 DEF Leads
<1> QED
  BY <1>1, <1>5, <1>6 DEF UrlInv, UrlsLead, TouchedInTime, Untouched, ToWrite, Working

LEMMA UrlStep ==
  ASSUME UrlInv, RepairInv', [Next]_vars
  PROVE  UrlInv'
<1>1. CASE ScanBegin \/ ScanEnd \/ UNCHANGED vars
  <2>1. UNCHANGED <<row, sources, draft, draftSources, repair, edited, stored>>
    BY <1>1 DEF ScanBegin, ScanEnd, vars, linkVars, worldVars
  <2> QED
    BY <2>1 DEF UrlInv, UrlsLead, TouchedInTime, Untouched, ToWrite, ToChoose, Working,
                Leads, IsNewest, SourcesAt, Affected, Waiting, AtSource
<1>2. CASE Repair
  BY <1>2, OpeningKeepsUrls, TakeKeepsUrls, TargetKeepsUrls, PlaceKeepsUrls, EmptyKeepsUrls,
     LatestKeepsUrls, WriteUrlKeepsUrls, EndKeepsUrls DEF Repair, UrlInv
<1>3. CASE Organize \/ Archive \/ Move \/ ScanStore
  BY <1>3, EditKeepsUrls, ScanKeepsUrls DEF UrlInv
<1> QED
  BY <1>1, <1>2, <1>3 DEF Next, World

(* The URL of a link that only scans before the repair and the repair have *)
(* written is that of a newest of its sources, wherever the sources came   *)
(* from (recomputeMainUrl, lines 207-229, for the links of 377 and 417).   *)
THEOREM MainUrlHolds == Spec => []MainUrlIsNewest
<1>1. Init => UrlInv
  BY UrlInit
<1>2. UrlInv /\ RepairInv' /\ [Next]_vars => UrlInv'
  BY UrlStep
<1>3. UrlInv => MainUrlIsNewest
  BY DEF UrlInv, UrlsLead, Untouched, Leads, IsNewest, MainUrlIsNewest
<1> QED
  BY <1>1, <1>2, <1>3, RepairInvariant, PTL DEF Spec

-----------------------------------------------------------------------------
(* The counters, and what is not the repair's. *)
CountersTyped ==
  /\ totals \in [Job -> [found : Nat, new : Nat, duplicate : Nat]]
  /\ scanning \in BOOLEAN
  /\ runs \in 0..MaxRuns /\ others \in 0..MaxOthers
  /\ edited \subseteq Link /\ stored \subseteq Link

(* The statistics are numbers: there are finitely many links and messages, *)
(* and the difference is cut off at zero.                                  *)
LEMMA StatisticsAreTyped ==
  ASSUME NEW S \in [Source -> SourceRow \union {Null}]
  PROVE  Statistics(S) \in [Job -> [found : Nat, new : Nat, duplicate : Nat]]
<1>1. ASSUME NEW j \in Job
      PROVE  FoundCount(S, j) \in Nat
  <2> DEFINE pairs == {<<S[s].link, S[s].message>> :
                         s \in {t \in Source : S[t] # Null /\ S[t].job = j}}
  <2>1. pairs \subseteq Link \X Message
    BY DEF SourceRow
  <2>2. IsFiniteSet(pairs)
    BY <2>1, FS_Product, FS_Subset, RepairAssumption
  <2> QED
    BY <2>2, FS_CardinalityType DEF FoundCount
<1>2. ASSUME NEW j \in Job
      PROVE  NewCount(S, j) \in Nat
  <2> DEFINE its == {l \in Link : SourcesAt(S, l) # {} /\ S[Min(SourcesAt(S, l))].job = j}
  <2>1. IsFiniteSet(its)
    BY FS_Subset, RepairAssumption
  <2> QED
    BY <2>1, FS_CardinalityType DEF NewCount
<1>3. ASSUME NEW a \in Nat, NEW b \in Nat
      PROVE  DuplicateCount(a, b) \in Nat
  <2>1. \E x \in {a - b, 0} : \A y \in {a - b, 0} : x >= y
    <3>1. CASE a - b >= 0
      BY <3>1
    <3>2. CASE a - b <= 0
      BY <3>2
    <3> QED
      BY <3>1, <3>2
  <2>2. /\ Max({a - b, 0}) \in {a - b, 0}
        /\ Max({a - b, 0}) >= 0
    BY <2>1 DEF Max
  <2> QED
    BY <2>2 DEF DuplicateCount
<1> QED
  BY <1>1, <1>2, <1>3 DEF Statistics

LEMMA CountersInit ==
  ASSUME Init
  PROVE  CountersTyped
<1> DEFINE zero == [found |-> 0, new |-> 0, duplicate |-> 0]
<1>1. totals = [j \in Job |-> zero]
  BY Zenon DEF Init
<1>2. zero \in [found : Nat, new : Nat, duplicate : Nat]
  OBVIOUS
<1> HIDE DEF zero
<1>3. totals \in [Job -> [found : Nat, new : Nat, duplicate : Nat]]
  BY <1>1, <1>2
<1>4. /\ scanning = FALSE /\ runs = 0 /\ others = 0
      /\ edited = {} /\ stored = {}
  BY Zenon DEF Init
<1>5. 0 \in 0..MaxRuns /\ 0 \in 0..MaxOthers
  BY RepairAssumption
<1>6. scanning \in BOOLEAN /\ edited \subseteq Link /\ stored \subseteq Link
  BY <1>4
<1>7. runs \in 0..MaxRuns /\ others \in 0..MaxOthers
  BY <1>4, <1>5
<1> QED
  BY <1>3, <1>6, <1>7 DEF CountersTyped

LEMMA CountersStep ==
  ASSUME CountersTyped, RepairInv, [Next]_vars
  PROVE  CountersTyped'
<1>1. CASE Begin
  BY <1>1, RepairAssumption DEF Begin, CountersTyped, worldVars
<1>2. CASE Commit
  <2>1. totals' = Statistics(draftSources) /\ UNCHANGED <<worldVars, runs>>
    BY <1>2 DEF Commit
  <2>2. Statistics(draftSources) \in [Job -> [found : Nat, new : Nat, duplicate : Nat]]
    BY StatisticsAreTyped DEF RepairInv, Typed
  <2> QED
    BY <2>1, <2>2 DEF CountersTyped, worldVars
<1>3. CASE \/ Read \/ Take \/ Find \/ Clone \/ Merge \/ Place \/ Empty \/ Latest
           \/ WriteUrl \/ Abort \/ UNCHANGED vars
  <2>1. UNCHANGED <<totals, worldVars, runs>>
    BY <1>3 DEF Read, Take, Find, Clone, Merge, Place, Empty, Latest, WriteUrl, Abort, vars
  <2> QED
    BY <2>1 DEF CountersTyped, worldVars
<1>4. CASE Organize \/ Archive \/ Move
  <2>1. PICK l \in Link : \E r : Edit(l, r)
    BY <1>4 DEF Organize, Archive, Move
  <2> QED
    BY <2>1, RepairAssumption DEF Edit, CountersTyped
<1>5. CASE ScanBegin \/ ScanEnd
  BY <1>5 DEF ScanBegin, ScanEnd, CountersTyped
<1>6. CASE ScanStore
  <2>1. /\ others < MaxOthers /\ others' = others + 1
        /\ UNCHANGED <<totals, scanning, edited, runs>>
        /\ stored' \subseteq stored \union Link
    BY <1>6 DEF ScanStore
  <2> QED
    BY <2>1, RepairAssumption DEF CountersTyped
<1> QED
  BY <1>1, <1>2, <1>3, <1>4, <1>5, <1>6 DEF Next, Repair, World

(* Every variable keeps its type: in particular the local variables of the *)
(* script always name links, sources and URLs that there are, and the      *)
(* recomputed statistics are never negative.                               *)
THEOREM RepairTypeCorrect == Spec => []TypeOK
<1>1. Init => CountersTyped
  BY CountersInit
<1>2. CountersTyped /\ RepairInv /\ [Next]_vars => CountersTyped'
  BY CountersStep
<1>3. CountersTyped /\ RepairInv => TypeOK
  BY DEF CountersTyped, RepairInv, Typed, TypeOK
<1> QED
  BY <1>1, <1>2, <1>3, RepairInvariant, PTL DEF Spec

-----------------------------------------------------------------------------
(* The first source of a link is one of its sources. *)
LEMMA FirstSource ==
  ASSUME NEW S, NEW l, SourcesAt(S, l) # {}
  PROVE  Min(SourcesAt(S, l)) \in SourcesAt(S, l)
<1>1. SourcesAt(S, l) \in SUBSET Nat
  BY RepairAssumption DEF SourcesAt, Source
<1>2. \E s \in SourcesAt(S, l) : \A t \in SourcesAt(S, l) : s <= t
  BY <1>1, LeastNatural
<1> QED
  BY <1>2 DEF Min

(* A link that a job found first, it found in the message of that source:  *)
(* there are as many links in messages of the job as new links, or more.   *)
LEMMA NewAreFound ==
  ASSUME NEW S \in [Source -> SourceRow \union {Null}], NEW j \in Job
  PROVE  NewCount(S, j) <= FoundCount(S, j)
<1> DEFINE its == {t \in Source : S[t] # Null /\ S[t].job = j}
           pairs == {<<S[s].link, S[s].message>> : s \in its}
           links == {l \in Link : SourcesAt(S, l) # {} /\ S[Min(SourcesAt(S, l))].job = j}
           first == [l \in links |-> <<l, S[Min(SourcesAt(S, l))].message>>]
<1>1. IsFiniteSet(pairs)
  <2>1. pairs \subseteq Link \X Message
    BY DEF SourceRow
  <2> QED
    BY <2>1, FS_Product, FS_Subset, RepairAssumption
<1>2. \A l \in links : first[l] \in pairs
  <2> SUFFICES ASSUME NEW l \in links
               PROVE  first[l] \in pairs
    OBVIOUS
  <2> DEFINE s == Min(SourcesAt(S, l))
  <2>1. s \in SourcesAt(S, l) /\ S[s].job = j
    BY FirstSource
  <2>2. first[l] = <<l, S[s].message>>
    OBVIOUS
  <2> HIDE DEF s, first
  <2>3. s \in its /\ S[s].link = l
    BY <2>1 DEF SourcesAt
  <2>4. <<S[s].link, S[s].message>> \in pairs
    BY <2>3
  <2> QED
    BY <2>2, <2>3, <2>4
<1>3. \A k, l \in links : first[k] = first[l] => k = l
  OBVIOUS
<1>4. first \in Injection(links, pairs)
  <2>1. first \in [links -> pairs]
    BY <1>2
  <2> HIDE DEF links, pairs, first
  <2> QED
    BY <1>3, <2>1 DEF Injection, IsInjective
<1> HIDE DEF first
<1>5. Cardinality(links) <= Cardinality(pairs)
  BY <1>1, <1>4, FS_Injection
<1> QED
  BY <1>5 DEF NewCount, FoundCount

AddUp(t) == \A j \in Job : t[j].found = t[j].new + t[j].duplicate

LEMMA StatisticsDoAddUp ==
  ASSUME NEW S \in [Source -> SourceRow \union {Null}]
  PROVE  AddUp(Statistics(S))
<1> SUFFICES ASSUME NEW j \in Job
             PROVE  FoundCount(S, j) = NewCount(S, j) + DuplicateCount(FoundCount(S, j), NewCount(S, j))
  BY DEF AddUp, Statistics
<1>1. FoundCount(S, j) \in Nat /\ NewCount(S, j) \in Nat
  <2>1. Statistics(S)[j] \in [found : Nat, new : Nat, duplicate : Nat]
    BY StatisticsAreTyped
  <2>2. Statistics(S)[j].found = FoundCount(S, j) /\ Statistics(S)[j].new = NewCount(S, j)
    BY DEF Statistics
  <2> QED
    BY <2>1, <2>2
<1>2. NewCount(S, j) <= FoundCount(S, j)
  BY NewAreFound
<1>3. ASSUME NEW a \in Nat, NEW b \in Nat, b <= a
      PROVE  DuplicateCount(a, b) = a - b
  <2>1. \E x \in {a - b, 0} : \A y \in {a - b, 0} : x >= y
    BY <1>3
  <2>2. /\ Max({a - b, 0}) \in {a - b, 0}
        /\ \A y \in {a - b, 0} : Max({a - b, 0}) >= y
    BY <2>1 DEF Max
  <2> QED
    BY <1>3, <2>2 DEF DuplicateCount
<1> QED
  BY <1>1, <1>2, <1>3

(* The recomputed statistics add up without being cut off at zero: a job   *)
(* never has more new links than links in messages (lines 231-309).        *)
THEOREM StatisticsAddUpHolds == Spec => []StatisticsAddUp
<1>1. Init => AddUp(totals)
  <2> SUFFICES ASSUME Init, NEW j \in Job
               PROVE  totals[j].found = totals[j].new + totals[j].duplicate
    BY DEF AddUp
  <2>1. totals = [k \in Job |-> [found |-> 0, new |-> 0, duplicate |-> 0]]
    BY Zenon DEF Init
  <2>2. totals[j] = [found |-> 0, new |-> 0, duplicate |-> 0]
    BY <2>1
  <2> QED
    BY <2>2
<1>2. AddUp(totals) /\ RepairInv /\ [Next]_vars => AddUp(totals)'
  <2> SUFFICES ASSUME AddUp(totals), RepairInv, [Next]_vars
               PROVE  AddUp(totals)'
    OBVIOUS
  <2>1. CASE Commit
    <3>1. totals' = Statistics(draftSources)
      BY <2>1 DEF Commit
    <3>2. AddUp(Statistics(draftSources))
      BY StatisticsDoAddUp DEF RepairInv, Typed
    <3> QED
      BY <3>1, <3>2 DEF AddUp
  <2>2. CASE ~Commit
    <3>1. UNCHANGED totals
      BY <2>2 DEF Next, Repair, World, Begin, Read, Take, Find, Clone, Merge, Place, Empty,
                  Latest, WriteUrl, Abort, Organize, Archive, Move, Edit, ScanBegin, ScanEnd,
                  ScanStore, vars
    <3> QED
      BY <3>1 DEF AddUp
  <2> QED
    BY <2>1, <2>2
<1>3. AddUp(totals) => StatisticsAddUp
  BY DEF AddUp, StatisticsAddUp
<1> QED
  BY <1>1, <1>2, <1>3, RepairInvariant, PTL DEF Spec
=============================================================================
