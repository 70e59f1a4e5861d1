# Verification of telegram-links

TLA+ models of the server of telegram-links, of its repair script and of the one
protocol in its administration page, the TLC instances that check them and
the theorems that TLAPS proves about them. Paths are relative to the repository;
line numbers are those of the modelled commit.

The program reads the Telegram dialogs of one account, extracts the URLs of their
messages and keeps one `Link` per host name, which an administrator organizes into
categories and tags and a public page shows. Its core logic is the synchronisation:
a background job that scans chats newest message first, stores what it finds and
moves a watermark so that the next job continues where this one ended. Everything
else writes the same tables at the same time.

## 1. Inventory

| component | source | state it keeps | operations |
|---|---|---|---|
| Synchronisation jobs | `apps/server/src/sync/sync-jobs.service.ts` | rows `SyncJob`, `SyncJobChat`; `creating`, `runningJobId` in memory | `onModuleInit`, `create`, `run`, `runChat`, `persistMessage`, `finish` |
| Telegram chats | `apps/server/src/telegram/telegram-chats.service.ts` | rows `TelegramChat`: `isAvailable`, `lastSyncedMessageId` | `refresh`, `list` |
| Telegram gateway | `apps/server/src/telegram/gramjs.gateway.ts` | the client, its entity map, the window of a scan | `getDialogs`, `getMessages`, `disconnect`, the login calls |
| Telegram login | `apps/server/src/telegram/telegram-auth.service.ts` | `challenge`, `authorized` in memory; the encrypted session row | `onModuleInit`, `sendCode`, `verifyCode`, `verifyPassword`, `logOut` |
| Links | `apps/server/src/links/links.service.ts` | rows `Link`, `LinkSource`, `LinkTag` | `create`, `update`, `batchUpdate`, `archive`, `batchArchive`, `restore`, queries |
| Taxonomy | `apps/server/src/taxonomy/taxonomy.service.ts` | rows `Category`, `Tag` and their `sortOrder` | `create`, `rename`, `reorder`, `remove` |
| Admin login | `apps/server/src/auth/` | buckets of failed logins; JWT | `login`, the guard |
| URL normalisation | `link-values` of the server | none | parse, normalise, host of a URL |
| HTTP layer | controllers, DTOs, filter, setup | none | validation, mapping of errors |
| Database | `apps/server/prisma/` | schema, keys, foreign keys, enums | migrations |
| Data repairs | `apps/server/scripts/repair-chinese-telegram-urls.mjs`, the domain migration | one open transaction, its local variables | cleaning URLs, merging and deleting links |
| Admin UI | `apps/admin/src` | the query cache, mutations in flight | optimistic reorder, creations, refetches, logout |
| Public UI, shared packages, generated clients, deployment | `apps/web`, `packages`, `deploy` | view state | calls of the API; start-up |

**How they interact.** The controllers call the services; the services share the
PostgreSQL tables and nothing else, except that `SyncJobsService` calls
`TelegramChatsService.refresh` and iterates over `GramJsGateway.getMessages`, asks
`TelegramAuthService` whether it is signed in, and that chats and login share the one
client of the gateway. The repair script is a process of its own and shares the tables too;
the administration page has a copy of the taxonomy in its query cache, and requests and
answers in flight. In the server there are no queues, no timers and no workers: a job is a
promise that nobody awaits (`void this.run()`, line 141), so its only protection is the
`try`/`catch`/`finally` inside it.

**What is hard.** The server is one Node process: code between two `await`s is atomic
and everything interleaves at the `await`s. Transactions run at PostgreSQL's default
READ COMMITTED, so code that reads, decides and writes decides on stale rows. Any
database or Telegram call may fail, may fail *after* it took effect, or may never be
answered because the process died. `PROJECT.json` lists the hazards at their lines.

**What makes each component correct.**

- *Synchronisation jobs*: one job at a time; no job is left active with nobody to run it;
  the verdict, progress and counters tell the truth; a chat that succeeded was scanned;
  watermarks never move back and never pass an unread message; every job ends.
- *Gateway messages*: a scan gets each message of its range once, newest first, with its
  context, or fails.
- *Links*: one link per host; organized links have a category; a link nobody edited has
  the URL of its newest source; the removal of a category archives its links.
- *Taxonomy*: a reader sees a reorder whole; concurrent reorders do not mix; names stay unique.
- *Telegram login*: after a logout nobody is signed in, also after a restart; a login survives
  restarts; a password is checked for the login whose code asked for it.
- *Data repairs*: no source, and nothing administrators made of a link, is lost, whatever
  else writes meanwhile.
- *Admin UI*: no list has an item twice; a list at rest is the server's; an order that was asked for is shown until the
  server has answered; a logout clears the lists; no page stays disabled.

## 2. Modules

```
JobLifecycle   <-- refined by --  SyncJobs  <-- MCSyncJobs (TLC)
                                     ^--------- SyncJobsProofs (TLAPS)
MessageStream  <-- refined by --  MessageWindow  <-- MCMessageWindow (TLC)
                                     ^--------- MessageWindowProofs (TLAPS)
                                  Links  <-- MCLinks (TLC)
                                     ^------ LinksProofs (TLAPS)
                                  LinkRepair  <-- MCLinkRepair (TLC)
                                     ^------ LinkRepairProofs (TLAPS)
ItemOrder      <-- refined by --  Taxonomy  <-- MCTaxonomy (TLC)
                                     ^--------- TaxonomyProofs (TLAPS)
                                  TaxonomyPage  <-- MCTaxonomyPage (TLC)
                                     ^--------- TaxonomyPageProofs (TLAPS)
                                  TelegramLogin  <-- MCTelegramLogin (TLC)
                                     ^--------- TelegramLoginProofs (TLAPS)
```

`Kept` is `Array.prototype.filter` as a recursive function; `MessageWindow` and `TaxonomyPage`
use it. `Inductions` (TLAPS) has the lemmas about it and about sums, and is extended by the
proofs that need them (section 5).

The first three detailed models meet at two interfaces. `SyncJobs!ChatMessage` assumes that
messages arrive newest first, once each, with an iteration that ends by itself only
after the last one: that is `MessageStream`, and `MessageWindow` is proved to
implement it. `SyncJobs` takes `persistMessage` as one atomic step (it is one
transaction, and no other party writes the tables `SyncJobs` speaks of); `Links` opens
that step up, statement by statement, against the parties that write `Link`, and relies
on `SyncJobs!OneJobAtATime` for there being one scan. `Links` and `Taxonomy` share the
removal of a category, each with the tables it is about: `Links` the links, `Taxonomy` the
other items. `TelegramLogin` stands beside them: what a login does to a run is `Disconnect` in
`SyncJobs`, a client whose calls fail. `LinkRepair` opens up the repair script and takes each
transaction of the others as one step, the way `Links` and `SyncJobs` describe them; it refuses
to begin while a job is active, but nothing keeps a job from starting after that.
`TaxonomyPage` puts a browser in front of the table of `ItemOrder`: requests change that table
in one step each, which is what `Taxonomy` is proved to implement.

### SyncJobs

An action is the code between two awaits: the awaited statement takes effect and the
code after it runs up to the next one. The variables are grouped by who holds them,
because that decides what a crash loses: PostgreSQL (`status` ... `links`), the process
(`up`, `creating`, `runningJobId`, `queued`, the program counters and locals), Telegram
(`posted`). `scan`, `scanFloor` and `createdBy` are history.

| code | actions |
|---|---|
| `create()` 98-147 | `CreateEnter`, `CreateCheck`, `CreateLookUp`, `CreateInsert`, `CreateRefuse`, `Release` (its `finally`) |
| `run()` 178-230 | `RunStart`, `RunConnect`, `RunRefresh`, `RunLoad`, `RunRead`, `RunCount`, `RunDeduplicate`, `RunFinish`, `RunFail` (`catch`), `RunEnd` (`finally`) |
| `runChat()` 243-307 | `ChatBegin`, `ChatOpen`, `ChatMessage`, `ChatExhausted`, `ChatComplete`, `ChatFail` (`catch`) |
| `onModuleInit()` 86-95 | `Boot` |
| `refresh()` of the chats, from a run or from the administrator | `Refresh` in `RunRefresh`, `AdminRefresh` |
| a failing call | `RunCallFails`, `ChatMessageFails`, `RunFailFails`, `CreateRefuse`; `Handler` says which `catch` gets it |
| a call whose answer is lost | `Answered`, the second disjuncts of `CreateInsert` and `ChatMessage` |
| process, client, Telegram | `Crash`, `Disconnect`, `Post` |

Data is abstracted to what the properties tell apart: a message is its id and the set of
hosts of its URLs (`DomainsOf`); a link is its host; a time range is a range of ids,
since Telegram numbers a chat's messages in the order they are sent. A custom range may
begin and end at any id, and "the last seven days" may begin at any id, which covers
every clock. `run()`'s `catch` may fail too: the rejection is then unhandled and Node
ends the process (`RunFailFails`). A lost answer at that statement is `RunFail` followed
by `Crash`.

### JobLifecycle

What `POST /sync/jobs` promises: submitted one at a time, QUEUED, RUNNING, a verdict; a
restart interrupts what is left; a job that has ended never changes. `SyncJobs`
implements it with `status` mapped to itself; awaits, chats and faults become stutters.

### MessageWindow and MessageStream

`getMessages` (gramjs.gateway.ts 185-242) holds each message back in a window of up to four, until
the two older ones that belong to its context have arrived, and yields from two loops.
A message is its position in the history, newest first. Bodies, senders and reply look-ups are
left out, but a failing look-up or a dropped connection may end the generator at any
step (`Fail`). `HistoriesAssumption` says that a message with a higher id was not sent earlier,
which is
what the early end of the loop (211-213) relies on. The history is what `iterMessages` lists: a message
of the very second at which a range ends may be missing from it, since Telegram does not include the
second of `offsetDate` (197), although line 208 would let it pass. The refinement maps `yielded` to `delivered` and the reference filter
`Wanted` to `wanted`.

### Links

An action is one SQL statement at READ COMMITTED. `row` is what is committed; a
transaction that has written a row is its `holder` and `draft` is the row as it wrote
it; `View(t, l)` is what transaction `t` sees. A second writer waits: its guard `Free`
is false. Unique index and foreign key are guards too (`Taken`, `Awaited`,
`ForeignKey`, the share lock `pinned` that a new `LinkSource` takes on the link's key);
a statement that violates one is an abort. A transaction that writes one row once is one action.

| code | actions |
|---|---|
| `persistMessage` 311-470 | `ScanBegin`, `ScanFind`, `ScanCreate`, `ScanApply`, `ScanSource`, `ScanNewest`, `ScanUrl`, `ScanCommit`, `ScanAbort` |
| `LinksService.create` | `CreateLink` |
| `LinksService.update` | `EditRead` (everything before its transaction), `EditWrite`, `EditDrop` |
| `archive`, `batchArchive`, `restore` | `Archive`, `Restore` |
| `TaxonomyService.remove('categories', id)` | `RemoveArchive`, `RemoveClear`, `RemoveDelete`, `RemoveAbort` |

A URL is its host and the message that gave it. Titles are never empty (the DTO refuses
that), tags are one bit of a job's defaults, and a removed category never comes back
(ids are generated).

### Taxonomy and ItemOrder

One kind of items: categories and tags have tables of their own and run the same code.
An action is one statement at READ COMMITTED, as in `Links`. `row` is what is
committed, `draft` what an open `reorder()` has written and `holder` who that is; another
writer of that row waits.

| code | actions |
|---|---|
| `create` 43-75 | `CreateRead` (the aggregate), `CreateInsert` |
| `reorder` 77-131 | `ReorderRead` (the ids, `assertCompleteOrder` is `Places`), `ReorderUpdate`, once per id in the order of the request, `ReorderCommit` |
| `rename` 133-158 | `Rename` |
| `remove` 160-191 | `Remove` |
| a failing request | `Abort` |

`ensureUnique`, `ensureExists` and the `count` of `remove` refuse early what the unique
index or the missing row refuses anyway, so they add no state. `Abort` stands for every
way a request fails after its first statement: the unique index, a row that is gone, a
timeout, the connection, and the deadlock of two reorders that lock rows in
opposite orders, which PostgreSQL breaks by failing one of them.

`ItemOrder` is what the pages that list items see: items come, go and change names one at a
time, and a rearrangement numbers a set of items from zero without a hole, in one step.
It does not promise that all items have distinct orders, and they need not: two
creations may read the same maximum, or a creation may insert with the maximum from
before a reorder. `list()` breaks ties by name, so the page still has one order, and the next
reorder removes the tie.

### TelegramLogin

An action is the code between two awaits, of any number of concurrent requests. A client of
the gateway is known by its session: a new client has a new key, a restored one the key that
was stored. Telegram is permissive: it may refuse or sign in whatever it is asked, since the
code never looks at a code or password itself. What may be lost is grouped as in `SyncJobs`:
Telegram (`signedIn`), PostgreSQL (`stored`), the process (the rest).

| code | actions |
|---|---|
| `sendCode` 99-121, `resetSession`, `replaceClient`, `ensureClient` | `SendEnter`, `SendDropped`, `SendConnected`, `SendCode` |
| `verifyCode` 123-141, `verifyPassword` 143-154 | `VerifyCode`, `VerifyPassword`, `PasswordNeeded`, `SignedIn`, `Persist`, `Authorize` |
| `logOut` 156-180 and the gateway's `logOut`, `disconnect` | `LogOutEnter`, `LoggedOut`, `LogOutFails` (`catch`), `Left`, `Clear` (`finally`), `LogOut` |
| `requireChallenge` 200-224 | guard of `VerifyEnter`; `Expire`, at any time |
| `onModuleInit` 45-74 | `Boot`, one action, since the server does not listen before it is over |
| a failing call, the end of the process | `CallFails`, `ClearFails`, `Crash` |

A failing call may have taken effect; a rejected code, an unknown challenge and a client that
is missing end the request without a trace. Continuations that run at once, such as the
return from `replaceClient` to `sendCode`, are part of the action that answers the await. A
revocation from another device is left out: it ends the login, which is what it is for.

`mixed` and `last` are history and say when the two promises apply. **They do not hold when
a verification overlaps a `sendCode` or a `logOut`**, and the model shows why: `persistAuthorizedUser`
asks the gateway for the session of the client there is *now* (229), so a
`sendCode` that replaced the client during the verification makes it store a session that nobody has
signed in; and a verification that has its answer from Telegram stores its session and sets `authorized`
(254) after a `logOut` has ended. The admin UI has one person and disables its buttons, so the
overlap needs two browsers or tabs.

### LinkRepair

`repair-chinese-telegram-urls.mjs` runs once per deployment that needs it, in one transaction of
many statements, beside a server that is up. `row` and `sources` are what is
committed; `draft` and `draftSources` are the same as the script's transaction sees
them. READ COMMITTED means that a commit of somebody else shows up in both, and a lock that
the script holds (`locked`) makes others wait; at `Commit` the drafts become the
tables, at `Abort` the tables become the drafts again.

| code | actions |
|---|---|
| `run()` 334-379 | `Begin` (the refusal while a job is active), `Read` |
| the loop 387-465 | `Take`, `Find` (`ensureTargetLink`), `Clone` (`cloneLink`), `Merge` (`mergeLink`, `mergedMetadata`), `Place` (moves the source, or drops it for one that is there) |
| 467-482 | `Empty` |
| `recomputeMainUrl` 207-229 | `Latest`, `WriteUrl` |
| `recomputeSyncStatistics` 231-309, `COMMIT` | `Statistics` in `Commit` |
| 510-512, or the end of the process | `Abort` |
| `LinksService.update`, `archive`, `restore` | `Organize`, `Move`, `Archive` |
| `create`, `finish`, `persistMessage` | `ScanBegin`, `ScanEnd`, `ScanStore` |

A raw URL with a Han character is a member of `Dirty`; `StoredAs` is what the old
normalisation stored for it and `CleanOf` what cleaning leaves of it, if that is a URL at all.
Purpose and title are filled in by the rule for the category and are left out; `first` stands
for the two dates that take the earlier value. Messages are of one chat each, so the
statistics of a job are counted over the job.

`SettledAssumption` excludes one input. If what cleaning leaves of one dirty URL of a message is
exactly what was once stored for *another* dirty URL of it, on the same link, the loop may take
that other source for the finished copy, delete the first one, and then move the other one
away: the clean URL is gone, or not, depending on which row is older. This needs a message
with the percent-encoded form of a Han character and the same form followed by
one more Han character.

### TaxonomyPage

One administrator's list of categories (or of tags): `data` is the entry of the query cache,
`fetch` the request that refreshes it, `call` the mutations in flight, `view` the page or
dialog that shows the list. TanStack Query is external and modelled by what the pages call of
it: a fetch is dropped when another is asked for, when it is cancelled, and when no page shows
the list; data that was written counts as fresh until it is a minute old; data that no page
shows is dropped after five.

| code | actions |
|---|---|
| `taxonomy.tsx` 36-89, `admin-api.ts` 30-64 | `Reorder`, `Reordered`, `Settle`, `Fail` (the rollback) |
| `taxonomy.tsx` 66-85 | `Create`, `Rename`, `Delete`, `Succeed` |
| `links-page.tsx` 221-236 | `Create` and `Succeed` of a picker (`Appended`) |
| `admin-api.ts` 84-126 | `Refetched`, `Invalidated` |
| `use-taxonomy.ts`, `query-client.ts` | `Visit`, `Read`, `Land`, `FetchFails`, `Age`, `Collect` |
| `admin-shell.tsx` 138-147, `login-page.tsx` | `Logout`, `Login` |
| the server; another administrator | `Serve`, `Refuse`; `Elsewhere` |
| the time limit of ten seconds in `request.ts` | `LoseAnswer`, `Refuse` |

Two things the model shows and the properties therefore exempt. A reorder that fails rolls back
to the list it found; when it had cancelled the refetch of a creation or rename, or another
answer had been written meanwhile, that list is out of date and counts as fresh for a minute.
And `apps/admin/README.md:18` says that leaving the administration clears its data in the
QueryClient; a mutation in flight at that moment writes the list back when its answer comes
(a picker's creation and a reorder both do). `StaysCleared` is therefore about fetches.

## 3. Runs

| run | instance | what it shows |
|---|---|---|
| `SyncJobsControl` | 2 requests, 2 jobs, 2 chats, no messages, 1 fault, 1 crash, with fairness | `OneJobAtATime`, `NoAbandonedJob`, `VerdictMatchesChats`, `ProgressIsHonest`, `ProgressMonotone`, `RefinesLifecycle`, `JobEnds`, `CreatingIsReleased` |
| `SyncJobsScan` | 1 request, 2 jobs, 1 chat, all four range modes, up to 3 messages, 1 fault (possibly a lost answer), 1 crash | `TypeOK`, `SucceededChatIsScanned`, `WatermarkIsGreatestProcessed`, `CountersAreTrue`, `NoGapBelowWatermark`, `WatermarkMonotone` |
| `MessageWindow` | every history of at most 5 messages at 4 instants, service messages included, every range | `TypeOK`, `ContextIsNeighbourhood`, `RefinesStream` |
| `LinksState` | 1 link, 2 categories, 2 edits, scans with and without defaults, removals | `OrganizedHasCategory` |
| `LinksUrl` | 2 links, 2 hosts, 3 messages of which two share a second, 1 edit | `TypeOK`, `NewestUnlessEdited` |
| `Taxonomy` | 4 ids, 3 names, 2 concurrent creations or reorders, renames and removals at any time | `TypeOK`, `LastReorderWins`, `RefinesItemOrder` |
| `TelegramLogin` | 3 sessions, 2 challenges, 2 concurrent requests; failures, expiry and crashes without limit | `TypeOK`, `LogoutIsFinal`, `LoginIsKept`, `PasswordFollowsCode` |
| `LinkRepair` | 3 sources of 2 messages on up to 3 of 4 links, every order and mixture of a URL that moves to another host, one that stays within its host, one whose Han characters are in the fragment (so that what was stored is clean already), one that becomes invalid and a clean one; 1 repair beside 1 edit or scanned message | `TypeOK`, `SourcesArePlaced`, `OrganizationIsKept`, `OrganizedHasCategory`, `MainUrlIsNewest`, `StatisticsAddUp` |
| `TaxonomyPage` | 2 items and a third to come, 2 mutations in flight, 2 mutations or outside events in all, with fairness | `TypeOK`, `NoItemTwice`, `PageIsCurrent`, `OrderIsHeld`, `StaysCleared`, `CallsEnd` |
| `LinksTagDefaults` | as `LinksState`, 1 edit, a job with default tags only | `OrganizedHasCategory` is violated (finding 1) |
| `LinksHosts` | 2 links, 2 hosts, 2 edits | `OneLinkPerHost` is violated (finding 2) |
| `LinksRemoval` | 1 link, 1 category, 1 edit | `RemovalArchives` is violated (finding 3) |

**Why the bounds are enough.** Who may run is decided between two parties, so two
requests and two jobs show every conflict; a second chat gives mixed verdicts and a
progress bar with an inner step; a
fault may hit any call of a run, its `catch` included, since a disconnected client makes a run
fail without one. What
messages say needs one chat: chats share nothing but the links, and there the messages
of one chat already meet. Three messages are the least with one below, one at and one
above a watermark, and they have two new hosts, a duplicate and no host at all; two jobs are
the least for "scan or fail, then resume". The window of the gateway has four places, so five
messages make it shift, and four instants put messages before, at and after either end
of a range and in and out of a context. In `Links` category and status are decided
between a scan, edits and removals of one link, and the URL by messages and edits of two
links that compete for a host; no condition relates columns
of the first kind to those of the second, so the two questions have a run each. In `Taxonomy` two
reorders of three items can lock rows in opposite orders, and a fourth id lets an item come
or go between the check and the updates. A login needs a client that is signed in, one that
replaces it and one that replaces that while both requests know another; two challenges are a verified and a newer one. The
repair needs three sources for a link that is emptied into one that is emptied itself or gets a
duplicate, on a link that a third holds; a fourth source is for the scan. In `TaxonomyPage` two
mutations can overtake each other, one of them asked for on a page that has been left, and two
items and a third give orders to hold and lists to differ. All safety properties are proved
for all sizes (section 5).

**Bounds in guards.** `MaxMsg` limits the messages a chat may ever hold, `MaxFaults` and
`MaxCrashes` the failing calls and crashes; `Job` and `Link` are the rows there may ever
be (a request is accepted by `CreateEnter` only while a row is left), and `Item` the ids the
taxonomy may ever give out, `Session` and `Challenge` the clients and challenges there will
ever be. `MaxSource`, `MaxRuns` and `MaxOthers` limit sources, repairs and what happens beside
them, `Call` and `MaxEvents` mutations in flight and events of the page. Nothing else is cut off.

**Symmetry** permutes jobs and requests (`SyncJobs`), links, edits and categories
(`Links`), ids, names and requests (`Taxonomy`), sessions, challenges and requests (`TelegramLogin`); no definition tells them apart. It is used for safety and action properties
only, never in a run with fairness; `SyncJobsControl`, `LinkRepair` and `TaxonomyPage` use none.

**Deadlock** is checked everywhere but in `MessageWindow`, where the generator returns or
throws, in `LinkRepair`, where the script ends and the bound on what happens beside it is used
up, and in `TaxonomyPage`, where an administrator may stay on a page for ever. In the other models the server can always boot or the administrator act.

**Mutants.** Every property of a passing run has one: a definition such as
`CreateEnterUnlocked`, `ChatFailAdvances` or `ShiftedEarly` stands next to the definition it distorts, the
way a plausible bug would, and the property fails when it takes its place.

### Conditions under which the properties hold

- `NoGapBelowWatermark` is about histories in which every job asks for `SINCE_LAST`. A
  `CUSTOM` or `LAST_7_DAYS` job moves the watermark to the newest message it read, past older
  ones it never looked at; a later `SINCE_LAST` job does not go back for them. The code
  does that by design (line 286 writes it for every mode), so the property says nothing once
  such a job exists (`OnlyIncremental`).
- `NoAbandonedJob` and `RefinesLifecycle` are checked and proved with `LostReplies = FALSE`, that is,
  every failing call had no effect. If the insert at line 125 commits and its answer is
  lost, the row stays QUEUED with no run, and every `create()` answers 409 until a
  restart. If the update of `finish()` at line 485 commits and its answer is lost, the
  `catch` block turns a SUCCEEDED job into a FAILED one. Everything in `SyncJobsScan`, and the
  other theorems about `SyncJobs`, allow lost answers.
- `CountersAreTrue` counts the links of transactions whose answer arrived: a message whose
  transaction commits without an answer created links that no counter counts.
- `OrganizedHasCategory` holds if every job with default tags has a default category
  (`DefaultsHaveCategory`); without that it is finding 1.
- `NewestUnlessEdited` speaks of links no edit has written; an administrator's URL is
  replaced by the next scan of a message that is at least as new as all sources.
- `LogoutIsFinal` states `apps/admin/src/components/features/telegram-page.tsx:564` (the account
  has to be verified again) for a `logOut` that no verification overlaps, and that reached its last
  statement: if that one fails (`ClearFails`), the answer is an error, nobody is authorized,
  but the session may still be stored. `LoginIsKept` likewise leaves overlaps out.
- `SourcesArePlaced` holds under `SettledAssumption`, which leaves out the case in which a URL may be
  lost: the property and its theorem say nothing about that case. `OrganizationIsKept` is about links as the
  script read them: what an administrator changes on a link that is emptied, after that read,
  goes with the link. `MainUrlIsNewest` leaves out links an administrator gave a URL and links a
  scan wrote while the repair was running, since `recomputeMainUrl` reads and writes in two
  statements.
- `PageIsCurrent` says nothing after a change elsewhere, a lost answer or refetch, or the
  rollback described above, until the next refetch has landed; nor about a first fetch that the server
  had answered when a mutation asked for another, since the query cache does not repeat a first
  fetch, and what it brings then counts as fresh. `StaysCleared` is about fetches.

### Fairness

`JobEnds` and `CreatingIsReleased` assume weak fairness of the steps of a run and of a
request: Node's event loop runs every callback whose call has answered, and every
database or Telegram call answers or fails. Requests, faults, crashes, posts and `Boot`
are under no obligation: `deploy/entrypoint.sh` puts the server in the background and
nothing restarts it when it dies, so `JobEnds` lets a job stay active while the process
is down, and a job that outlives its process ends only if somebody boots it again.

`CallsEnd` assumes weak fairness of the fetch and of each mutation: a request is answered or
given up after ten seconds (`request.ts`), and the code that waits for it goes on. A fetch that
fails is retried once at most (`shouldRetry`). The browser is assumed to be online: TanStack Query
pauses what it has to send while it is not. Administrators, time, outside events and logouts are under
no obligation.

## 4. Findings

1. **A job's default tags may take an organized link's category away.** `persistMessage`
   reads the link (385), decides to apply the defaults, and writes
   `categoryId: link.categoryId ?? job.defaultCategoryId` (420) from that copy. With default
   tags and no default category that is the null it read; an administrator who
   organizes the link in between loses the category and the link stays ORGANIZED, against
   `apps/server/README.md:74`. Run `LinksTagDefaults`.
2. **Two links may end with the same host.** `update()` writes `url` from a row read
   before its transaction and `domain` only if the request has a URL
   (`links.service.ts:316`), so an edit of the title that read the link before a
   concurrent change of its URL puts the old URL back under the new domain; the old host
   is free for another link. `README.md:16` promises one link per host. The URL update of
   a scan (`sync-jobs.service.ts:459`) can do the same. Run `LinksHosts`.
3. **Removing a category may leave links unarchived.** `remove()` archives the links of
   the category (174-177) and clears it from its links (178-184) in two statements; a link that takes
   the category, or is restored, between them is cleared and not archived, against
   `apps/admin/src/components/features/taxonomy-view.tsx:87`. Run `LinksRemoval`.

## 5. Proofs

| theorem | statement |
|---|---|
| `SyncJobsProofs!ControlInvariant` | `Spec => []ControlInv` |
| `SyncJobsProofs!OneJobAtATimeHolds` | `Spec => []OneJobAtATime` |
| `SyncJobsProofs!TypeCorrect` | `Spec => []TypeOK` |
| `SyncJobsProofs!ScanInvariant` | `Spec => []ScanInv` |
| `SyncJobsProofs!SucceededChatIsScannedHolds` | `Spec => []SucceededChatIsScanned` |
| `SyncJobsProofs!NoGapHolds` | `Spec => []NoGapBelowWatermark` |
| `SyncJobsProofs!WatermarkMonotoneHolds` | `Spec => WatermarkMonotone` |
| `SyncJobsProofs!WatermarkIsGreatestHolds` | `Spec => []WatermarkIsGreatestProcessed` |
| `SyncJobsProofs!VerdictInvariant` | `Spec => []VerdictInv` |
| `SyncJobsProofs!VerdictMatchesChatsHolds` | `Spec => []VerdictMatchesChats` |
| `SyncJobsProofs!ProgressIsHonestHolds` | `Spec => []ProgressIsHonest` |
| `SyncJobsProofs!NoAbandonedJobHolds` | `~LostReplies` implies `Spec => []NoAbandonedJob` |
| `SyncJobsProofs!Refinement` | `~LostReplies` implies `Spec => RefinesLifecycle` |
| `SyncJobsProofs!ProgressMonotoneHolds` | `Spec => ProgressMonotone` |
| `SyncJobsProofs!CounterInvariant` | `Spec => []CounterInv` |
| `SyncJobsProofs!CountersAreTrueHolds` | `Spec => []CountersAreTrue` |
| `MessageWindowProofs!WindowInvariant` | `Spec => []WindowInv` |
| `MessageWindowProofs!WindowTypeOK` | `Spec => []TypeOK` |
| `MessageWindowProofs!ContextIsNeighbourhoodHolds` | `Spec => []ContextIsNeighbourhood` |
| `MessageWindowProofs!RefinesStreamHolds` | `Spec => RefinesStream` |
| `LinkRepairProofs!RepairInvariant` | `Spec => []RepairInv` |
| `LinkRepairProofs!SourcesArePlacedHolds` | `Spec => []SourcesArePlaced` |
| `LinkRepairProofs!OrganizationIsKeptHolds` | `Spec => []OrganizationIsKept` |
| `LinkRepairProofs!OrganizedHasCategoryHolds` | `Spec => []OrganizedHasCategory` |
| `LinkRepairProofs!MainUrlHolds` | `Spec => []MainUrlIsNewest` |
| `LinkRepairProofs!StatisticsAddUpHolds` | `Spec => []StatisticsAddUp` |
| `LinkRepairProofs!RepairTypeCorrect` | `Spec => []TypeOK` |
| `LinksProofs!LinksTypeCorrect` | `Spec => []TypeOK` |
| `LinksProofs!OrganizedHolds` | `DefaultsHaveCategory` implies `Spec => []OrganizedHasCategory` |
| `LinksProofs!NewestHolds` | `Spec => []NewestUnlessEdited` |
| `TaxonomyProofs!TaxonomyInvariant` | `Spec => []TaxonomyInv` |
| `TaxonomyProofs!LastReorderWinsHolds` | `Spec => []LastReorderWins` |
| `TaxonomyProofs!RefinesItemOrderHolds` | `Spec => RefinesItemOrder` |
| `TaxonomyProofs!TaxonomyTypeCorrect` | `Spec => []TypeOK` |
| `TaxonomyPageProofs!PageInvariant` | `Spec => []PageInv` |
| `TaxonomyPageProofs!PageIsCurrentHolds` | `Spec => []PageIsCurrent` |
| `TaxonomyPageProofs!OrderIsHeldHolds` | `Spec => []OrderIsHeld` |
| `TaxonomyPageProofs!StaysClearedHolds` | `Spec => StaysCleared` |
| `TaxonomyPageProofs!ListsInvariant` | `Spec => []ListsInv` |
| `TaxonomyPageProofs!NoItemTwiceHolds` | `Spec => []NoItemTwice` |
| `TaxonomyPageProofs!PageTypeOK` | `Spec => []TypeOK` |
| `TelegramLoginProofs!LoginInvariant` | `Spec => []LoginInv` |
| `TelegramLoginProofs!LogoutIsFinalHolds` | `Spec => []LogoutIsFinal` |
| `TelegramLoginProofs!LoginIsKeptHolds` | `Spec => []LoginIsKept` |
| `TelegramLoginProofs!PasswordFollowsCodeHolds` | `Spec => []PasswordFollowsCode` |
| `TelegramLoginProofs!LoginTypeCorrect` | `Spec => []TypeOK` |

They hold for any number of jobs, chats, requests, messages, items, sessions, challenges, faults
and crashes, any history and any range, with or without lost answers, from the named assumptions on the
constants only: `ConstantsAssumption`, `LinksAssumption`, `RowAssumption`, `TaxonomyAssumption`,
`LoginAssumption`, `RepairAssumption` and `PageAssumption` say that a null is no row and no request, that
there are finitely many chats, rows and items and that bounds are numbers;
`HistoriesAssumption` and `SettledAssumption` are those of section 2.

**Induction.** The library's induction rules take a predicate as a parameter, which the provers
cannot instantiate. `Inductions` takes sets instead: a non-empty set of natural numbers
has a least one (`LeastNatural`), since the library proves `<` well-founded *as a relation*; so a set
with 0 and all successors has every number (`NaturalsAreInductive`), and a set that has each subset of a
finite set once it has those with one element less has all of them (`SubsetsAreInductive`). From these follow what the
two recursive functions of the models are: `Kept(s, S)` picks, along an increasing map of positions, just the
elements of `s` that are in `S` (`KeptIs`), and a sum over a finite set does not depend on the
order in which it is taken (`SumIs`). The standard `SelectSeq` and `MapThenSumSet` take an operator
too, so the models say `Kept` and `SumFunctionOnSet`.

**One job at a time.** `OneJobAtATime` is not inductive: nothing in it stops two requests
from both having found no active job. `ControlInv` adds why that cannot happen.
`creating` is a lock held by the one request that is inside `create()`
(`CreatingIsALock`); a request that has passed its check still sees a clear process,
because only the holder of the lock may add a job and only an existing job may start a
run (`CheckedIsClear`); a run that executes is named by `runningJobId` up to its `finally`
(`RunnerIsNamed`), so the check at line 109 sees it even when its row has already its
verdict; a queued job is alone (`QueuedIsAlone`, `RunnerIsAlone`); and a process that is
down has nobody inside (`DownIsEmpty`), so `Boot` interrupts rows without a run. The proof reduces the
fifteen steps of an executing run to one shape, `RunMove`, and has one lemma for each of
the other families of actions.

**Types of SyncJobs.** The hard conjunct is `progress \in 0..100`: it needs that a run at
a chat has a chat total of at least one and no more chats to do than that total
(`RunShape`), and the arithmetic of rounding (`ShareBound`).

**Scans.** What a scan will have done when it ends has to be said of every message it has
passed. `ScanInv` says that the watermarks a run read are still those of the table
(`WatermarksAreFresh`: only a run writes them, and `ControlInv` has one run), that of the range
that was there when the scan opened everything above the cursor is stored (`Covered`), that a
range of an incremental job begins right above the watermark (`ScanIsCovered`) and that a chat
has a floor exactly if it has a watermark (`FloorsMatch`). Then the completion of a chat moves the
watermark only over messages that are stored, a failed chat does not move it at all, and the
next job begins where it stands.

**Verdicts.** `VerdictInv` ties the row to the place of its run (`RowFollowsRun`), and says that the chats
a run has taken off its list have ended (`ChatsAreDone`), so that what `finish()` counts is
final. The one place where a row and its run disagree is a lost answer at `finish()`, and
there the two results that need `~LostReplies` fail; the others survive it, because the
`catch` block sets `error` and leaves progress alone. For the refinement every step of a run
leaves the statuses alone or is one step of `JobLifecycle` (`StepRefines`).

**Progress.** That the bar of a job never falls is not inductive either: it must be known that the
next value written is no smaller. `BarFollowsRun` says where the bar may stand for each place in
`run()`: at 0 before it, at most 5 up to the list of chats, then at most 10 or what the next
update would show (`Shown`), at most 95 at the end. `ShareMonotone` has the arithmetic, that more
chats done out of as many round to no smaller share.

**Counters.** `CountersAreTrue` compares two sums at the end of a job; `CounterInv` relates them on the
way (`CreatedIsCounted`): the links the run created are those in the rows of its chats and, while it is
at a chat, those in the counters it holds for it, whatever the row of that chat has by then. The
counters of a chat that is still to do are zero. A failed chat writes its counters in its `catch`, which is why
they are not lost. A call whose answer is lost may write the row and be written
again by the `catch`; the sum leaves the chat's row out until the run has left the chat.

**The window.** One number determines everything: if `p` messages of the range have been read, the window
holds the last of them, at most three while reading (four between push and shift), and what has been yielded
are the first `p - 2`, each with its context *in the range* (`WindowInv`). A message is yielded only
when its two older neighbours are in the window or there are none, so its context in the window
is the one in the range (`ContextInWindow`, `BesideInRange`); the flush does the same for the last ones.
That a message too old ends the loop for good needs that the history is ordered by time
(`EndIsTheEnd`). `ContextIsNeighbourhood`, stated over positions, and the refinement of
`MessageStream` are read off the invariant.

**The repair.** `RepairInv` says where the script's transaction may differ from what is committed
(only on links it holds and on sources, `Beside`), that both have at most one link per host and
no source without its link (`Hosts`, `Consistent`), and that the local variables agree with each
other (`AsRead`). `Progress` is the loop invariant: sources that are clean are as they were read;
sources that wait are where they were, except that their raw URL may be clean already;
a source that is done has a counterpart for its message, with the clean URL, on a *locked* link of
the right host, which `Carries` what its old link was. Locks are what makes this stable under
administrators and scans; that a later turn does not take the counterpart away again
is where `SettledAssumption` is needed. `Carried` has the part about what
administrators made of the links: `Keeps` is reflexive and transitive and `Merged` keeps both sides.
`OrganizedHasCategory` needs a second, smaller invariant on top, about the rows that were read
(`CategoryInv`), and `MainUrlIsNewest` a third (`UrlInv`): the committed URL of a link that nobody
else gave one leads its committed sources, and so does the one the transaction sees, except at the
links the repair has in `touched` and has yet to choose for, and the one it is about to write
(`UrlsLead`). Sources leave and arrive at links in `touched` only, also those of an old link whose
row is dropped (`TouchedInTime`), and `touched` is empty before the statistics begin, so at the
commit the second of these is the first. The types need that the counters computed anew are
numbers: the sets they count are finite, and the difference is cut off at zero. `StatisticsAddUp` says
that the cut never shows, because the new links of a job map one to one to links in its messages
(`NewAreFound`: a link to the message of its first source).

**Organized links.** The invariant is about all the row's versions: committed, drafted by
a transaction that may still commit or roll back, and about to be written by an edit
(`AllOrganizable`), and about the scan: at the update of line 420 its job has a default
category (`AppliesACategory`), which is where the assumption on defaults is used. The typing
part (`Held`, `Places`, `EditsRows`) says that a draft exists for every held row and
that an edit or a scan at a link has a row to write.

**Whose URL.** A scan stores its source, reads the newest one and writes the URL in three
statements, so what it sees is wrong in between at the one link it is deciding about. `NewestInv`
says that the committed URL of a link nobody edited leads its committed sources
(`CommittedLead`), that what the scan sees leads them too, except there (`SeenLead`,
`Undecided`), and that a removal, which may hold the row while the scan waits, keeps its URL
(`RemovalsKeepFrom`). A commit then makes the second of these the first.

**Reorders.** `LastReorderWins` compares committed rows with what the last call to commit
asked for; to survive the next commit it needs to know what an open call will write.
`TaxonomyInv` says that every row a call has written is still there, is held by it and
drafted as it asked (`HoldsWritten`), that nobody else holds rows (`HeldIsWritten`), and that ids are
given out once, so that an item created later is none of those the last call named
(`OnceUsed`). At the commit nothing is left to write, so the rows written are the rows
named, and their numbers are those of `Places`: exactly a step of `ItemOrder!Arrange`.

**The cached list.** `PageIsCurrent` is about a list at rest; `PageInv` adds what leads there. Nobody
fetches a list that no page shows, nor after a logout (`FetchesAreWatched`); a list is fetched only
if it is missing or stale, or the server's has changed behind the page, and a fetch that has been
answered carries the server's list, unless that has changed since (`FetchesAreCurrent`); while an
order is shown that nothing has written over, no fetch is under way and the list it would go back
to is the server's, unless a fetch was cancelled for it (`OrderMayGoBack`). `RestIsCurrent` is the
property with the mutations that the server has not answered to, and that did not touch the list,
allowed beside it. The steps look only at whether lists are equal, so the invariant types them by
*some* set that holds them (`Shapes`). That no item is in a list twice (`NoItemTwice`) is part of `ListsInv`, for the table, the cache,
the answer of a fetch and what a reorder goes back to at once, since each is copied into the next: a
creation that a fetch has already brought would double its item, and is dropped before it is
added (`links-page.tsx` 229-232); a rearrangement keeps the items of a list that its ids name.

**Logins.** `LogoutIsFinal` and `LoginIsKept` speak of the time after a request; `LoginInv` adds
what is true while it runs. Verifications that are not mixed have no other request beside
them (`NotMixed`), so the client they began with is still there, what they save is signed in
and what one has saved the others would save too (`PureKeys`). A `logOut` that is not mixed has
cleared the flag before its upsert (`Cleared`). After a logout no verification is under way
(`OutQuiet`), and while a login counts no `logOut` is, nor a mixed verification (`InQuiet`), so
nothing that is left can store or sign out a session. `Asked` relates the stages of all
challenge objects to what Telegram has asked for, since `PasswordFollowsCode` must hold for
objects that are no longer current.

**Only model-checked.** `JobEnds`, `CreatingIsReleased` and `CallsEnd`: liveness under fairness is out
of the prover's reach. Every other property of a passing run is a theorem.

## 6. Not modelled

`PROJECT.json` has the reason for each component. In short: session encryption, URL
normalisation and the HTTP layer are pure and their results are inputs of the models; the
query methods only read; the web pages render what one endpoint returns; deployment is
start-up only.

- *Admin login.* A request awaits bcrypt once, over counters in memory that nothing else reads;
  tokens are checked without state. The repository promises no exact limit under concurrent
  attempts, so there is no property to state.
- *`batchUpdate` and tags.* A loop over `update`, which `Links` has; its answers tell what was
  skipped, and nothing relates the links of one batch. Tags are written by no condition and read
  by none, except as a default of a job (`Links`) and in the repair (`LinkRepair`).
- *The domain migration.* One SQL script that ran alone, before the index it made possible.
- *The other pages of the administration.* They fetch, render and send forms; their only state that
  outlives an answer is the query cache, which `TaxonomyPage` models for the one list that is written
  optimistically.
- Within `Links`, two concurrent removals of the *same* category are left out (the second finds no
  row and fails). `Links` and `LinkRepair` are not composed: a link is edited in one step in
  `LinkRepair`, and a repair does not occur in `Links`.

Most of the repository by lines is none of this: API clients and route trees written by
generators, presentational components, forms and tables. It has no state to check, so
the models cover a small share of its lines and all of its server state.

## 7. Plan

Order is by importance to the program.

1. *Done.* `SyncJobs` with `JobLifecycle`: runs, types, control, scans, verdicts, counters and the refinement.
2. *Done.* `Links`: scans, edits and removals on one table, with its types and both
   invariants proved.
3. *Done.* `MessageWindow` with `MessageStream`, the refinement proved.
4. *Done.* `TelegramLogin` with the client of the gateway, all four properties proved.
5. *Done.* `Taxonomy` with `ItemOrder`, both properties and the refinement proved, and the
   optimistic page in front of it, `TaxonomyPage`.
6. *Done.* `LinkRepair` with its types and its four data properties proved.
7. *Done.* The safety of `TaxonomyPage`, proved.
8. *Done.* The window of the gateway, the sums of `SyncJobs` and `LinkRepair` and the lists of
   `TaxonomyPage`, proved by induction over sets.
9. *Open.* Tags in `Links`, with `batchUpdate`'s merge of tags that were read before.
