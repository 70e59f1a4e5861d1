------------------------------ MODULE SyncJobs ------------------------------
(***************************************************************************)
(* SyncJobsService (apps/server/src/sync/sync-jobs.service.ts): requests   *)
(* that create synchronisation jobs, the background run that executes one, *)
(* and the restart that cleans up after a crash.                           *)
(*                                                                         *)
(* The server is one Node process, so an action is the code between two    *)
(* awaits: the database statement (or transaction) that was awaited takes  *)
(* effect and the code after it runs up to the next await.  Any number of  *)
(* requests, the run, the administrator and Telegram interleave between    *)
(* actions.  Variables come in three groups: what PostgreSQL holds, what   *)
(* the process holds and loses in a crash, and what Telegram holds.        *)
(***************************************************************************)
EXTENDS Integers, FiniteSets, FiniteSetsExt, Functions

CONSTANTS
  Job,          \* identifiers of SyncJob rows; as many jobs as can be created
  Chat,         \* Telegram chats
  Request,      \* concurrent POST /sync/jobs requests
  Domain,       \* hosts found in messages; one Link row each
  Modes,        \* the range modes requests may ask for
  MaxMsg,       \* bound: messages a chat may ever hold, ids 1..MaxMsg
  DomainsOf,    \* Chat -> 1..MaxMsg -> the hosts of the message's URLs
  Dialogs,      \* the sets of chats getDialogs may list
  MaxFaults,    \* bound: failing database or Telegram calls, disconnections
  MaxCrashes,   \* bound: crashes of the process
  LostReplies,  \* may a call fail after its transaction committed?
  NoJob,        \* runningJobId = null
  NoChat        \* no chat is being scanned

RangeMode == {"ALL_HISTORY", "CUSTOM", "LAST_7_DAYS", "SINCE_LAST"}

ASSUME ConstantsAssumption ==
  /\ IsFiniteSet(Chat) /\ IsFiniteSet(Job) /\ IsFiniteSet(Domain)
  /\ NoJob \notin Job /\ NoChat \notin Chat
  /\ Modes \subseteq RangeMode
  /\ MaxMsg \in Nat
  /\ DomainsOf \in [Chat -> [1..MaxMsg -> SUBSET Domain]]
  /\ Dialogs \subseteq SUBSET Chat
  /\ MaxFaults \in Nat /\ MaxCrashes \in Nat
  /\ LostReplies \in BOOLEAN

VARIABLES
  (* PostgreSQL *)
  status,               \* Job -> SyncJob.status, "ABSENT" before the insert
  stage,                \* Job -> SyncJob.stage, "NULL" before the run
  progress,             \* Job -> SyncJob.progress
  error,                \* Job -> is SyncJob.error set?
  mode,                 \* Job -> SyncJob.rangeMode
  totals,               \* Job -> the four counters of SyncJob
  chatStatus,           \* Job -> Chat -> SyncJobChat.status, "ABSENT" if no row
  chatCounters,         \* Job -> Chat -> the four counters of SyncJobChat
  maxProcessedMessageId,\* Job -> Chat -> the column of SyncJobChat, 0 for null
  lastSyncedMessageId,  \* Chat -> the column of TelegramChat, 0 for null
  isAvailable,          \* the chats whose TelegramChat.isAvailable is true
  stored,               \* <<chat, message>> with a TelegramMessage row
  links,                \* the hosts that have a Link row
  (* the Node process *)
  up,                   \* has the process booted?
  creating,             \* SyncJobsService.creating
  runningJobId,         \* SyncJobsService.runningJobId
  queued,               \* jobs whose run() waits in the microtask queue
  reqPc,                \* Request -> the await of create() it is at
  reqChats,             \* Request -> the chats create() has looked up
  runPc,                \* Job -> the await of run() or runChat() it is at
  run,                  \* Job -> local variables of run() and runChat()
  entities,             \* chats the gateway can resolve (GramJsGateway.entities)
  (* Telegram *)
  posted,               \* Chat -> id of the newest message
  (* bounds and history *)
  faults, crashes,      \* how much of the two budgets is used
  scan,                 \* Job -> Chat -> <<lowest, highest>> id of the scan
  scanFloor,            \* Chat -> lowest id of the first scan that succeeded
  createdBy             \* Job -> how many Link rows its transactions created,
                        \* those whose answer was lost left out

jobVars   == <<status, stage, progress, error, mode, totals>>
chatVars  == <<chatStatus, chatCounters, maxProcessedMessageId>>
linkVars  == <<stored, links, createdBy>>
scanVars  == <<lastSyncedMessageId, scan, scanFloor>>
reqVars   == <<creating, queued, reqPc, reqChats>>
runVars   == <<runningJobId, runPc, run>>
vars == <<jobVars, chatVars, linkVars, scanVars, reqVars, runVars,
          isAvailable, up, entities, posted, faults, crashes>>

Lifecycle == INSTANCE JobLifecycle

Stage == {"NULL", "CONNECTING", "READING", "EXTRACTING", "DEDUPLICATING",
          "SAVING"}
ChatStatus == {"ABSENT", "PENDING", "RUNNING", "SUCCEEDED", "FAILED"}
Counters == [messageCount : Nat, foundCount : Nat, newCount : Nat,
             duplicateCount : Nat]
Zero == [messageCount |-> 0, foundCount |-> 0, newCount |-> 0,
         duplicateCount |-> 0]

Active   == Lifecycle!Active
Terminal == Lifecycle!Terminal

(* The awaits of a run that are inside the try block of runChat, and the   *)
(* others.                                                                 *)
ChatPc == {"scanning", "completing"}
JobPc  == {"connecting", "refreshing", "loading", "reading", "chats",
           "counting", "failingChat", "finishing"}
RunPc  == {"off", "opening", "failing", "ending"} \union ChatPc \union JobPc
ReqPc  == {"idle", "checking", "validating", "inserting"}

Locals == [lastSynced : [Chat -> 0..MaxMsg], todo : SUBSET Chat, total : Nat,
           chat : Chat \union {NoChat}, cursor : 0..MaxMsg,
           lowest : 1..MaxMsg+1, counters : Counters, maxMessageId : 0..MaxMsg]
Idle == [lastSynced |-> [c \in Chat |-> 0], todo |-> {}, total |-> 0,
         chat |-> NoChat, cursor |-> 0, lowest |-> 1, counters |-> Zero,
         maxMessageId |-> 0]

(* The rows of SyncJobChat that belong to a job. *)
ChatsOf(j) == {c \in Chat : chatStatus[j][c] # "ABSENT"}

TotalOf(j, field) ==
  SumFunctionOnSet([c \in Chat |-> chatCounters[j][c][field]], ChatsOf(j))

-----------------------------------------------------------------------------
(* A database or Telegram call fails.  The budget keeps the model finite.  *)
Fault == faults < MaxFaults /\ faults' = faults + 1

(* Mutant of Handler: an iterator that stops quietly when its connection   *)
(* drops.                                                                  *)
HandlerStopsQuietly(pc) ==
  IF pc = "scanning" THEN "completing"
  ELSE IF pc \in {"opening", "completing"} THEN "failingChat" ELSE "failing"

(* Where the exception of the call awaited at pc is caught: in runChat's   *)
(* catch (294) or in run's (216).                                          *)
Handler(pc) == IF pc \in ChatPc \union {"opening"} THEN "failingChat" ELSE "failing"

Goto(j, pc) == runPc' = [runPc EXCEPT ![j] = pc]

(* The statement awaited by run j took effect.  Its answer arrives and the *)
(* run goes on to pc, or the connection drops first and the run sees an    *)
(* exception instead.                                                      *)
Answered(j, pc) ==
  \/ Goto(j, pc) /\ UNCHANGED faults
  \/ LostReplies /\ Fault /\ Goto(j, Handler(runPc[j]))

-----------------------------------------------------------------------------
(* create(): one active job at a time, guarded by `creating` across the    *)
(* awaits, by the rows, and by `runningJobId`.                             *)

(* Mutant of CreateEnter: no `creating` flag is tested. *)
CreateEnterUnlocked(r) ==
  /\ up
  /\ reqPc[r] = "idle"
  /\ \E j \in Job : status[j] = "ABSENT"
  /\ creating' = TRUE
  /\ reqPc' = [reqPc EXCEPT ![r] = "checking"]
  /\ UNCHANGED <<jobVars, chatVars, linkVars, scanVars, runVars, queued, reqChats,
                 isAvailable, up, entities, posted, faults, crashes>>

(* Lines 98-104: an authorized request enters unless another create() is   *)
(* under way.  Bound: no more requests than there are rows left.           *)
CreateEnter(r) ==
  /\ up
  /\ reqPc[r] = "idle"
  /\ ~creating
  /\ \E j \in Job : status[j] = "ABSENT"
  /\ creating' = TRUE
  /\ reqPc' = [reqPc EXCEPT ![r] = "checking"]
  /\ UNCHANGED <<jobVars, chatVars, linkVars, scanVars, runVars, queued, reqChats,
                 isAvailable, up, entities, posted, faults, crashes>>

(* Mutant of Release: no finally. *)
ReleaseForgotten(r) ==
  /\ reqPc' = [reqPc EXCEPT ![r] = "idle"]
  /\ reqChats' = [reqChats EXCEPT ![r] = {}]
  /\ UNCHANGED creating

(* The finally block (144): whatever the outcome, the flag is released.    *)
Release(r) ==
  /\ creating' = FALSE
  /\ reqPc' = [reqPc EXCEPT ![r] = "idle"]
  /\ reqChats' = [reqChats EXCEPT ![r] = {}]

(* The request is refused: 409 while a job is active, 400 for a bad range, *)
(* bad defaults or missing chats; or its statement fails.                  *)
CreateRefuse(r) ==
  /\ \/ /\ reqPc[r] = "checking"
        /\ (\E j \in Job : status[j] \in Active) \/ runningJobId # NoJob
        /\ UNCHANGED faults
     \/ /\ reqPc[r] = "validating"
        /\ UNCHANGED faults
     \/ /\ reqPc[r] # "idle"
        /\ Fault
  /\ Release(r)
  /\ UNCHANGED <<jobVars, chatVars, linkVars, scanVars, runVars, queued,
                 isAvailable, up, entities, posted, crashes>>

(* Lines 104-111: findFirst has answered. *)
CreateCheck(r) ==
  /\ reqPc[r] = "checking"
  /\ \A j \in Job : status[j] \notin Active
  /\ runningJobId = NoJob
  /\ reqPc' = [reqPc EXCEPT ![r] = "validating"]
  /\ UNCHANGED <<jobVars, chatVars, linkVars, scanVars, runVars, creating, queued,
                 reqChats, isAvailable, up, entities, posted, faults, crashes>>

(* Lines 112-123: the range and the defaults are valid, and every chat the *)
(* request names is available.                                             *)
CreateLookUp(r) ==
  /\ reqPc[r] = "validating"
  /\ \E S \in SUBSET isAvailable \ {{}} :
       reqChats' = [reqChats EXCEPT ![r] = S]
  /\ reqPc' = [reqPc EXCEPT ![r] = "inserting"]
  /\ UNCHANGED <<jobVars, chatVars, linkVars, scanVars, runVars, creating, queued,
                 isAvailable, up, entities, posted, faults, crashes>>

(* Lines 125-145: the row and its chats are inserted and, unless the       *)
(* answer is lost, the run is queued as a microtask.                       *)
CreateInsert(r) ==
  /\ reqPc[r] = "inserting"
  /\ \E j \in Job, m \in Modes :
       /\ status[j] = "ABSENT"
       /\ status' = [status EXCEPT ![j] = "QUEUED"]
       /\ mode' = [mode EXCEPT ![j] = m]
       /\ chatStatus' = [chatStatus EXCEPT ![j] =
                           [c \in Chat |-> IF c \in reqChats[r] THEN "PENDING"
                                                                ELSE "ABSENT"]]
       /\ \/ queued' = queued \union {j} /\ UNCHANGED faults
          \/ LostReplies /\ Fault /\ UNCHANGED queued
  /\ Release(r)
  /\ UNCHANGED <<stage, progress, error, totals, chatCounters,
                 maxProcessedMessageId, linkVars, scanVars, runVars, isAvailable,
                 up, entities, posted, crashes>>

-----------------------------------------------------------------------------
(* run(): lines 178-230. *)

Local(j, l) == run' = [run EXCEPT ![j] = l]

(* Lines 179-181: the microtask starts. *)
RunStart(j) ==
  /\ j \in queued
  /\ queued' = queued \ {j}
  /\ runningJobId' = j
  /\ Goto(j, "connecting")
  /\ UNCHANGED <<jobVars, chatVars, linkVars, scanVars, run, creating, reqPc,
                 reqChats, isAvailable, up, entities, posted, faults, crashes>>

RunConnect(j) ==
  /\ runPc[j] = "connecting"
  /\ status' = [status EXCEPT ![j] = "RUNNING"]
  /\ progress' = [progress EXCEPT ![j] = 5]
  /\ stage' = [stage EXCEPT ![j] = "CONNECTING"]
  /\ Answered(j, "refreshing")
  /\ UNCHANGED <<error, mode, totals, chatVars, linkVars, scanVars, reqVars,
                 runningJobId, run, isAvailable, up, entities, posted, crashes>>

(* TelegramChatsService.refresh with GramJsGateway.getDialogs: the gateway *)
(* resolves exactly the chats of the account's dialogs, and those are the  *)
(* available ones, if the transaction that says so commits.                *)
Refresh(D, committed) ==
  /\ entities' = D
  /\ isAvailable' = IF committed THEN D ELSE isAvailable

RunRefresh(j) ==
  /\ runPc[j] = "refreshing"
  /\ \E D \in Dialogs :
       \/ Refresh(D, TRUE) /\ Answered(j, "loading")
       \/ Refresh(D, FALSE) /\ Fault /\ Goto(j, "failing")
  /\ UNCHANGED <<jobVars, chatVars, linkVars, scanVars, reqVars, runningJobId, run,
                 up, posted, crashes>>

(* Lines 191-195: the job is read with its chats and their watermarks. *)
RunLoad(j) ==
  /\ runPc[j] = "loading"
  /\ Local(j, [Idle EXCEPT !.lastSynced = lastSyncedMessageId,
                           !.todo = ChatsOf(j),
                           !.total = Cardinality(ChatsOf(j))])
  /\ Goto(j, "reading")
  /\ UNCHANGED <<jobVars, chatVars, linkVars, scanVars, reqVars, runningJobId,
                 isAvailable, up, entities, posted, faults, crashes>>

RunRead(j) ==
  /\ runPc[j] = "reading"
  /\ progress' = [progress EXCEPT ![j] = 10]
  /\ stage' = [stage EXCEPT ![j] = "READING"]
  /\ Answered(j, "chats")
  /\ UNCHANGED <<status, error, mode, totals, chatVars, linkVars, scanVars, reqVars,
                 runningJobId, run, isAvailable, up, entities, posted, crashes>>

(* Line 256: maxMessageId starts at the watermark read with the job.       *)
(* Mutant: it starts at nothing.                                           *)
BaselineZero(l, c) == 0
Baseline(l, c) == l.lastSynced[c]

(* Lines 200, 250-261: runChat marks the next chat; the rows come back in  *)
(* no particular order.                                                    *)
ChatBegin(j) ==
  /\ runPc[j] = "chats"
  /\ \E c \in run[j].todo :
       /\ chatStatus' = [chatStatus EXCEPT ![j][c] = "RUNNING"]
       /\ Local(j, [run[j] EXCEPT !.todo = @ \ {c}, !.chat = c,
                                  !.maxMessageId = Baseline(run[j], c),
                                  !.counters = Zero])
  /\ Answered(j, "opening")
  /\ UNCHANGED <<jobVars, chatCounters, maxProcessedMessageId, linkVars, scanVars,
                 reqVars, runningJobId, isAvailable, up, entities, posted, crashes>>

(* messageRange (503-524) over message ids, which grow with the date: the  *)
(* ids a scan opened now would visit.  The seven days and a custom range   *)
(* may begin at any id, and a custom range may end at any id.              *)
Ranges(m, last, newest) ==
  IF m = "ALL_HISTORY" THEN {<<1, newest>>}
  ELSE IF m = "CUSTOM" THEN {b \in (1..newest+1) \X (0..newest) : b[1] <= b[2] + 1}
  ELSE IF m = "SINCE_LAST" /\ last # 0 THEN {<<last + 1, newest>>}
  ELSE {<<lo, newest>> : lo \in 1..newest+1}

(* Lines 264-268 and gramjs.gateway.ts 189-199: the iterator starts at the *)
(* newest message of the range, or throws for a chat it cannot resolve.    *)
ChatOpen(j) ==
  /\ runPc[j] = "opening"
  /\ LET c == run[j].chat IN
       IF c \notin entities
       THEN Goto(j, "failingChat") /\ UNCHANGED <<run, scan>>
       ELSE \E b \in Ranges(mode[j], run[j].lastSynced[c], posted[c]) :
              /\ Local(j, [run[j] EXCEPT !.cursor = b[2], !.lowest = b[1]])
              /\ scan' = [scan EXCEPT ![j][c] = b]
              /\ Goto(j, "scanning")
  /\ UNCHANGED <<jobVars, chatVars, linkVars, lastSyncedMessageId, scanFloor,
                 reqVars, runningJobId, isAvailable, up, entities, posted, faults,
                 crashes>>

(* Lines 269-274: one message, newest first, goes through persistMessage,  *)
(* whose transaction stores the message, its sources and the links that    *)
(* did not exist.  A message with no URL is counted and stored nowhere.    *)
Max2(a, b) == IF a < b THEN b ELSE a

Counted(n, new, dup) == [messageCount   |-> n.messageCount + 1,
                         foundCount     |-> n.foundCount + new + dup,
                         newCount       |-> n.newCount + new,
                         duplicateCount |-> n.duplicateCount + dup]

(* Mutant of Received: the last message read wins, not the greatest. *)
ReceivedLast(l, new, dup) == [l EXCEPT !.cursor = l.cursor - 1,
                                       !.maxMessageId = l.cursor,
                                       !.counters = Counted(l.counters, new, dup)]

Received(l, new, dup) == [l EXCEPT !.cursor = l.cursor - 1,
                                   !.maxMessageId = Max2(l.maxMessageId, l.cursor),
                                   !.counters = Counted(l.counters, new, dup)]

ChatMessage(j) ==
  /\ runPc[j] = "scanning"
  /\ run[j].cursor >= run[j].lowest
  /\ LET c  == run[j].chat
         m  == run[j].cursor
         ds == DomainsOf[c][m]
         new == Cardinality(ds \ links)
     IN /\ stored' = IF ds = {} THEN stored ELSE stored \union {<<c, m>>}
        /\ links' = links \union ds
        /\ \/ /\ Local(j, Received(run[j], new, Cardinality(ds \cap links)))
              /\ createdBy' = [createdBy EXCEPT ![j] = @ + new]
              /\ UNCHANGED <<runPc, faults>>
           \/ /\ LostReplies /\ Fault /\ ds # {}
              /\ Local(j, Received(run[j], 0, 0))
              /\ Goto(j, "failingChat")
              /\ UNCHANGED createdBy
  /\ UNCHANGED <<jobVars, chatVars, scanVars, reqVars, runningJobId, isAvailable,
                 up, entities, posted, crashes>>

(* The transaction of persistMessage rolls back after the message was      *)
(* counted.                                                                *)
ChatMessageFails(j) ==
  /\ runPc[j] = "scanning"
  /\ run[j].cursor >= run[j].lowest
  /\ DomainsOf[run[j].chat][run[j].cursor] # {}
  /\ Fault
  /\ Local(j, Received(run[j], 0, 0))
  /\ Goto(j, "failingChat")
  /\ UNCHANGED <<jobVars, chatVars, linkVars, scanVars, reqVars, runningJobId,
                 isAvailable, up, entities, posted, crashes>>

(* The iterator is exhausted. *)
ChatExhausted(j) ==
  /\ runPc[j] = "scanning"
  /\ run[j].cursor < run[j].lowest
  /\ Goto(j, "completing")
  /\ UNCHANGED <<jobVars, chatVars, linkVars, scanVars, reqVars, runningJobId, run,
                 isAvailable, up, entities, posted, faults, crashes>>

(* Lines 276-293: the chat's verdict and the chat's watermark, in one      *)
(* transaction.  maxMessageId || undefined leaves the column alone at 0.   *)
ChatComplete(j) ==
  /\ runPc[j] = "completing"
  /\ LET c == run[j].chat
         w == run[j].maxMessageId
     IN /\ chatStatus' = [chatStatus EXCEPT ![j][c] = "SUCCEEDED"]
        /\ chatCounters' = [chatCounters EXCEPT ![j][c] = run[j].counters]
        /\ maxProcessedMessageId' = [maxProcessedMessageId EXCEPT ![j][c] = w]
        /\ lastSyncedMessageId' =
             IF w = 0 THEN lastSyncedMessageId
                      ELSE [lastSyncedMessageId EXCEPT ![c] = w]
        /\ scanFloor' = IF w = 0 \/ scanFloor[c] # 0 THEN scanFloor
                        ELSE [scanFloor EXCEPT ![c] = run[j].lowest]
  /\ Answered(j, "counting")
  /\ UNCHANGED <<jobVars, linkVars, scan, reqVars, runningJobId, run, isAvailable,
                 up, entities, posted, crashes>>

(* Mutant of ChatFail: the counters are left out. *)
ChatFailUncounted(j) ==
  /\ runPc[j] = "failingChat"
  /\ chatStatus' = [chatStatus EXCEPT ![j][run[j].chat] = "FAILED"]
  /\ Answered(j, "counting")
  /\ UNCHANGED <<jobVars, chatCounters, maxProcessedMessageId, linkVars, scanVars,
                 reqVars, runningJobId, run, isAvailable, up, entities, posted, crashes>>

(* Mutant of ChatFail: the watermark of a failed chat advances. *)
ChatFailAdvances(j) ==
  /\ runPc[j] = "failingChat"
  /\ chatStatus' = [chatStatus EXCEPT ![j][run[j].chat] = "FAILED"]
  /\ chatCounters' = [chatCounters EXCEPT ![j][run[j].chat] = run[j].counters]
  /\ lastSyncedMessageId' =
       [lastSyncedMessageId EXCEPT ![run[j].chat] = run[j].maxMessageId]
  /\ Answered(j, "counting")
  /\ UNCHANGED <<jobVars, maxProcessedMessageId, linkVars, scan, scanFloor, reqVars,
                 runningJobId, run, isAvailable, up, entities, posted, crashes>>

(* Lines 294-307: the chat failed; the watermark stays where it was. *)
ChatFail(j) ==
  /\ runPc[j] = "failingChat"
  /\ chatStatus' = [chatStatus EXCEPT ![j][run[j].chat] = "FAILED"]
  /\ chatCounters' = [chatCounters EXCEPT ![j][run[j].chat] = run[j].counters]
  /\ Answered(j, "counting")
  /\ UNCHANGED <<jobVars, maxProcessedMessageId, linkVars, scanVars, reqVars,
                 runningJobId, run, isAvailable, up, entities, posted, crashes>>

(* Mutants of Share: completed is incremented once too often; the share    *)
(* fills all that is left of the bar; the share is that of the rest.       *)
ShareTooSoon(completed, total) == (160 * (completed + 1) + total) \div (2 * total)
ShareOf90(completed, total) == (180 * completed + total) \div (2 * total)
ShareOfRest(completed, total) == (160 * (total - completed) + total) \div (2 * total)

(* Line 205: Math.round((completed / total) * 80). *)
Share(completed, total) == (160 * completed + total) \div (2 * total)

RunCount(j) ==
  /\ runPc[j] = "counting"
  /\ LET completed == run[j].total - Cardinality(run[j].todo)
     IN progress' = [progress EXCEPT ![j] = 10 + Share(completed, run[j].total)]
  /\ stage' = [stage EXCEPT ![j] = "EXTRACTING"]
  /\ Answered(j, "chats")
  /\ UNCHANGED <<status, error, mode, totals, chatVars, linkVars, scanVars, reqVars,
                 runningJobId, run, isAvailable, up, entities, posted, crashes>>

RunDeduplicate(j) ==
  /\ runPc[j] = "chats"
  /\ run[j].todo = {}
  /\ progress' = [progress EXCEPT ![j] = 95]
  /\ stage' = [stage EXCEPT ![j] = "DEDUPLICATING"]
  /\ Answered(j, "finishing")
  /\ UNCHANGED <<status, error, mode, totals, chatVars, linkVars, scanVars, reqVars,
                 runningJobId, run, isAvailable, up, entities, posted, crashes>>

(* finish(): lines 472-501.  Nobody else writes the rows between its read  *)
(* and its update.                                                         *)
VerdictIfAny(j) ==      \* mutant of VerdictOf: one successful chat is enough
  IF \E c \in ChatsOf(j) : chatStatus[j][c] = "SUCCEEDED" THEN "SUCCEEDED" ELSE "FAILED"

VerdictOf(j) ==
  LET succeeded == {c \in ChatsOf(j) : chatStatus[j][c] = "SUCCEEDED"}
  IN IF succeeded = ChatsOf(j) THEN "SUCCEEDED"
     ELSE IF succeeded = {} THEN "FAILED"
     ELSE "PARTIALLY_SUCCEEDED"

RunFinish(j) ==
  /\ runPc[j] = "finishing"
  /\ status' = [status EXCEPT ![j] = VerdictOf(j)]
  /\ progress' = [progress EXCEPT ![j] = 100]
  /\ stage' = [stage EXCEPT ![j] = "SAVING"]
  /\ totals' = [totals EXCEPT ![j] =
       [messageCount   |-> TotalOf(j, "messageCount"),
        foundCount     |-> TotalOf(j, "foundCount"),
        newCount       |-> TotalOf(j, "newCount"),
        duplicateCount |-> TotalOf(j, "duplicateCount")]]
  /\ Answered(j, "ending")
  /\ UNCHANGED <<error, mode, chatVars, linkVars, scanVars, reqVars, runningJobId,
                 run, isAvailable, up, entities, posted, crashes>>

(* Mutant of RunFail: the exception is only logged. *)
RunFailLogs(j) ==
  /\ runPc[j] = "failing"
  /\ Goto(j, "ending")
  /\ UNCHANGED <<jobVars, chatVars, linkVars, scanVars, reqVars, runningJobId, run,
                 isAvailable, up, entities, posted, faults, crashes>>

(* run's catch: lines 216-226. *)
RunFail(j) ==
  /\ runPc[j] = "failing"
  /\ status' = [status EXCEPT ![j] = "FAILED"]
  /\ progress' = [progress EXCEPT ![j] = 100]
  /\ error' = [error EXCEPT ![j] = TRUE]
  /\ Goto(j, "ending")
  /\ UNCHANGED <<stage, mode, totals, chatVars, linkVars, scanVars, reqVars,
                 runningJobId, run, isAvailable, up, entities, posted, faults, crashes>>

(* run's finally: line 228. *)
RunEnd(j) ==
  /\ runPc[j] = "ending"
  /\ runningJobId' = NoJob
  /\ Goto(j, "off")
  /\ Local(j, Idle)
  /\ UNCHANGED <<jobVars, chatVars, linkVars, scanVars, reqVars, isAvailable, up,
                 entities, posted, faults, crashes>>

(* The call a run awaits fails with no effect on the database: a rolled    *)
(* back statement, a flood wait, a dropped Telegram connection.            *)
RunCallFails(j) ==
  /\ runPc[j] \in ChatPc \union JobPc
  /\ Fault
  /\ Goto(j, Handler(runPc[j]))
  /\ UNCHANGED <<jobVars, chatVars, linkVars, scanVars, reqVars, runningJobId, run,
                 isAvailable, up, entities, posted, crashes>>

(* The body of the run, whatever its outcome; a run with a chat to go      *)
(* always has one of these steps to take.                                  *)
RunStep(j) ==
  \/ RunStart(j) \/ RunConnect(j) \/ RunRefresh(j) \/ RunLoad(j) \/ RunRead(j)
  \/ ChatBegin(j) \/ ChatOpen(j) \/ ChatMessage(j) \/ ChatExhausted(j)
  \/ ChatComplete(j) \/ ChatFail(j) \/ RunCount(j) \/ RunDeduplicate(j)
  \/ RunFinish(j) \/ RunFail(j) \/ RunEnd(j)

-----------------------------------------------------------------------------
(* The process goes down, with everything it held in memory. *)
Down ==
  /\ up' = FALSE
  /\ creating' = FALSE
  /\ runningJobId' = NoJob
  /\ queued' = {}
  /\ reqPc' = [r \in Request |-> "idle"]
  /\ reqChats' = [r \in Request |-> {}]
  /\ runPc' = [j \in Job |-> "off"]
  /\ run' = [j \in Job |-> Idle]
  /\ entities' = {}
  /\ UNCHANGED <<jobVars, chatVars, linkVars, scanVars, isAvailable, posted>>

Crash == up /\ crashes < MaxCrashes /\ crashes' = crashes + 1 /\ Down /\ UNCHANGED faults

(* Line 218 fails inside the catch block: run() rejects, `void this.run()` *)
(* leaves the rejection unhandled and Node ends the process, which counts  *)
(* as a crash.                                                             *)
RunFailFails(j) == runPc[j] = "failing" /\ Crash

(* Line 93: the rows a restart interrupts.  Mutants: only those that had   *)
(* started; all that had not succeeded.                                    *)
LeftOverRunning(j) == status[j] = "RUNNING"
LeftOverUnsuccessful(j) == status[j] \notin {"ABSENT", "SUCCEEDED"}
LeftOver(j) == status[j] \in Active

(* onModuleInit (86-95), before the server listens; if it fails the        *)
(* process exits again.                                                    *)
Boot ==
  /\ ~up
  /\ up' = TRUE
  /\ status' = [j \in Job |-> IF LeftOver(j) THEN "INTERRUPTED" ELSE status[j]]
  /\ error' = [j \in Job |-> error[j] \/ LeftOver(j)]
  /\ UNCHANGED <<stage, progress, mode, totals, chatVars, linkVars, scanVars, reqVars,
                 runVars, isAvailable, entities, posted, faults, crashes>>

(* POST /telegram/chats/refresh by an administrator, at any time. *)
AdminRefresh ==
  /\ up
  /\ \E D \in Dialogs, committed \in BOOLEAN : Refresh(D, committed)
  /\ UNCHANGED <<jobVars, chatVars, linkVars, scanVars, reqVars, runVars, up, posted,
                 faults, crashes>>

(* A logout or a new login replaces the client: GramJsGateway.disconnect   *)
(* clears the entities.  The iterator of a scan under way fails on its own *)
(* (RunCallFails).                                                         *)
Disconnect ==
  /\ up
  /\ Fault
  /\ entities' = {}
  /\ UNCHANGED <<jobVars, chatVars, linkVars, scanVars, reqVars, runVars, isAvailable,
                 up, posted, crashes>>

(* Somebody posts a message. *)
Post(c) ==
  /\ posted[c] < MaxMsg
  /\ posted' = [posted EXCEPT ![c] = @ + 1]
  /\ UNCHANGED <<jobVars, chatVars, linkVars, scanVars, reqVars, runVars, isAvailable,
                 up, entities, faults, crashes>>

-----------------------------------------------------------------------------
Init ==
  /\ status = [j \in Job |-> "ABSENT"]
  /\ stage = [j \in Job |-> "NULL"]
  /\ progress = [j \in Job |-> 0]
  /\ error = [j \in Job |-> FALSE]
  /\ mode = [j \in Job |-> "SINCE_LAST"]
  /\ totals = [j \in Job |-> Zero]
  /\ chatStatus = [j \in Job |-> [c \in Chat |-> "ABSENT"]]
  /\ chatCounters = [j \in Job |-> [c \in Chat |-> Zero]]
  /\ maxProcessedMessageId = [j \in Job |-> [c \in Chat |-> 0]]
  /\ lastSyncedMessageId = [c \in Chat |-> 0]
  /\ isAvailable \in Dialogs
  /\ stored = {}
  /\ links = {}
  /\ up = FALSE
  /\ creating = FALSE
  /\ runningJobId = NoJob
  /\ queued = {}
  /\ reqPc = [r \in Request |-> "idle"]
  /\ reqChats = [r \in Request |-> {}]
  /\ runPc = [j \in Job |-> "off"]
  /\ run = [j \in Job |-> Idle]
  /\ entities = {}
  /\ posted \in [Chat -> 0..MaxMsg]
  /\ faults = 0
  /\ crashes = 0
  /\ scan = [j \in Job |-> [c \in Chat |-> <<1, 0>>]]
  /\ scanFloor = [c \in Chat |-> 0]
  /\ createdBy = [j \in Job |-> 0]

Next ==
  \/ \E r \in Request : CreateEnter(r) \/ CreateRefuse(r) \/ CreateCheck(r)
                        \/ CreateLookUp(r) \/ CreateInsert(r)
  \/ \E j \in Job : RunStep(j) \/ RunCallFails(j) \/ ChatMessageFails(j)
                    \/ RunFailFails(j)
  \/ Crash \/ Boot \/ AdminRefresh \/ Disconnect
  \/ \E c \in Chat : Post(c)

(* Node schedules every callback whose call has answered, and every        *)
(* database or Telegram call answers or fails.  Requests, failures,        *)
(* crashes and restarts are under no obligation.                           *)
Fairness ==
  /\ \A j \in Job : WF_vars(RunStep(j))
  /\ \A r \in Request :
       WF_vars(CreateRefuse(r) \/ CreateCheck(r) \/ CreateLookUp(r) \/ CreateInsert(r))

Spec == Init /\ [][Next]_vars
FairSpec == Spec /\ Fairness

-----------------------------------------------------------------------------
JobTypeOK ==
  /\ status \in [Job -> Lifecycle!Status]
  /\ stage \in [Job -> Stage]
  /\ progress \in [Job -> 0..100]
  /\ error \in [Job -> BOOLEAN]
  /\ mode \in [Job -> RangeMode]
  /\ totals \in [Job -> Counters]

ChatTypeOK ==
  /\ chatStatus \in [Job -> [Chat -> ChatStatus]]
  /\ chatCounters \in [Job -> [Chat -> Counters]]
  /\ maxProcessedMessageId \in [Job -> [Chat -> 0..MaxMsg]]

LinkTypeOK ==
  /\ stored \subseteq Chat \X (1..MaxMsg)
  /\ links \subseteq Domain
  /\ createdBy \in [Job -> Nat]

ScanTypeOK ==
  /\ lastSyncedMessageId \in [Chat -> 0..MaxMsg]
  /\ scan \in [Job -> [Chat -> (1..MaxMsg+1) \X (0..MaxMsg)]]
  /\ scanFloor \in [Chat -> 0..MaxMsg+1]

RequestTypeOK ==
  /\ creating \in BOOLEAN
  /\ queued \subseteq Job
  /\ reqPc \in [Request -> ReqPc]
  /\ reqChats \in [Request -> SUBSET Chat]

RunTypeOK ==
  /\ runningJobId \in Job \union {NoJob}
  /\ runPc \in [Job -> RunPc]
  /\ run \in [Job -> Locals]

WorldTypeOK ==
  /\ isAvailable \subseteq Chat
  /\ up \in BOOLEAN
  /\ entities \subseteq Chat
  /\ posted \in [Chat -> 0..MaxMsg]
  /\ faults \in 0..MaxFaults
  /\ crashes \in 0..MaxCrashes

(* The type of every variable, the sums in totals included. *)
TypeOK ==
  /\ JobTypeOK /\ ChatTypeOK /\ LinkTypeOK /\ ScanTypeOK
  /\ RequestTypeOK /\ RunTypeOK /\ WorldTypeOK

(* "Only one task runs at a time" (apps/server/README.md), through every   *)
(* interleaving of create()'s awaits, the run and restarts: at most one    *)
(* row is active, at most one run is executing, and while a run is         *)
(* executing, up to its last finally, no other job is active.  Two runs at *)
(* once would share the client and move the same watermarks.               *)
OneJobAtATime ==
  /\ \A j, k \in Job : status[j] \in Active /\ status[k] \in Active => j = k
  /\ \A j, k \in Job : runPc[j] # "off" /\ runPc[k] # "off" => j = k
  /\ \A j, k \in Job : runPc[j] # "off" /\ status[k] \in Active => j = k

(* No active job is abandoned: while the server is up, an active row has   *)
(* its run queued or executing in this very process.  An abandoned row     *)
(* would refuse every later create() with 409 until the next restart.      *)
NoAbandonedJob ==
  up => \A j \in Job : status[j] \in Active => j \in queued \/ runPc[j] # "off"

(* What a successful chat claims is true: every message with a URL that    *)
(* was in the range when the scan opened is stored, although the scan runs *)
(* newest first, faults cut it short and messages arrive meanwhile.        *)
SucceededChatIsScanned ==
  \A j \in Job, c \in Chat : chatStatus[j][c] = "SUCCEEDED" =>
    \A m \in scan[j][c][1]..scan[j][c][2] :
      DomainsOf[c][m] # {} => <<c, m>> \in stored

(* Every job so far has asked for SINCE_LAST. *)
OnlyIncremental == \A j \in Job : mode[j] = "SINCE_LAST"

(* Incremental synchronisation misses nothing: as long as every job asks   *)
(* for SINCE_LAST, every message with a URL between the first successful   *)
(* scan's lowest id and the watermark is stored, whatever failed, crashed, *)
(* lost its answer or arrived during the scans in between.                 *)
NoGapBelowWatermark ==
  OnlyIncremental =>
    \A c \in Chat : scanFloor[c] # 0 =>
      \A m \in scanFloor[c]..lastSyncedMessageId[c] :
        DomainsOf[c][m] # {} => <<c, m>> \in stored

(* The watermark of a chat is the greatest maxProcessedMessageId that any  *)
(* job has recorded for it: the two tables never disagree on how far the   *)
(* chat has been read.                                                     *)
WatermarkIsGreatestProcessed ==
  \A c \in Chat :
    lastSyncedMessageId[c] = Max({maxProcessedMessageId[j][c] : j \in Job} \union {0})

(* A job that reached its own verdict reports it truthfully: SUCCEEDED     *)
(* when every chat did, PARTIALLY_SUCCEEDED when some did and none is      *)
(* left, FAILED without an error when none did.                            *)
VerdictMatchesChats ==
  \A j \in Job :
    LET in(S) == {c \in ChatsOf(j) : chatStatus[j][c] \in S}
    IN /\ status[j] = "SUCCEEDED" => in({"SUCCEEDED"}) = ChatsOf(j)
       /\ status[j] = "PARTIALLY_SUCCEEDED" =>
            in({"SUCCEEDED"}) # {} /\ in({"FAILED"}) # {}
            /\ in({"PENDING", "RUNNING"}) = {}
       /\ status[j] = "FAILED" /\ ~error[j] => in({"FAILED"}) = ChatsOf(j)

(* The counters of a job that reached its own verdict add up and are true: *)
(* found = new + duplicate, and newCount is the number of Link rows that   *)
(* its transactions created and told it of, in failed chats too.           *)
CountersAreTrue ==
  \A j \in Job : status[j] \in Lifecycle!Verdict /\ ~error[j] =>
    /\ totals[j].foundCount = totals[j].newCount + totals[j].duplicateCount
    /\ totals[j].newCount = createdBy[j]

(* Progress tells whether the run ended by itself: 100 exactly for a job   *)
(* with a verdict, less for one that is active or was interrupted.         *)
ProgressIsHonest ==
  \A j \in Job : (progress[j] = 100) <=> (status[j] \in Lifecycle!Verdict)

(* The watermark of a chat never moves back, so a later SINCE_LAST job     *)
(* never rereads what an earlier one had passed.                           *)
WatermarkMonotone ==
  [][\A c \in Chat : lastSyncedMessageId'[c] >= lastSyncedMessageId[c]]_vars

(* The progress bar of a job never moves back. *)
ProgressMonotone == [][\A j \in Job : progress'[j] >= progress[j]]_vars

(* The rows go through the lifecycle that the API promises. *)
RefinesLifecycle == Lifecycle!Spec

(* Every job ends, unless the process goes down under it. *)
JobEnds == \A j \in Job : (status[j] \in Active) ~> (status[j] \in Terminal \/ ~up)

(* The `creating` flag is never left set. *)
CreatingIsReleased == creating ~> ~creating
=============================================================================
