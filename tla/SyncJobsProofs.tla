--------------------------- MODULE SyncJobsProofs ---------------------------
(***************************************************************************)
(* Theorems about SyncJobs, for every value of its constants: who may run  *)
(* and the type invariant, what the scans cover, what the rows say of a    *)
(* job and its end, and what its counters count.                           *)
(***************************************************************************)
EXTENDS SyncJobs, Inductions

(* What decides who may run: the part of the state the argument is about.  *)
controlVars == <<status, creating, runningJobId, queued, reqPc, runPc, up>>

ControlTypeOK ==
  /\ status \in [Job -> Lifecycle!Status]
  /\ creating \in BOOLEAN
  /\ runningJobId \in Job \union {NoJob}
  /\ queued \subseteq Job
  /\ reqPc \in [Request -> ReqPc]
  /\ runPc \in [Job -> RunPc]
  /\ up \in BOOLEAN

OneActive == \A j, k \in Job : status[j] \in Active /\ status[k] \in Active => j = k

(* `creating` is a lock that one request holds across its awaits. *)
CreatingIsALock ==
  /\ \A r \in Request : reqPc[r] # "idle" => creating
  /\ \A r, s \in Request : reqPc[r] # "idle" /\ reqPc[s] # "idle" => r = s

(* Nothing runs, waits or is active once a request has passed its check:   *)
(* only the request that holds the lock could change that.                 *)
CheckedIsClear ==
  \A r \in Request : reqPc[r] \in {"validating", "inserting"} =>
    /\ \A j \in Job : status[j] \notin Active /\ runPc[j] = "off"
    /\ runningJobId = NoJob
    /\ queued = {}

(* `runningJobId` names the run from its first line to its finally. *)
RunnerIsNamed == \A j \in Job : runPc[j] # "off" => runningJobId = j

QueuedIsAlone ==
  \A j \in queued : status[j] = "QUEUED" /\ \A k \in Job : runPc[k] = "off"

RunnerIsAlone ==
  \A j, k \in Job : runPc[j] # "off" /\ status[k] \in Active => j = k

DownIsEmpty == ~up => queued = {} /\ \A r \in Request : reqPc[r] = "idle"

(* The inductive invariant behind OneJobAtATime. *)
ControlInv ==
  /\ ControlTypeOK
  /\ OneActive
  /\ CreatingIsALock
  /\ CheckedIsClear
  /\ RunnerIsNamed
  /\ QueuedIsAlone
  /\ RunnerIsAlone
  /\ DownIsEmpty

(* What a step of an executing run may do to the control state. *)
RunMove(j) ==
  /\ runPc[j] # "off"
  /\ \E pc \in RunPc : runPc' = [runPc EXCEPT ![j] = pc]
  /\ \/ UNCHANGED status
     \/ \E s \in {"RUNNING"} \union Terminal : status' = [status EXCEPT ![j] = s]
  /\ UNCHANGED <<creating, queued, reqPc, up>>
  /\ \/ UNCHANGED runningJobId /\ runPc'[j] # "off"
     \/ runningJobId' = NoJob /\ runPc'[j] = "off"

-----------------------------------------------------------------------------
(* Every step of run() and runChat() after the first is a RunMove, also    *)
(* when its answer is lost.                                                *)
LEMMA RunStepMoves ==
  ASSUME NEW j \in Job, ControlTypeOK,
         \/ RunStep(j) /\ ~RunStart(j)
         \/ RunCallFails(j)
         \/ ChatMessageFails(j)
  PROVE  RunMove(j) \/ UNCHANGED controlVars
<1> USE DEF RunMove, Goto, Answered, RunPc, JobPc, ChatPc, ControlTypeOK, controlVars,
            reqVars, runVars, jobVars
<1>1. CASE RunConnect(j)
  BY <1>1 DEF RunConnect, Handler
<1>2. CASE RunRefresh(j)
  BY <1>2 DEF RunRefresh, Handler
<1>3. CASE RunLoad(j)
  BY <1>3 DEF RunLoad
<1>4. CASE RunRead(j)
  BY <1>4 DEF RunRead, Handler
<1>5. CASE ChatBegin(j)
  BY <1>5 DEF ChatBegin, Handler
<1>6. CASE ChatOpen(j)
  BY <1>6 DEF ChatOpen
<1>7. CASE ChatMessage(j)
  BY <1>7 DEF ChatMessage
<1>8. CASE ChatExhausted(j)
  BY <1>8 DEF ChatExhausted
<1>9. CASE ChatComplete(j)
  BY <1>9 DEF ChatComplete, Handler
<1>10. CASE ChatFail(j)
  BY <1>10 DEF ChatFail, Handler
<1>11. CASE RunCount(j)
  BY <1>11 DEF RunCount, Handler
<1>12. CASE RunDeduplicate(j)
  BY <1>12 DEF RunDeduplicate, Handler
<1>13. CASE RunFinish(j)
  <2>1. VerdictOf(j) \in Terminal
    BY DEF VerdictOf, Terminal, Lifecycle!Terminal, Lifecycle!Verdict
  <2>2. QED
    BY <1>13, <2>1 DEF RunFinish, Handler
<1>14. CASE RunFail(j)
  <2>1. "FAILED" \in Terminal
    BY DEF Terminal, Lifecycle!Terminal, Lifecycle!Verdict
  <2>2. QED
    BY <1>14, <2>1 DEF RunFail
<1>15. CASE RunEnd(j)
  BY <1>15 DEF RunEnd
<1>16. CASE RunCallFails(j)
  BY <1>16 DEF RunCallFails, Handler
<1>17. CASE ChatMessageFails(j)
  BY <1>17 DEF ChatMessageFails
<1>18. QED
  BY <1>1, <1>2, <1>3, <1>4, <1>5, <1>6, <1>7, <1>8, <1>9, <1>10, <1>11, <1>12,
     <1>13, <1>14, <1>15, <1>16, <1>17 DEF RunStep

(* A run that moves keeps the exclusions: it was alone, and stays so until *)
(* it gives up its name in the same step as its place.                     *)
LEMMA RunMoveKeepsControl ==
  ASSUME NEW j \in Job, ControlInv, RunMove(j)
  PROVE  ControlInv'
<1> USE DEF ControlInv, RunMove
<1>1. /\ ~(status[j] = "QUEUED" /\ j \in queued)
      /\ queued = {}
      /\ \A k \in Job : k # j => status[k] \notin Active /\ runPc[k] = "off"
      /\ \A r \in Request : reqPc[r] \notin {"validating", "inserting"}
  BY DEF RunnerIsAlone, QueuedIsAlone, CheckedIsClear, RunnerIsNamed, ControlTypeOK
<1>2. ControlTypeOK'
  BY DEF ControlTypeOK, Lifecycle!Status, Lifecycle!Active, Terminal
<1>3. \A k \in Job : k # j => status'[k] = status[k] /\ runPc'[k] = runPc[k]
  BY DEF ControlTypeOK
<1>4. OneActive'
  BY <1>1, <1>3 DEF OneActive
<1>5. CreatingIsALock'
  BY DEF CreatingIsALock
<1>6. CheckedIsClear'
  BY <1>1 DEF CheckedIsClear
<1>7. RunnerIsNamed'
  BY <1>1, <1>3 DEF RunnerIsNamed
<1>8. QueuedIsAlone'
  BY <1>1 DEF QueuedIsAlone
<1>9. RunnerIsAlone'
  BY <1>1, <1>3 DEF RunnerIsAlone
<1>10. DownIsEmpty'
  BY DEF DownIsEmpty
<1>11. QED
  BY <1>2, <1>4, <1>5, <1>6, <1>7, <1>8, <1>9, <1>10

(* The microtask of a queued job starts a run while none is executing.     *)
LEMMA RunStartKeepsControl ==
  ASSUME NEW j \in Job, ControlInv, RunStart(j)
  PROVE  ControlInv'
<1> USE DEF ControlInv, RunStart, Goto
<1>1. /\ status[j] = "QUEUED"
      /\ \A k \in Job : runPc[k] = "off"
      /\ \A k \in Job : k # j => status[k] \notin Active
      /\ \A r \in Request : reqPc[r] \notin {"validating", "inserting"}
  BY DEF QueuedIsAlone, OneActive, CheckedIsClear, Active, Lifecycle!Active
<1>2. \A k \in queued : k = j
  BY <1>1 DEF QueuedIsAlone, OneActive, Active, Lifecycle!Active, ControlTypeOK
<1>3. ControlTypeOK' /\ queued' = {}
  BY <1>2 DEF ControlTypeOK, RunPc, JobPc, jobVars, reqVars
<1>4. OneActive' /\ CreatingIsALock' /\ DownIsEmpty'
  BY <1>3 DEF OneActive, CreatingIsALock, DownIsEmpty, jobVars
<1>5. CheckedIsClear' /\ QueuedIsAlone'
  BY <1>1, <1>3 DEF CheckedIsClear, QueuedIsAlone
<1>6. RunnerIsNamed' /\ RunnerIsAlone'
  BY <1>1 DEF RunnerIsNamed, RunnerIsAlone, ControlTypeOK, jobVars
<1>7. QED
  BY <1>3, <1>4, <1>5, <1>6

(* The steps of create(). *)
LEMMA CreateKeepsControl ==
  ASSUME NEW r \in Request, ControlInv,
         \/ CreateEnter(r) \/ CreateRefuse(r) \/ CreateCheck(r)
         \/ CreateLookUp(r) \/ CreateInsert(r)
  PROVE  ControlInv'
<1> USE DEF ControlInv, jobVars, runVars, ReqPc
<1>1. CASE CreateEnter(r)
  <2>1. ControlTypeOK' /\ OneActive' /\ RunnerIsNamed' /\ QueuedIsAlone' /\ RunnerIsAlone'
    BY <1>1 DEF CreateEnter, ControlTypeOK, OneActive, RunnerIsNamed, QueuedIsAlone,
                RunnerIsAlone
  <2>2. CreatingIsALock' /\ CheckedIsClear' /\ DownIsEmpty'
    BY <1>1 DEF CreateEnter, ControlTypeOK, CreatingIsALock, CheckedIsClear, DownIsEmpty
  <2>3. QED
    BY <2>1, <2>2
<1>2. CASE CreateRefuse(r)
  <2>1. ControlTypeOK' /\ OneActive' /\ RunnerIsNamed' /\ QueuedIsAlone' /\ RunnerIsAlone'
    BY <1>2 DEF CreateRefuse, Release, ControlTypeOK, OneActive, RunnerIsNamed,
                QueuedIsAlone, RunnerIsAlone
  <2>2. CreatingIsALock' /\ CheckedIsClear' /\ DownIsEmpty'
    BY <1>2 DEF CreateRefuse, Release, ControlTypeOK, CreatingIsALock, CheckedIsClear,
                DownIsEmpty
  <2>3. QED
    BY <2>1, <2>2
<1>3. CASE CreateCheck(r)
  <2>1. ControlTypeOK' /\ OneActive' /\ RunnerIsNamed' /\ QueuedIsAlone' /\ RunnerIsAlone'
    BY <1>3 DEF CreateCheck, ControlTypeOK, OneActive, RunnerIsNamed, QueuedIsAlone,
                RunnerIsAlone
  <2>2. /\ \A j \in Job : status[j] \notin Active /\ runPc[j] = "off"
        /\ runningJobId = NoJob
        /\ queued = {}
    BY <1>3, ConstantsAssumption DEF CreateCheck, RunnerIsNamed, QueuedIsAlone,
       Active, Lifecycle!Active, ControlTypeOK
  <2>3. CreatingIsALock' /\ CheckedIsClear' /\ DownIsEmpty'
    BY <1>3, <2>2 DEF CreateCheck, ControlTypeOK, CreatingIsALock, CheckedIsClear,
                      DownIsEmpty
  <2>4. QED
    BY <2>1, <2>3
<1>4. CASE CreateLookUp(r)
  <2>1. ControlTypeOK' /\ OneActive' /\ RunnerIsNamed' /\ QueuedIsAlone' /\ RunnerIsAlone'
    BY <1>4 DEF CreateLookUp, ControlTypeOK, OneActive, RunnerIsNamed, QueuedIsAlone,
                RunnerIsAlone
  <2>2. CreatingIsALock' /\ CheckedIsClear' /\ DownIsEmpty'
    BY <1>4 DEF CreateLookUp, ControlTypeOK, CreatingIsALock, CheckedIsClear, DownIsEmpty
  <2>3. QED
    BY <2>1, <2>2
<1>5. CASE CreateInsert(r)
  <2>1. PICK j \in Job : /\ status[j] = "ABSENT"
                         /\ status' = [status EXCEPT ![j] = "QUEUED"]
                         /\ queued' \in {queued, queued \union {j}}
    BY <1>5 DEF CreateInsert
  <2>2. /\ \A k \in Job : status[k] \notin Active /\ runPc[k] = "off"
        /\ runningJobId = NoJob
        /\ queued = {}
    BY <1>5 DEF CreateInsert, CheckedIsClear
  <2>3. \A s \in Request : s # r => reqPc[s] = "idle"
    BY <1>5 DEF CreateInsert, CreatingIsALock
  <2>4. /\ reqPc' = [reqPc EXCEPT ![r] = "idle"]
        /\ creating' = FALSE
        /\ UNCHANGED <<runningJobId, runPc, up>>
    BY <1>5 DEF CreateInsert, Release
  <2>5. \A s \in Request : reqPc'[s] = "idle"
    BY <2>3, <2>4 DEF ControlTypeOK
  <2>6. ControlTypeOK'
    BY <2>1, <2>4 DEF ControlTypeOK, Lifecycle!Status, Lifecycle!Active
  <2>7. \A k \in Job : status'[k] \in Active => k = j
    BY <2>1, <2>2 DEF ControlTypeOK
  <2>8. OneActive' /\ RunnerIsNamed' /\ RunnerIsAlone'
    BY <2>2, <2>4, <2>7 DEF OneActive, RunnerIsNamed, RunnerIsAlone
  <2>9. QueuedIsAlone'
    BY <2>1, <2>2, <2>4 DEF QueuedIsAlone, ControlTypeOK
  <2>10. CreatingIsALock' /\ CheckedIsClear'
    BY <2>5 DEF CreatingIsALock, CheckedIsClear
  <2>11. up
    BY <1>5 DEF CreateInsert, DownIsEmpty
  <2>12. DownIsEmpty'
    BY <2>4, <2>11 DEF DownIsEmpty
  <2>13. QED
    BY <2>6, <2>8, <2>9, <2>10, <2>12
<1>6. QED
  BY <1>1, <1>2, <1>3, <1>4, <1>5

(* A crash forgets every holder; a restart leaves no job active. *)
LEMMA RestartKeepsControl ==
  ASSUME ControlInv,
         \/ Crash \/ Boot
         \/ \E j \in Job : RunFailFails(j)
  PROVE  ControlInv'
<1> USE DEF ControlInv
<1>1. CASE Down
  <2> USE <1>1 DEF Down, jobVars
  <2>1. ControlTypeOK'
    BY DEF ControlTypeOK, ReqPc, RunPc
  <2>2. OneActive' /\ CreatingIsALock' /\ CheckedIsClear' /\ DownIsEmpty'
    BY DEF OneActive, CreatingIsALock, CheckedIsClear, DownIsEmpty
  <2>3. RunnerIsNamed' /\ QueuedIsAlone' /\ RunnerIsAlone'
    BY DEF RunnerIsNamed, QueuedIsAlone, RunnerIsAlone
  <2>4. QED
    BY <2>1, <2>2, <2>3
<1>2. CASE Boot
  <2> USE <1>2 DEF Boot, LeftOver, reqVars, runVars
  <2>1. \A j \in Job : status'[j] \notin Active /\ status'[j] \in Lifecycle!Status
    BY DEF ControlTypeOK, Lifecycle!Status, Active, Lifecycle!Active, Lifecycle!Terminal,
           Lifecycle!Verdict
  <2>2. queued = {} /\ \A r \in Request : reqPc[r] = "idle"
    BY DEF DownIsEmpty
  <2>3. ControlTypeOK'
    BY <2>1 DEF ControlTypeOK
  <2>4. OneActive' /\ CreatingIsALock' /\ CheckedIsClear' /\ DownIsEmpty'
    BY <2>1, <2>2 DEF OneActive, CreatingIsALock, CheckedIsClear, DownIsEmpty
  <2>5. RunnerIsNamed' /\ QueuedIsAlone' /\ RunnerIsAlone'
    BY <2>1, <2>2 DEF RunnerIsNamed, QueuedIsAlone, RunnerIsAlone
  <2>6. QED
    BY <2>3, <2>4, <2>5
<1>3. QED
  BY <1>1, <1>2 DEF Crash, RunFailFails

LEMMA QuietKeepsControl ==
  ASSUME ControlInv, UNCHANGED controlVars
  PROVE  ControlInv'
BY DEF ControlInv, controlVars, ControlTypeOK, OneActive, CreatingIsALock, CheckedIsClear,
       RunnerIsNamed, QueuedIsAlone, RunnerIsAlone, DownIsEmpty

LEMMA InitControl == Init => ControlInv
<1> SUFFICES ASSUME Init
             PROVE  ControlInv
  OBVIOUS
<1>1. /\ status = [j \in Job |-> "ABSENT"]
      /\ up = FALSE /\ creating = FALSE
      /\ runningJobId = NoJob
      /\ queued = {}
      /\ reqPc = [r \in Request |-> "idle"]
      /\ runPc = [j \in Job |-> "off"]
  BY DEF Init
<1>2. \A j \in Job : status[j] \notin Active
  BY <1>1 DEF Active, Lifecycle!Active
<1>3. ControlTypeOK
  BY <1>1 DEF ControlTypeOK, ReqPc, RunPc, Lifecycle!Status
<1>4. QED
  BY <1>1, <1>2, <1>3 DEF ControlInv, OneActive, CreatingIsALock, CheckedIsClear,
     RunnerIsNamed, QueuedIsAlone, RunnerIsAlone, DownIsEmpty

LEMMA NextKeepsControl == ControlInv /\ [Next]_vars => ControlInv'
<1> SUFFICES ASSUME ControlInv, [Next]_vars
             PROVE  ControlInv'
  OBVIOUS
<1>1. ASSUME NEW r \in Request,
             \/ CreateEnter(r) \/ CreateRefuse(r) \/ CreateCheck(r)
             \/ CreateLookUp(r) \/ CreateInsert(r)
      PROVE  ControlInv'
  BY <1>1, CreateKeepsControl
<1>2. ASSUME NEW j \in Job, RunStart(j)
      PROVE  ControlInv'
  BY <1>2, RunStartKeepsControl
<1>3. ASSUME NEW j \in Job,
             \/ RunStep(j) /\ ~RunStart(j)
             \/ RunCallFails(j)
             \/ ChatMessageFails(j)
      PROVE  ControlInv'
  BY <1>3, RunStepMoves, RunMoveKeepsControl, QuietKeepsControl DEF ControlInv
<1>4. CASE Crash \/ Boot \/ \E j \in Job : RunFailFails(j)
  BY <1>4, RestartKeepsControl
<1>5. CASE AdminRefresh \/ Disconnect \/ \E c \in Chat : Post(c)
  BY <1>5, QuietKeepsControl
  DEF AdminRefresh, Disconnect, Post, controlVars, jobVars, reqVars, runVars
<1>6. CASE UNCHANGED vars
  BY <1>6, QuietKeepsControl DEF vars, controlVars, jobVars, reqVars, runVars
<1>7. QED
  BY <1>1, <1>2, <1>3, <1>4, <1>5, <1>6 DEF Next

THEOREM ControlInvariant == Spec => []ControlInv
<1>1. QED
  BY InitControl, NextKeepsControl, PTL DEF Spec

(* Through any number of concurrent requests, jobs, faults, lost replies,  *)
(* crashes and restarts, at most one job is active and at most one run is  *)
(* executing (SyncJobsService.creating and runningJobId do their work).    *)
THEOREM OneJobAtATimeHolds == Spec => []OneJobAtATime
<1>1. ControlInv => OneJobAtATime
  BY DEF ControlInv, OneActive, RunnerIsNamed, RunnerIsAlone, OneJobAtATime
<1>2. QED
  BY <1>1, ControlInvariant, PTL

-----------------------------------------------------------------------------
(***************************************************************************)
(* Type correctness.                                                       *)
(***************************************************************************)
(* The awaits at which run() is busy with one chat. *)
AtChat == {"opening", "scanning", "completing", "failingChat", "counting"}

(* What keeps progress below 100 and the counters defined: a run has no    *)
(* more chats left than it loaded, and it loaded some if it is at one.     *)
RunShape ==
  \A j \in Job :
    /\ Cardinality(run[j].todo) <= run[j].total
    /\ runPc[j] \in AtChat => run[j].total # 0 /\ run[j].chat \in Chat

TypeInv == TypeOK /\ RunShape

-----------------------------------------------------------------------------
(* Math.round over the share of the chats done stays within its 80 points. *)
LEMMA ShareBound ==
  ASSUME NEW completed \in Nat, NEW total \in Nat, total # 0, completed <= total
  PROVE  Share(completed, total) \in 0..80
<1> DEFINE x == 160 * completed + total
           y == 2 * total
           q == x \div y
<1>1. x \in Nat /\ y \in Nat /\ y > 0 /\ x <= 161 * total
  OBVIOUS
<1>2. q \in Nat /\ y * q <= x
  BY <1>1
<1>3. ASSUME q >= 81 PROVE FALSE
  <2>1. y * q >= y * 81
    BY <1>1, <1>2, <1>3
  <2>2. QED
    BY <1>1, <1>2, <2>1
<1>4. QED
  BY <1>2, <1>3 DEF Share

(* Sets of chats and of hosts are finite. *)
LEMMA Finite ==
  /\ \A S \in SUBSET Chat : IsFiniteSet(S) /\ Cardinality(S) \in Nat
  /\ \A S \in SUBSET Domain : IsFiniteSet(S) /\ Cardinality(S) \in Nat
BY ConstantsAssumption, FS_Subset, FS_CardinalityType

(* The counters of a job's chats add up to natural numbers. *)
LEMMA TotalTyped ==
  ASSUME ChatTypeOK, NEW j \in Job,
         NEW field \in {"messageCount", "foundCount", "newCount", "duplicateCount"}
  PROVE  TotalOf(j, field) \in Nat
<1> DEFINE f == [c \in Chat |-> chatCounters[j][c][field]]
<1>1. IsFiniteSet(ChatsOf(j)) /\ \A c \in ChatsOf(j) : f[c] \in Nat
  BY Finite DEF ChatTypeOK, Counters, ChatsOf
<1>2. TotalOf(j, field) = SumFunctionOnSet(f, ChatsOf(j))
  BY DEF TotalOf
<1> HIDE DEF f
<1>3. QED
  BY <1>1, <1>2, SumIs

LEMMA ZeroTyped == Zero \in Counters /\ Idle \in Locals
BY ConstantsAssumption DEF Zero, Counters, Idle, Locals

LEMMA CountedTyped ==
  ASSUME NEW n \in Counters, NEW new \in Nat, NEW dup \in Nat
  PROVE  Counted(n, new, dup) \in Counters
BY DEF Counters, Counted

(* Receiving a message changes none of the run's bookkeeping of chats. *)
LEMMA ReceivedTyped ==
  ASSUME NEW l \in Locals, l.cursor \in 1..MaxMsg, NEW new \in Nat, NEW dup \in Nat
  PROVE  /\ Received(l, new, dup) \in Locals
         /\ Received(l, new, dup).todo = l.todo
         /\ Received(l, new, dup).total = l.total
         /\ Received(l, new, dup).chat = l.chat
<1> DEFINE a == l.cursor - 1
           b == Max2(l.maxMessageId, l.cursor)
           n == Counted(l.counters, new, dup)
<1>1. a \in 0..MaxMsg /\ b \in 0..MaxMsg
  BY ConstantsAssumption DEF Locals, Max2
<1>2. n \in Counters
  BY CountedTyped DEF Locals
<1>3. Received(l, new, dup) = [l EXCEPT !.cursor = a, !.maxMessageId = b, !.counters = n]
  BY DEF Received
<1> HIDE DEF a, b, n
<1>4. QED
  BY <1>1, <1>2, <1>3 DEF Locals

(* The ids a scan visits are ids of messages. *)
LEMMA RangesTyped ==
  ASSUME NEW m, NEW last \in 0..MaxMsg, NEW newest \in 0..MaxMsg,
         NEW b \in Ranges(m, last, newest)
  PROVE  b \in (1..MaxMsg+1) \X (0..MaxMsg)
<1> USE ConstantsAssumption
<1>1. CASE m = "ALL_HISTORY"
  BY <1>1 DEF Ranges
<1>2. CASE m = "CUSTOM"
  BY <1>2 DEF Ranges
<1>3. CASE m = "SINCE_LAST" /\ last # 0
  BY <1>3 DEF Ranges
<1>4. QED
  BY <1>1, <1>2, <1>3 DEF Ranges

(* The budget. *)
LEMMA FaultTyped == WorldTypeOK /\ Fault => faults' \in 0..MaxFaults
BY ConstantsAssumption DEF WorldTypeOK, Fault

(* Groups of variables that a step leaves alone keep their types. *)
LEMMA Frame ==
  ASSUME TypeInv
  PROVE  /\ UNCHANGED jobVars => JobTypeOK'
         /\ UNCHANGED chatVars => ChatTypeOK'
         /\ UNCHANGED linkVars => LinkTypeOK'
         /\ UNCHANGED scanVars => ScanTypeOK'
         /\ UNCHANGED reqVars => RequestTypeOK'
         /\ UNCHANGED runVars => RunTypeOK' /\ RunShape'
         /\ UNCHANGED <<isAvailable, up, entities, posted, faults, crashes>> => WorldTypeOK'
<1> USE DEF TypeInv, TypeOK
<1>1. UNCHANGED jobVars => JobTypeOK'
  BY DEF jobVars, JobTypeOK
<1>2. UNCHANGED chatVars => ChatTypeOK'
  BY DEF chatVars, ChatTypeOK
<1>3. UNCHANGED linkVars => LinkTypeOK'
  BY DEF linkVars, LinkTypeOK
<1>4. UNCHANGED scanVars => ScanTypeOK'
  BY DEF scanVars, ScanTypeOK
<1>5. UNCHANGED reqVars => RequestTypeOK'
  BY DEF reqVars, RequestTypeOK
<1>6. UNCHANGED runVars => RunTypeOK' /\ RunShape'
  BY DEF runVars, RunTypeOK, RunShape
<1>7. UNCHANGED <<isAvailable, up, entities, posted, faults, crashes>> => WorldTypeOK'
  BY DEF WorldTypeOK
<1>8. QED
  BY <1>1, <1>2, <1>3, <1>4, <1>5, <1>6, <1>7

(* A step that only moves the place of a run. *)
LEMMA GotoTyped ==
  ASSUME TypeInv, NEW j \in Job, NEW pc \in RunPc, Goto(j, pc),
         UNCHANGED <<runningJobId, run>>,
         pc \in AtChat => run[j].total # 0 /\ run[j].chat \in Chat
  PROVE  RunTypeOK' /\ RunShape'
BY DEF TypeInv, TypeOK, RunTypeOK, RunShape, Goto

(* A step that moves a run and gives it new local variables. *)
LEMMA LocalTyped ==
  ASSUME TypeInv, NEW j \in Job, NEW pc \in RunPc, NEW l \in Locals,
         Goto(j, pc), Local(j, l), UNCHANGED runningJobId,
         Cardinality(l.todo) <= l.total,
         pc \in AtChat => l.total # 0 /\ l.chat \in Chat
  PROVE  RunTypeOK' /\ RunShape'
<1>1. run'[j] = l /\ runPc'[j] = pc
  BY DEF TypeInv, TypeOK, RunTypeOK, Goto, Local
<1>2. \A k \in Job : k # j => run'[k] = run[k] /\ runPc'[k] = runPc[k]
  BY DEF TypeInv, TypeOK, RunTypeOK, Goto, Local
<1>3. RunTypeOK'
  BY DEF TypeInv, TypeOK, RunTypeOK, Goto, Local
<1>4. RunShape'
  BY <1>1, <1>2 DEF TypeInv, RunShape
<1>5. QED
  BY <1>3, <1>4

LEMMA AnsweredTyped ==
  ASSUME TypeInv, NEW j \in Job, NEW pc \in RunPc, Answered(j, pc)
  PROVE  /\ faults' \in 0..MaxFaults
         /\ \E p \in RunPc : /\ Goto(j, p)
                             /\ p = pc \/ p = Handler(runPc[j])
<1>1. Handler(runPc[j]) \in RunPc
  BY DEF Handler, RunPc, JobPc
<1>2. QED
  BY <1>1, FaultTyped DEF Answered, TypeInv, TypeOK, WorldTypeOK

(* A step that awaits and moves on, without touching the run's locals.     *)
LEMMA AnsweredKeepsRun ==
  ASSUME TypeInv, NEW j \in Job, NEW pc \in RunPc, Answered(j, pc),
         UNCHANGED <<runningJobId, run>>,
         runPc[j] \in AtChat \/ pc \notin AtChat
  PROVE  faults' \in 0..MaxFaults /\ RunTypeOK' /\ RunShape'
<1>1. faults' \in 0..MaxFaults
  BY AnsweredTyped
<1>2. PICK p \in RunPc : Goto(j, p) /\ (p = pc \/ p = Handler(runPc[j]))
  BY AnsweredTyped
<1>3. CASE runPc[j] \in AtChat
  <2>1. run[j].total # 0 /\ run[j].chat \in Chat
    BY <1>3 DEF TypeInv, RunShape
  <2>2. QED
    BY <1>1, <1>2, <2>1, GotoTyped
<1>4. CASE runPc[j] \notin AtChat
  <2>1. Handler(runPc[j]) = "failing"
    BY <1>4 DEF Handler, ChatPc, AtChat
  <2>2. p \notin AtChat
    BY <1>2, <1>4, <2>1 DEF AtChat
  <2>3. QED
    BY <1>1, <1>2, <2>2, GotoTyped
<1>5. QED
  BY <1>3, <1>4

-----------------------------------------------------------------------------
(* The steps of create(). *)
LEMMA CreateTyped ==
  ASSUME NEW r \in Request, TypeInv,
         \/ CreateEnter(r) \/ CreateRefuse(r) \/ CreateCheck(r)
         \/ CreateLookUp(r) \/ CreateInsert(r)
  PROVE  TypeInv'
<1> USE DEF ReqPc
<1>1. CASE CreateEnter(r)
  <2>1. RequestTypeOK'
    BY <1>1 DEF CreateEnter, RequestTypeOK, TypeInv, TypeOK
  <2>2. QED
    BY <1>1, <2>1, Frame DEF CreateEnter, TypeInv, TypeOK
<1>2. CASE CreateRefuse(r)
  <2>1. RequestTypeOK'
    BY <1>2 DEF CreateRefuse, Release, RequestTypeOK, TypeInv, TypeOK
  <2>2. WorldTypeOK'
    BY <1>2, FaultTyped DEF CreateRefuse, WorldTypeOK, TypeInv, TypeOK
  <2>3. QED
    BY <1>2, <2>1, <2>2, Frame DEF CreateRefuse, TypeInv, TypeOK
<1>3. CASE CreateCheck(r)
  <2>1. RequestTypeOK'
    BY <1>3 DEF CreateCheck, RequestTypeOK, TypeInv, TypeOK
  <2>2. QED
    BY <1>3, <2>1, Frame DEF CreateCheck, TypeInv, TypeOK
<1>4. CASE CreateLookUp(r)
  <2>1. RequestTypeOK'
    BY <1>4 DEF CreateLookUp, RequestTypeOK, WorldTypeOK, TypeInv, TypeOK
  <2>2. QED
    BY <1>4, <2>1, Frame DEF CreateLookUp, TypeInv, TypeOK
<1>5. CASE CreateInsert(r)
  <2>1. PICK j \in Job, m \in Modes :
          /\ status' = [status EXCEPT ![j] = "QUEUED"]
          /\ mode' = [mode EXCEPT ![j] = m]
          /\ chatStatus' = [chatStatus EXCEPT ![j] =
                              [c \in Chat |-> IF c \in reqChats[r] THEN "PENDING"
                                                                   ELSE "ABSENT"]]
          /\ \/ queued' = queued \union {j} /\ UNCHANGED faults
             \/ LostReplies /\ Fault /\ UNCHANGED queued
    BY <1>5 DEF CreateInsert
  <2>2. JobTypeOK'
    BY <1>5, <2>1, ConstantsAssumption
    DEF CreateInsert, JobTypeOK, TypeInv, TypeOK, Lifecycle!Status, Lifecycle!Active
  <2>3. ChatTypeOK'
    BY <1>5, <2>1 DEF CreateInsert, ChatTypeOK, ChatStatus, TypeInv, TypeOK
  <2>4. RequestTypeOK'
    BY <1>5, <2>1 DEF CreateInsert, Release, RequestTypeOK, TypeInv, TypeOK
  <2>5. WorldTypeOK'
    BY <1>5, <2>1, FaultTyped DEF CreateInsert, WorldTypeOK, TypeInv, TypeOK
  <2>6. QED
    BY <1>5, <2>2, <2>3, <2>4, <2>5, Frame DEF CreateInsert, TypeInv, TypeOK
<1>6. QED
  BY <1>1, <1>2, <1>3, <1>4, <1>5

-----------------------------------------------------------------------------
(* The steps of a run. *)
LEMMA JobStepTyped ==
  ASSUME NEW j \in Job, TypeInv,
         \/ RunStart(j) \/ RunConnect(j) \/ RunRefresh(j) \/ RunLoad(j) \/ RunRead(j)
         \/ RunCount(j) \/ RunDeduplicate(j) \/ RunFinish(j) \/ RunFail(j) \/ RunEnd(j)
         \/ RunCallFails(j)
  PROVE  TypeInv'
<1> USE DEF TypeInv, TypeOK
<1>1. CASE RunStart(j)
  <2>1. RequestTypeOK'
    BY <1>1 DEF RunStart, RequestTypeOK
  <2>2. RunTypeOK' /\ RunShape'
    BY <1>1 DEF RunStart, RunTypeOK, RunShape, Goto, RunPc, JobPc, AtChat
  <2>3. QED
    BY <1>1, <2>1, <2>2, Frame DEF RunStart
<1>2. CASE RunConnect(j)
  <2>1. JobTypeOK'
    BY <1>2 DEF RunConnect, JobTypeOK, Lifecycle!Status, Lifecycle!Active, Stage
  <2>2. faults' \in 0..MaxFaults /\ RunTypeOK' /\ RunShape'
    <3>1. Answered(j, "refreshing") /\ UNCHANGED <<runningJobId, run>>
      BY <1>2 DEF RunConnect
    <3>2. "refreshing" \in RunPc \ AtChat
      BY DEF RunPc, JobPc, AtChat
    <3>3. QED
      BY <3>1, <3>2, AnsweredKeepsRun
  <2>3. QED
    BY <1>2, <2>1, <2>2, Frame DEF RunConnect, WorldTypeOK
<1>3. CASE RunRefresh(j)
  <2>1. PICK D \in Dialogs :
          \/ Refresh(D, TRUE) /\ Answered(j, "loading")
          \/ Refresh(D, FALSE) /\ Fault /\ Goto(j, "failing")
    BY <1>3 DEF RunRefresh
  <2>2. faults' \in 0..MaxFaults
    BY <2>1, AnsweredTyped, FaultTyped DEF RunPc, JobPc
  <2>3. \E p \in RunPc : Goto(j, p) /\ p \notin AtChat
    <3>1. Handler(runPc[j]) = "failing"
      BY <1>3 DEF RunRefresh, Handler, ChatPc
    <3>2. "loading" \in RunPc \ AtChat /\ "failing" \in RunPc \ AtChat
      BY DEF RunPc, JobPc, AtChat
    <3>3. Goto(j, "loading") \/ Goto(j, "failing")
      BY <2>1, <3>1 DEF Answered
    <3>4. QED
      BY <3>2, <3>3
  <2>4. RunTypeOK' /\ RunShape'
    BY <1>3, <2>3, GotoTyped DEF RunRefresh
  <2>5. WorldTypeOK'
    BY <1>3, <2>1, <2>2, ConstantsAssumption DEF RunRefresh, Refresh, WorldTypeOK
  <2>6. QED
    BY <1>3, <2>4, <2>5, Frame DEF RunRefresh
<1>4. CASE RunLoad(j)
  <2>1. ChatsOf(j) \in SUBSET Chat /\ Cardinality(ChatsOf(j)) \in Nat
    BY Finite DEF ChatsOf
  <2> DEFINE S == ChatsOf(j)
             n == Cardinality(ChatsOf(j))
  <2>2. run' = [run EXCEPT ![j] = [Idle EXCEPT !.lastSynced = lastSyncedMessageId,
                                               !.todo = S, !.total = n]]
    BY <1>4 DEF RunLoad, Local
  <2>3. S \in SUBSET Chat /\ n \in Nat /\ Cardinality(S) <= n
    BY <2>1
  <2> HIDE DEF S, n
  <2>4. run' \in [Job -> Locals] /\ run'[j].todo = S /\ run'[j].total = n
    BY <2>2, <2>3, ZeroTyped DEF Locals, ScanTypeOK, RunTypeOK
  <2>5. RunTypeOK' /\ RunShape'
    BY <1>4, <2>2, <2>3, <2>4
    DEF RunLoad, RunTypeOK, RunShape, Goto, RunPc, JobPc, AtChat
  <2>6. QED
    BY <1>4, <2>5, Frame DEF RunLoad
<1>5. CASE RunRead(j)
  <2>1. JobTypeOK'
    BY <1>5 DEF RunRead, JobTypeOK, Stage
  <2>2. faults' \in 0..MaxFaults /\ RunTypeOK' /\ RunShape'
    <3>1. Answered(j, "chats") /\ UNCHANGED <<runningJobId, run>>
      BY <1>5 DEF RunRead
    <3>2. "chats" \in RunPc \ AtChat
      BY DEF RunPc, JobPc, AtChat
    <3>3. QED
      BY <3>1, <3>2, AnsweredKeepsRun
  <2>3. QED
    BY <1>5, <2>1, <2>2, Frame DEF RunRead, WorldTypeOK
<1>6. CASE RunCount(j)
  <2> DEFINE done == run[j].total - Cardinality(run[j].todo)
  <2>1. /\ run[j] \in Locals
        /\ Cardinality(run[j].todo) \in Nat
        /\ run[j].total \in Nat /\ run[j].total # 0
        /\ Cardinality(run[j].todo) <= run[j].total
    BY <1>6, Finite DEF RunCount, RunTypeOK, RunShape, AtChat, Locals
  <2>2. Share(done, run[j].total) \in 0..80
    <3>1. done \in Nat /\ done <= run[j].total
      BY <2>1
    <3> HIDE DEF done
    <3>2. QED
      BY <2>1, <3>1, ShareBound
  <2> DEFINE share == Share(done, run[j].total)
             p == 10 + share
  <2>3. JobTypeOK'
    <3>1. p \in 0..100
      <4>1. share \in 0..80
        BY <2>2
      <4> HIDE DEF share
      <4>2. QED
        BY <4>1
    <3>2. /\ progress' = [progress EXCEPT ![j] = p]
          /\ stage' = [stage EXCEPT ![j] = "EXTRACTING"]
          /\ UNCHANGED <<status, error, mode, totals>>
      BY <1>6 DEF RunCount
    <3> HIDE DEF p
    <3>3. QED
      BY <3>1, <3>2 DEF JobTypeOK, Stage
  <2>4. faults' \in 0..MaxFaults /\ RunTypeOK' /\ RunShape'
    <3>1. Answered(j, "chats") /\ UNCHANGED <<runningJobId, run>>
      BY <1>6 DEF RunCount
    <3>2. "chats" \in RunPc \ AtChat
      BY DEF RunPc, JobPc, AtChat
    <3>3. QED
      BY <3>1, <3>2, AnsweredKeepsRun
  <2>5. QED
    BY <1>6, <2>3, <2>4, Frame DEF RunCount, WorldTypeOK
<1>7. CASE RunDeduplicate(j)
  <2>1. JobTypeOK'
    BY <1>7 DEF RunDeduplicate, JobTypeOK, Stage
  <2>2. faults' \in 0..MaxFaults /\ RunTypeOK' /\ RunShape'
    <3>1. Answered(j, "finishing") /\ UNCHANGED <<runningJobId, run>>
      BY <1>7 DEF RunDeduplicate
    <3>2. "finishing" \in RunPc \ AtChat
      BY DEF RunPc, JobPc, AtChat
    <3>3. QED
      BY <3>1, <3>2, AnsweredKeepsRun
  <2>3. QED
    BY <1>7, <2>1, <2>2, Frame DEF RunDeduplicate, WorldTypeOK
<1>8. CASE RunFinish(j)
  <2>1. VerdictOf(j) \in Lifecycle!Status
    BY DEF VerdictOf, Lifecycle!Status, Lifecycle!Terminal, Lifecycle!Verdict
  <2>2. status' = [status EXCEPT ![j] = VerdictOf(j)]
        /\ progress' = [progress EXCEPT ![j] = 100]
        /\ stage' = [stage EXCEPT ![j] = "SAVING"]
        /\ UNCHANGED <<error, mode>>
    BY <1>8 DEF RunFinish
  <2>3. JobTypeOK'
    <3> DEFINE t == [messageCount   |-> TotalOf(j, "messageCount"),
                     foundCount     |-> TotalOf(j, "foundCount"),
                     newCount       |-> TotalOf(j, "newCount"),
                     duplicateCount |-> TotalOf(j, "duplicateCount")]
    <3>1. totals' = [totals EXCEPT ![j] = t]
      BY <1>8 DEF RunFinish
    <3>2. t \in Counters
      BY TotalTyped DEF Counters
    <3> HIDE DEF t
    <3>3. QED
      BY <2>1, <2>2, <3>1, <3>2 DEF JobTypeOK, Stage
  <2>4. faults' \in 0..MaxFaults /\ RunTypeOK' /\ RunShape'
    <3>1. Answered(j, "ending") /\ UNCHANGED <<runningJobId, run>>
      BY <1>8 DEF RunFinish
    <3>2. "ending" \in RunPc \ AtChat
      BY DEF RunPc, JobPc, AtChat
    <3>3. QED
      BY <3>1, <3>2, AnsweredKeepsRun
  <2>5. QED
    BY <1>8, <2>3, <2>4, Frame DEF RunFinish, WorldTypeOK
<1>9. CASE RunFail(j)
  <2>1. JobTypeOK'
    BY <1>9 DEF RunFail, JobTypeOK, Lifecycle!Status, Lifecycle!Terminal, Lifecycle!Verdict
  <2>2. RunTypeOK' /\ RunShape'
    BY <1>9, GotoTyped DEF RunFail, RunPc, AtChat
  <2>3. QED
    BY <1>9, <2>1, <2>2, Frame DEF RunFail
<1>10. CASE RunEnd(j)
  <2>1. Cardinality({}) = 0 /\ Idle.todo = {} /\ Idle.total = 0
    BY FS_EmptySet DEF Idle
  <2>2. /\ runPc' = [runPc EXCEPT ![j] = "off"]
        /\ run' = [run EXCEPT ![j] = Idle]
        /\ runningJobId' = NoJob
    BY <1>10 DEF RunEnd, Goto, Local
  <2>3. RunTypeOK'
    BY <2>2, ZeroTyped DEF RunTypeOK, RunPc
  <2>4. RunShape'
    <3>1. run'[j].todo = {} /\ run'[j].total = 0 /\ runPc'[j] \notin AtChat
      BY <2>1, <2>2 DEF RunTypeOK, AtChat
    <3>2. \A k \in Job : k # j => run'[k] = run[k] /\ runPc'[k] = runPc[k]
      BY <2>2 DEF RunTypeOK
    <3>3. Cardinality(run'[j].todo) <= run'[j].total
      BY <2>1, <3>1
    <3>4. QED
      BY <3>1, <3>2, <3>3 DEF RunShape
  <2>5. QED
    BY <1>10, <2>3, <2>4, Frame DEF RunEnd
<1>11. CASE RunCallFails(j)
  <2>1. faults' \in 0..MaxFaults
    BY <1>11, FaultTyped DEF RunCallFails
  <2>2. RunTypeOK' /\ RunShape'
    BY <1>11, GotoTyped
    DEF RunCallFails, RunPc, JobPc, ChatPc, Handler, AtChat, RunShape
  <2>3. QED
    BY <1>11, <2>1, <2>2, Frame DEF RunCallFails, WorldTypeOK
<1>12. QED
  BY <1>1, <1>2, <1>3, <1>4, <1>5, <1>6, <1>7, <1>8, <1>9, <1>10, <1>11

-----------------------------------------------------------------------------
(* The steps of runChat(). *)
LEMMA ChatStepTyped ==
  ASSUME NEW j \in Job, TypeInv,
         \/ ChatBegin(j) \/ ChatOpen(j) \/ ChatMessage(j) \/ ChatMessageFails(j)
         \/ ChatExhausted(j) \/ ChatComplete(j) \/ ChatFail(j)
  PROVE  TypeInv'
<1> USE DEF TypeInv, TypeOK
<1> DEFINE l == run[j]
           c == run[j].chat
<1>0. l \in Locals /\ Cardinality(l.todo) <= l.total
      /\ (runPc[j] \in AtChat => l.total # 0 /\ c \in Chat)
  BY DEF RunTypeOK, RunShape
<1>1. CASE ChatBegin(j)
  <2>1. PICK d \in l.todo :
          /\ chatStatus' = [chatStatus EXCEPT ![j][d] = "RUNNING"]
          /\ Local(j, [l EXCEPT !.todo = @ \ {d}, !.chat = d,
                                !.maxMessageId = l.lastSynced[d], !.counters = Zero])
    BY <1>1 DEF ChatBegin, Baseline
  <2> DEFINE rest == l.todo \ {d}
             k == [l EXCEPT !.todo = l.todo \ {d}, !.chat = d,
                            !.maxMessageId = l.lastSynced[d], !.counters = Zero]
  <2>2. d \in Chat /\ l.lastSynced[d] \in 0..MaxMsg /\ l.total \in Nat
        /\ l.todo \in SUBSET Chat /\ rest \in SUBSET Chat
    BY <1>0, <2>1 DEF Locals
  <2>3. Cardinality(rest) = Cardinality(l.todo) - 1 /\ Cardinality(l.todo) \in Nat
        /\ Cardinality(rest) \in Nat
    BY <2>1, <2>2, Finite, FS_RemoveElement
  <2>4. k \in Locals /\ k.todo = rest /\ k.total = l.total /\ k.chat = d
    BY <1>0, <2>2, ZeroTyped DEF Locals
  <2>5. l.total # 0 /\ Cardinality(rest) <= l.total
    BY <1>0, <2>2, <2>3
  <2>6. Local(j, k)
    BY <2>1
  <2>7. Handler(runPc[j]) = "failing" /\ UNCHANGED runningJobId /\ Answered(j, "opening")
    BY <1>1 DEF ChatBegin, Handler, ChatPc
  <2>8. faults' \in 0..MaxFaults
        /\ \E p \in RunPc : Goto(j, p)
    BY <2>7, AnsweredTyped DEF RunPc
  <2> HIDE DEF k, rest, l, c
  <2>9. RunTypeOK' /\ RunShape'
    BY <2>2, <2>4, <2>5, <2>6, <2>7, <2>8, LocalTyped
  <2>10. ChatTypeOK'
    BY <1>1, <2>1, <2>2 DEF ChatBegin, ChatTypeOK, ChatStatus
  <2>11. QED
    BY <1>1, <2>8, <2>9, <2>10, Frame DEF ChatBegin, WorldTypeOK
<1>2. CASE ChatOpen(j)
  <2>1. CASE Goto(j, "failingChat") /\ UNCHANGED <<run, scan>>
    <3>1. RunTypeOK' /\ RunShape'
      BY <1>0, <1>2, <2>1, GotoTyped DEF ChatOpen, RunPc, JobPc, AtChat
    <3>2. ScanTypeOK'
      BY <1>2, <2>1 DEF ChatOpen, ScanTypeOK
    <3>3. QED
      BY <1>2, <3>1, <3>2, Frame DEF ChatOpen
  <2>2. ASSUME NEW b \in Ranges(mode[j], l.lastSynced[c], posted[c]),
               Local(j, [l EXCEPT !.cursor = b[2], !.lowest = b[1]]),
               scan' = [scan EXCEPT ![j][c] = b],
               Goto(j, "scanning")
        PROVE  TypeInv'
    <3> DEFINE k == [l EXCEPT !.cursor = b[2], !.lowest = b[1]]
    <3>1. c \in Chat /\ runPc[j] = "opening" /\ l.total # 0
      BY <1>0, <1>2 DEF ChatOpen, AtChat
    <3>2. l.lastSynced[c] \in 0..MaxMsg /\ posted[c] \in 0..MaxMsg
      BY <1>0, <3>1 DEF Locals, WorldTypeOK
    <3>3. b \in (1..MaxMsg+1) \X (0..MaxMsg)
      BY <3>2, RangesTyped
    <3>4. k \in Locals /\ k.todo = l.todo /\ k.total = l.total /\ k.chat = c
      BY <1>0, <3>3 DEF Locals
    <3>5. ScanTypeOK'
      BY <1>2, <2>2, <3>1, <3>3 DEF ChatOpen, ScanTypeOK
    <3>6. Local(j, k) /\ UNCHANGED runningJobId /\ "scanning" \in RunPc
      BY <1>2, <2>2 DEF ChatOpen, RunPc, ChatPc
    <3> HIDE DEF k, l, c
    <3>7. RunTypeOK' /\ RunShape'
      BY <1>0, <2>2, <3>1, <3>4, <3>6, LocalTyped
    <3>8. QED
      BY <1>2, <3>5, <3>7, Frame DEF ChatOpen
  <2>3. QED
    BY <1>2, <2>1, <2>2 DEF ChatOpen
<1>3. CASE ChatMessage(j)
  <2> DEFINE ds == DomainsOf[c][l.cursor]
             new == Cardinality(ds \ links)
             dup == Cardinality(ds \cap links)
  <2>1. c \in Chat /\ l.cursor \in 1..MaxMsg /\ l.total # 0 /\ runPc[j] = "scanning"
    <3>1. runPc[j] = "scanning" /\ l.cursor >= l.lowest
      BY <1>3 DEF ChatMessage
    <3>2. l.cursor \in 0..MaxMsg /\ l.lowest \in 1..MaxMsg+1
      BY <1>0 DEF Locals
    <3>3. QED
      BY <1>0, <3>1, <3>2, ConstantsAssumption DEF AtChat
  <2>2. ds \in SUBSET Domain
    BY <2>1, ConstantsAssumption
  <2>3. new \in Nat /\ dup \in Nat
    BY <2>2, Finite
  <2>4. LinkTypeOK'
    <3>1. stored' = IF ds = {} THEN stored ELSE stored \union {<<c, l.cursor>>}
      BY <1>3 DEF ChatMessage
    <3>2. links' = links \union ds
      BY <1>3 DEF ChatMessage
    <3>3. createdBy' \in {createdBy, [createdBy EXCEPT ![j] = @ + new]}
      BY <1>3 DEF ChatMessage
    <3>4. stored' \subseteq Chat \X (1..MaxMsg)
      BY <2>1, <3>1 DEF LinkTypeOK
    <3> HIDE DEF new
    <3>5. createdBy' \in [Job -> Nat]
      BY <2>3, <3>3 DEF LinkTypeOK
    <3>6. QED
      BY <2>2, <3>2, <3>4, <3>5 DEF LinkTypeOK
  <2>5. \/ Local(j, Received(l, new, dup)) /\ UNCHANGED <<runPc, faults>>
        \/ Fault /\ Local(j, Received(l, 0, 0)) /\ Goto(j, "failingChat")
    BY <1>3 DEF ChatMessage
  <2>6. faults' \in 0..MaxFaults
    BY <2>5, FaultTyped DEF WorldTypeOK
  <2>7. Goto(j, "scanning") \/ Goto(j, "failingChat")
    BY <2>1, <2>5 DEF Goto, RunTypeOK
  <2>8. \E n, u \in Nat : Local(j, Received(l, n, u))
    BY <2>3, <2>5
  <2>9. "scanning" \in RunPc /\ "failingChat" \in RunPc /\ UNCHANGED runningJobId
    BY <1>3 DEF RunPc, ChatPc, JobPc, ChatMessage
  <2> HIDE DEF l, c, ds, new, dup
  <2>10. PICK n \in Nat, u \in Nat : Local(j, Received(l, n, u))
    BY <2>8
  <2>11. /\ Received(l, n, u) \in Locals
         /\ Received(l, n, u).todo = l.todo
         /\ Received(l, n, u).total = l.total
         /\ Received(l, n, u).chat = l.chat
    BY <1>0, <2>1, ReceivedTyped
  <2>12. Cardinality(l.todo) <= l.total /\ l.total # 0 /\ l.chat \in Chat
    BY <1>0, <2>1 DEF c, l
  <2> DEFINE k == Received(l, n, u)
  <2>13. /\ k \in Locals /\ Local(j, k)
         /\ Cardinality(k.todo) <= k.total /\ k.total # 0 /\ k.chat \in Chat
    <3>1. k \in Locals /\ Local(j, k)
      BY <2>10, <2>11
    <3>2. k.todo = l.todo /\ k.total = l.total /\ k.chat = l.chat
      BY <2>11
    <3> HIDE DEF k
    <3>3. QED
      BY <2>12, <3>1, <3>2
  <2> HIDE DEF k
  <2>14. RunTypeOK' /\ RunShape'
    BY <2>7, <2>9, <2>13, LocalTyped
  <2>15. QED
    BY <1>3, <2>4, <2>6, <2>14, Frame DEF ChatMessage, WorldTypeOK
<1>4. CASE ChatMessageFails(j)
  <2>1. c \in Chat /\ l.cursor \in 1..MaxMsg /\ l.total # 0
    <3>1. runPc[j] = "scanning" /\ l.cursor >= l.lowest
      BY <1>4 DEF ChatMessageFails
    <3>2. l.cursor \in 0..MaxMsg /\ l.lowest \in 1..MaxMsg+1
      BY <1>0 DEF Locals
    <3>3. QED
      BY <1>0, <3>1, <3>2, ConstantsAssumption DEF AtChat
  <2>2. Local(j, Received(l, 0, 0)) /\ Goto(j, "failingChat") /\ UNCHANGED runningJobId
        /\ "failingChat" \in RunPc
    BY <1>4 DEF ChatMessageFails, RunPc, JobPc
  <2>3. faults' \in 0..MaxFaults
    BY <1>4, FaultTyped DEF ChatMessageFails
  <2> HIDE DEF l, c
  <2>4. /\ Received(l, 0, 0) \in Locals
        /\ Received(l, 0, 0).todo = l.todo
        /\ Received(l, 0, 0).total = l.total
        /\ Received(l, 0, 0).chat = l.chat
    BY <1>0, <2>1, ReceivedTyped
  <2>5. Cardinality(l.todo) <= l.total /\ l.total # 0 /\ l.chat \in Chat
    BY <1>0, <2>1 DEF c, l
  <2> DEFINE k == Received(l, 0, 0)
  <2>6. /\ k \in Locals /\ Local(j, k)
        /\ Cardinality(k.todo) <= k.total /\ k.total # 0 /\ k.chat \in Chat
    <3>1. k \in Locals /\ Local(j, k)
      BY <2>2, <2>4
    <3>2. k.todo = l.todo /\ k.total = l.total /\ k.chat = l.chat
      BY <2>4
    <3> HIDE DEF k
    <3>3. QED
      BY <2>5, <3>1, <3>2
  <2> HIDE DEF k
  <2>7. RunTypeOK' /\ RunShape'
    BY <2>2, <2>6, LocalTyped
  <2>8. QED
    BY <1>4, <2>3, <2>7, Frame DEF ChatMessageFails, WorldTypeOK
<1>5. CASE ChatExhausted(j)
  <2>1. RunTypeOK' /\ RunShape'
    BY <1>0, <1>5, GotoTyped DEF ChatExhausted, RunPc, ChatPc, AtChat
  <2>2. QED
    BY <1>5, <2>1, Frame DEF ChatExhausted
<1>6. CASE ChatComplete(j)
  <2>1. c \in Chat /\ l.total # 0 /\ l.maxMessageId \in 0..MaxMsg
        /\ l.counters \in Counters /\ l.lowest \in 1..MaxMsg+1
    BY <1>0, <1>6 DEF ChatComplete, AtChat, Locals
  <2>2. ChatTypeOK'
    <3>1. chatStatus' \in [Job -> [Chat -> ChatStatus]]
      BY <1>6, <2>1 DEF ChatComplete, ChatTypeOK, ChatStatus
    <3>2. chatCounters' \in [Job -> [Chat -> Counters]]
      BY <1>6, <2>1 DEF ChatComplete, ChatTypeOK
    <3>3. maxProcessedMessageId' \in [Job -> [Chat -> 0..MaxMsg]]
      BY <1>6, <2>1 DEF ChatComplete, ChatTypeOK
    <3>4. QED
      BY <3>1, <3>2, <3>3 DEF ChatTypeOK
  <2>3. ScanTypeOK'
    <3>1. lastSyncedMessageId' \in
            {lastSyncedMessageId, [lastSyncedMessageId EXCEPT ![c] = l.maxMessageId]}
      BY <1>6 DEF ChatComplete
    <3>2. scanFloor' \in {scanFloor, [scanFloor EXCEPT ![c] = l.lowest]}
      BY <1>6 DEF ChatComplete
    <3>3. UNCHANGED scan
      BY <1>6 DEF ChatComplete
    <3>4. l.lowest \in 0..MaxMsg+1
      BY <2>1, ConstantsAssumption
    <3>5. lastSyncedMessageId' \in [Chat -> 0..MaxMsg]
      BY <2>1, <3>1 DEF ScanTypeOK
    <3>6. scanFloor' \in [Chat -> 0..MaxMsg+1]
      BY <3>2, <3>4 DEF ScanTypeOK
    <3>7. QED
      BY <3>3, <3>5, <3>6 DEF ScanTypeOK
  <2>4. Answered(j, "counting") /\ "counting" \in RunPc /\ UNCHANGED <<runningJobId, run>>
        /\ runPc[j] \in AtChat
    BY <1>6 DEF ChatComplete, RunPc, JobPc, AtChat
  <2>5. faults' \in 0..MaxFaults /\ RunTypeOK' /\ RunShape'
    BY <2>4, AnsweredKeepsRun
  <2>6. QED
    BY <1>6, <2>2, <2>3, <2>5, Frame DEF ChatComplete, WorldTypeOK
<1>7. CASE ChatFail(j)
  <2>1. c \in Chat /\ l.total # 0 /\ l.counters \in Counters
    BY <1>0, <1>7 DEF ChatFail, AtChat, Locals
  <2>2. ChatTypeOK'
    BY <1>7, <2>1 DEF ChatFail, ChatTypeOK, ChatStatus
  <2>3. Answered(j, "counting") /\ "counting" \in RunPc /\ UNCHANGED <<runningJobId, run>>
        /\ runPc[j] \in AtChat
    BY <1>7 DEF ChatFail, RunPc, JobPc, AtChat
  <2>4. faults' \in 0..MaxFaults /\ RunTypeOK' /\ RunShape'
    BY <2>3, AnsweredKeepsRun
  <2>5. QED
    BY <1>7, <2>2, <2>4, Frame DEF ChatFail, WorldTypeOK
<1>8. QED
  BY <1>1, <1>2, <1>3, <1>4, <1>5, <1>6, <1>7

-----------------------------------------------------------------------------
(* A crash, a restart, and what others do. *)
LEMMA WorldStepTyped ==
  ASSUME TypeInv,
         \/ Crash \/ Boot \/ AdminRefresh \/ Disconnect
         \/ \E j \in Job : RunFailFails(j)
         \/ \E c \in Chat : Post(c)
  PROVE  TypeInv'
<1> USE DEF TypeInv, TypeOK
<1>1. ASSUME Down, faults' \in 0..MaxFaults, crashes' \in 0..MaxCrashes
      PROVE  TypeInv'
  <2>1. RequestTypeOK'
    BY <1>1 DEF Down, RequestTypeOK, ReqPc
  <2>2. RunTypeOK'
    BY <1>1, ZeroTyped DEF Down, RunTypeOK, RunPc
  <2>3. Idle.total = 0 /\ Cardinality(Idle.todo) = 0
    BY FS_EmptySet DEF Idle
  <2>4. \A k \in Job : run'[k] = Idle /\ runPc'[k] \notin AtChat
    BY <1>1 DEF Down, AtChat
  <2>5. RunShape'
    <3> SUFFICES ASSUME NEW k \in Job
                 PROVE  Cardinality(run'[k].todo) <= run'[k].total
      BY <2>4 DEF RunShape
    <3>1. QED
      BY <2>3, <2>4
  <2>6. WorldTypeOK'
    BY <1>1 DEF Down, WorldTypeOK
  <2>7. QED
    BY <1>1, <2>1, <2>2, <2>5, <2>6, Frame DEF Down
<1>2. CASE Crash
  <2>1. faults' \in 0..MaxFaults /\ crashes' \in 0..MaxCrashes
    BY <1>2, ConstantsAssumption DEF Crash, WorldTypeOK
  <2>2. QED
    BY <1>1, <1>2, <2>1 DEF Crash
<1>3. CASE \E j \in Job : RunFailFails(j)
  BY <1>2, <1>3 DEF RunFailFails
<1>4. CASE Boot
  <2>1. JobTypeOK'
    BY <1>4 DEF Boot, LeftOver, JobTypeOK, Lifecycle!Status, Lifecycle!Terminal
  <2>2. WorldTypeOK'
    BY <1>4 DEF Boot, WorldTypeOK
  <2>3. QED
    BY <1>4, <2>1, <2>2, Frame DEF Boot
<1>5. CASE AdminRefresh
  <2>1. WorldTypeOK'
    BY <1>5, ConstantsAssumption DEF AdminRefresh, Refresh, WorldTypeOK
  <2>2. QED
    BY <1>5, <2>1, Frame DEF AdminRefresh
<1>6. CASE Disconnect
  <2>1. WorldTypeOK'
    BY <1>6, FaultTyped DEF Disconnect, WorldTypeOK
  <2>2. QED
    BY <1>6, <2>1, Frame DEF Disconnect
<1>7. ASSUME NEW c \in Chat, Post(c) PROVE TypeInv'
  <2>1. WorldTypeOK'
    BY <1>7, ConstantsAssumption DEF Post, WorldTypeOK
  <2>2. QED
    BY <1>7, <2>1, Frame DEF Post
<1>8. QED
  BY <1>2, <1>3, <1>4, <1>5, <1>6, <1>7

LEMMA InitTyped == Init => TypeInv
<1> SUFFICES ASSUME Init
             PROVE  TypeInv
  OBVIOUS
<1> USE ConstantsAssumption, ZeroTyped DEF Init
<1>1. JobTypeOK
  BY DEF JobTypeOK, Lifecycle!Status, Stage, RangeMode
<1>2. ChatTypeOK
  BY DEF ChatTypeOK, ChatStatus
<1>3. LinkTypeOK /\ ScanTypeOK
  BY DEF LinkTypeOK, ScanTypeOK
<1>4. RequestTypeOK
  BY DEF RequestTypeOK, ReqPc
<1>5. WorldTypeOK
  <2>1. posted \in [Chat -> 0..MaxMsg]
    OBVIOUS
  <2>2. isAvailable \subseteq Chat /\ up \in BOOLEAN /\ entities \subseteq Chat
    OBVIOUS
  <2>3. faults \in 0..MaxFaults /\ crashes \in 0..MaxCrashes
    OBVIOUS
  <2>4. QED
    BY <2>1, <2>2, <2>3 DEF WorldTypeOK
<1>6. RunTypeOK
  BY DEF RunTypeOK, RunPc
<1>7. RunShape
  <2>1. Idle.total = 0 /\ Cardinality(Idle.todo) = 0
    BY FS_EmptySet DEF Idle
  <2>2. \A j \in Job : run[j] = Idle /\ runPc[j] \notin AtChat
    BY DEF AtChat
  <2>3. QED
    BY <2>1, <2>2 DEF RunShape
<1>8. QED
  BY <1>1, <1>2, <1>3, <1>4, <1>5, <1>6, <1>7 DEF TypeInv, TypeOK

LEMMA NextTyped == TypeInv /\ [Next]_vars => TypeInv'
<1> SUFFICES ASSUME TypeInv, [Next]_vars
             PROVE  TypeInv'
  OBVIOUS
<1>1. ASSUME NEW r \in Request,
             \/ CreateEnter(r) \/ CreateRefuse(r) \/ CreateCheck(r)
             \/ CreateLookUp(r) \/ CreateInsert(r)
      PROVE  TypeInv'
  BY <1>1, CreateTyped
<1>2. ASSUME NEW j \in Job, RunStep(j) \/ RunCallFails(j) \/ ChatMessageFails(j)
      PROVE  TypeInv'
  BY <1>2, JobStepTyped, ChatStepTyped DEF RunStep
<1>3. CASE \/ Crash \/ Boot \/ AdminRefresh \/ Disconnect
           \/ \E j \in Job : RunFailFails(j)
           \/ \E c \in Chat : Post(c)
  BY <1>3, WorldStepTyped
<1>4. CASE UNCHANGED vars
  BY <1>4, Frame DEF vars, TypeInv, TypeOK
<1>5. QED
  BY <1>1, <1>2, <1>3, <1>4 DEF Next

(* Every variable keeps its type in every behaviour: progress never leaves *)
(* 0..100 (Math.round of the share of chats done), no run is at a chat it  *)
(* has not got, and no watermark leaves the ids of messages.               *)
THEOREM TypeCorrect == Spec => []TypeOK
<1>1. TypeInv => TypeOK
  BY DEF TypeInv
<1>2. QED
  BY <1>1, InitTyped, NextTyped, PTL DEF Spec
-----------------------------------------------------------------------------
(***************************************************************************)
(* What the scans cover and what the watermarks say of them.               *)
(***************************************************************************)

(* The awaits of a run that has loaded its job, and those of a scan.       *)
Loaded == {"reading", "chats", "opening", "scanning", "completing", "failingChat",
           "counting"}
InScan == {"opening", "scanning", "completing"}

(* The watermarks that the run read are still those of the table, for the  *)
(* chats it has not finished: nobody else moves them.                      *)
WatermarksAreFresh ==
  \A j \in Job :
    /\ runPc[j] \in Loaded =>
         \A c \in run[j].todo : run[j].lastSynced[c] = lastSyncedMessageId[c]
    /\ runPc[j] \in InScan =>
         /\ run[j].chat \in Chat \ run[j].todo
         /\ run[j].lastSynced[run[j].chat] = lastSyncedMessageId[run[j].chat]

OpeningIsRunning ==
  \A j \in Job : runPc[j] = "opening" =>
    /\ chatStatus[j][run[j].chat] = "RUNNING"
    /\ run[j].maxMessageId = run[j].lastSynced[run[j].chat]

(* What a scan with local variables l over the ids b has done so far. *)
Covered(l, b) ==
  /\ l.lowest = b[1] /\ l.cursor <= b[2]
  /\ \A m \in l.cursor + 1..b[2] : DomainsOf[l.chat][m] # {} => <<l.chat, m>> \in stored
  /\ l.maxMessageId \in {l.lastSynced[l.chat], b[2]}
  /\ l.maxMessageId >= l.lastSynced[l.chat]
  /\ l.cursor < b[2] => l.maxMessageId >= b[2]

ScanIsCovered ==
  \A j \in Job : runPc[j] \in {"scanning", "completing"} =>
    LET l == run[j] IN
      /\ Covered(l, scan[j][l.chat])
      /\ runPc[j] = "completing" => l.cursor < l.lowest
      /\ mode[j] = "SINCE_LAST" /\ l.lastSynced[l.chat] # 0 =>
           l.lowest = l.lastSynced[l.chat] + 1

(* A chat has a floor exactly if it has a watermark. *)
FloorsMatch ==
  \A c \in Chat : (scanFloor[c] = 0) <=> (lastSyncedMessageId[c] = 0)

AbsentIsIncremental == \A j \in Job : status[j] = "ABSENT" => mode[j] = "SINCE_LAST"

Greatest ==
  \A c \in Chat :
    /\ \A j \in Job : maxProcessedMessageId[j][c] <= lastSyncedMessageId[c]
    /\ lastSyncedMessageId[c] = 0
       \/ \E j \in Job : maxProcessedMessageId[j][c] = lastSyncedMessageId[c]

ScanParts ==
  /\ WatermarksAreFresh
  /\ OpeningIsRunning
  /\ ScanIsCovered
  /\ SucceededChatIsScanned
  /\ FloorsMatch
  /\ AbsentIsIncremental
  /\ Greatest
  /\ NoGapBelowWatermark

(* The inductive invariant of the scans. *)
ScanInv == ControlInv /\ TypeInv /\ ScanParts

-----------------------------------------------------------------------------
(* A run that is executing is the only one. *)
LEMMA Alone ==
  ASSUME ControlInv, NEW j \in Job, runPc[j] # "off"
  PROVE  \A k \in Job : k # j => runPc[k] = "off"
BY DEF ControlInv, RunnerIsNamed

(* A step that moves runs to places where no scan is under way, and        *)
(* touches nothing that the scans wrote.                                   *)
LEMMA QuietKeepsScan ==
  ASSUME ScanParts,
         UNCHANGED <<mode, chatStatus, maxProcessedMessageId, stored,
                     lastSyncedMessageId, scan, scanFloor>>,
         \A j \in Job : status'[j] = "ABSENT" => status[j] = "ABSENT",
         \A j \in Job : \/ runPc'[j] \notin Loaded
                        \/ run'[j] = run[j] /\ runPc'[j] = runPc[j]
                        \/ /\ run'[j] = run[j] /\ runPc'[j] \notin InScan
                           /\ runPc[j] \in Loaded
  PROVE  ScanParts'
<1> USE DEF ScanParts
<1>1. WatermarksAreFresh'
  BY DEF WatermarksAreFresh, Loaded, InScan
<1>2. OpeningIsRunning'
  BY DEF OpeningIsRunning, Loaded, InScan
<1>3. ScanIsCovered'
  <2> SUFFICES ASSUME NEW j \in Job, runPc'[j] \in {"scanning", "completing"}
               PROVE  /\ Covered(run[j], scan[j][run[j].chat])'
                      /\ runPc'[j] = "completing" => run'[j].cursor < run'[j].lowest
                      /\ mode'[j] = "SINCE_LAST" /\ run'[j].lastSynced[run'[j].chat] # 0 =>
                           run'[j].lowest = run'[j].lastSynced[run'[j].chat] + 1
    BY DEF ScanIsCovered
  <2>1. run'[j] = run[j] /\ runPc'[j] = runPc[j]
    BY DEF Loaded, InScan
  <2>2. QED
    BY <2>1 DEF ScanIsCovered, Covered
<1>4. SucceededChatIsScanned' /\ FloorsMatch' /\ NoGapBelowWatermark'
  BY DEF SucceededChatIsScanned, FloorsMatch, NoGapBelowWatermark, OnlyIncremental
<1>5. AbsentIsIncremental' /\ Greatest'
  BY DEF AbsentIsIncremental, Greatest
<1>6. QED
  BY <1>1, <1>2, <1>3, <1>4, <1>5

-----------------------------------------------------------------------------
(* The steps of a run that are no steps of a scan. *)
LEMMA JobStepKeepsScan ==
  ASSUME ScanInv, NEW j \in Job,
         \/ RunStart(j) \/ RunConnect(j) \/ RunRefresh(j) \/ RunRead(j)
         \/ RunCount(j) \/ RunDeduplicate(j) \/ RunFinish(j) \/ RunFail(j) \/ RunEnd(j)
         \/ RunCallFails(j)
  PROVE  ScanParts'
<1> USE DEF ScanInv, Goto, Answered, Local, Handler, jobVars, chatVars, linkVars, scanVars,
            ChatPc, JobPc, Loaded, InScan, ControlInv, ControlTypeOK, TypeInv, TypeOK, RunTypeOK,
            JobTypeOK
<1>1. CASE RunStart(j)
  BY <1>1, QuietKeepsScan DEF RunStart, QueuedIsAlone
<1>2. CASE RunConnect(j)
  BY <1>2, QuietKeepsScan DEF RunConnect
<1>3. CASE RunRefresh(j)
  BY <1>3, QuietKeepsScan DEF RunRefresh
<1>4. CASE RunRead(j)
  BY <1>4, QuietKeepsScan DEF RunRead
<1>5. CASE RunCount(j)
  BY <1>5, QuietKeepsScan DEF RunCount
<1>6. CASE RunDeduplicate(j)
  BY <1>6, QuietKeepsScan DEF RunDeduplicate
<1>7. CASE RunFinish(j)
  <2>1. VerdictOf(j) # "ABSENT"
    BY DEF VerdictOf
  <2>2. QED
    BY <1>7, <2>1, QuietKeepsScan DEF RunFinish
<1>8. CASE RunFail(j)
  BY <1>8, QuietKeepsScan DEF RunFail
<1>9. CASE RunEnd(j)
  BY <1>9, QuietKeepsScan DEF RunEnd
<1>10. CASE RunCallFails(j)
  BY <1>10, QuietKeepsScan DEF RunCallFails
<1>11. QED
  BY <1>1, <1>2, <1>3, <1>4, <1>5, <1>6, <1>7, <1>8, <1>9, <1>10

(* The job is loaded with the watermarks of this moment. *)
LEMMA LoadKeepsScan ==
  ASSUME ScanInv, NEW j \in Job, RunLoad(j)
  PROVE  ScanParts'
<1> USE DEF ScanInv, ScanParts, RunLoad, Goto, Local, jobVars, chatVars, linkVars, scanVars
<1>1. /\ runPc'[j] = "reading" /\ run'[j].todo \subseteq Chat
      /\ run'[j].lastSynced = lastSyncedMessageId
      /\ \A k \in Job : k # j => runPc'[k] = "off"
  BY Alone DEF TypeInv, TypeOK, RunTypeOK, Idle, ChatsOf
<1>2. WatermarksAreFresh'
  BY <1>1 DEF WatermarksAreFresh, InScan, Loaded
<1>3. OpeningIsRunning' /\ ScanIsCovered'
  BY <1>1 DEF OpeningIsRunning, ScanIsCovered
<1>4. SucceededChatIsScanned' /\ FloorsMatch' /\ NoGapBelowWatermark'
  BY DEF SucceededChatIsScanned, FloorsMatch, NoGapBelowWatermark, OnlyIncremental
<1>5. AbsentIsIncremental' /\ Greatest'
  BY DEF AbsentIsIncremental, Greatest
<1>6. QED
  BY <1>2, <1>3, <1>4, <1>5

(* The next chat is taken from those the run has to do. *)
LEMMA BeginKeepsScan ==
  ASSUME ScanInv, NEW j \in Job, ChatBegin(j)
  PROVE  ScanParts'
<1> USE DEF ScanInv, ScanParts, jobVars, linkVars, scanVars
<1>1. PICK c \in run[j].todo :
        /\ chatStatus' = [chatStatus EXCEPT ![j][c] = "RUNNING"]
        /\ Local(j, [run[j] EXCEPT !.todo = @ \ {c}, !.chat = c,
                                   !.maxMessageId = Baseline(run[j], c),
                                   !.counters = Zero])
  BY DEF ChatBegin
<1>2. runPc[j] = "chats" /\ (Goto(j, "opening") \/ Goto(j, "failing"))
  BY DEF ChatBegin, Answered, Handler, ChatPc
<1>3. c \in Chat /\ run[j].lastSynced[c] = lastSyncedMessageId[c]
  BY <1>2 DEF WatermarksAreFresh, Loaded, TypeInv, TypeOK, RunTypeOK, Locals
<1>4. run \in [Job -> Locals] /\ runPc \in [Job -> RunPc] /\ chatStatus \in [Job -> [Chat -> ChatStatus]]
  BY DEF TypeInv, TypeOK, RunTypeOK, ChatTypeOK
<1>5. /\ run'[j].todo = run[j].todo \ {c} /\ run'[j].chat = c
      /\ run'[j].maxMessageId = run[j].lastSynced[c]
      /\ run'[j].lastSynced = run[j].lastSynced
      /\ runPc'[j] \in {"opening", "failing"}
      /\ \A k \in Job : k # j => runPc'[k] = "off"
  BY <1>1, <1>2, <1>4, Alone DEF Local, Goto, Baseline, Locals
<1>6. UNCHANGED <<mode, status, lastSyncedMessageId, scan, scanFloor, stored,
                  maxProcessedMessageId>>
  BY DEF ChatBegin
<1>7. WatermarksAreFresh'
  BY <1>2, <1>3, <1>5, <1>6 DEF WatermarksAreFresh, Loaded, InScan
<1>8. OpeningIsRunning'
  BY <1>1, <1>3, <1>4, <1>5 DEF OpeningIsRunning
<1>9. ScanIsCovered'
  BY <1>5 DEF ScanIsCovered
<1>10. SucceededChatIsScanned'
  BY <1>1, <1>3, <1>4, <1>6 DEF SucceededChatIsScanned
<1>11. FloorsMatch' /\ NoGapBelowWatermark' /\ AbsentIsIncremental' /\ Greatest'
  BY <1>6 DEF FloorsMatch, NoGapBelowWatermark, OnlyIncremental, AbsentIsIncremental, Greatest
<1>12. QED
  BY <1>7, <1>8, <1>9, <1>10, <1>11

(* A scan opens: it has covered nothing yet.  An incremental one starts    *)
(* right above the watermark.                                              *)
LEMMA OpenKeepsScan ==
  ASSUME ScanInv, NEW j \in Job, ChatOpen(j)
  PROVE  ScanParts'
<1> DEFINE c == run[j].chat
<1> USE DEF ScanInv, ScanParts, jobVars, chatVars, linkVars
<1>1. CASE c \notin entities
  <2>1. UNCHANGED <<run, scan>> /\ Goto(j, "failingChat") /\ runPc[j] = "opening"
    BY <1>1 DEF ChatOpen
  <2>2. \A k \in Job : \/ runPc'[k] \notin InScan /\ runPc[k] \in Loaded
                       \/ runPc'[k] = runPc[k]
    BY <2>1 DEF Goto, InScan, Loaded, TypeInv, TypeOK, RunTypeOK
  <2>3. QED
    BY <2>1, <2>2, QuietKeepsScan DEF ChatOpen
<1>2. CASE c \in entities
  <2>1. PICK b \in Ranges(mode[j], run[j].lastSynced[c], posted[c]) :
          /\ Local(j, [run[j] EXCEPT !.cursor = b[2], !.lowest = b[1]])
          /\ scan' = [scan EXCEPT ![j][c] = b]
          /\ Goto(j, "scanning")
    BY <1>2 DEF ChatOpen
  <2>2. /\ run \in [Job -> Locals] /\ runPc \in [Job -> RunPc]
        /\ posted \in [Chat -> 0..MaxMsg] /\ lastSyncedMessageId \in [Chat -> 0..MaxMsg]
        /\ scan \in [Job -> [Chat -> (1..MaxMsg+1) \X (0..MaxMsg)]]
    BY DEF TypeInv, TypeOK, RunTypeOK, WorldTypeOK, ScanTypeOK
  <2>3. /\ c \in Chat \ run[j].todo /\ run[j].lastSynced[c] = lastSyncedMessageId[c]
        /\ chatStatus[j][c] = "RUNNING" /\ run[j].maxMessageId = run[j].lastSynced[c]
        /\ runPc[j] = "opening"
    BY DEF ChatOpen, WatermarksAreFresh, OpeningIsRunning, InScan
  <2>4. b \in (1..MaxMsg+1) \X (0..MaxMsg)
    BY <2>2, <2>3, RangesTyped DEF Locals
  <2>5. /\ run'[j] = [run[j] EXCEPT !.cursor = b[2], !.lowest = b[1]]
        /\ runPc'[j] = "scanning" /\ scan'[j][c] = b
        /\ \A k \in Job : k # j => runPc'[k] = "off"
        /\ \A k \in Job, d \in Chat : k # j \/ d # c => scan'[k][d] = scan[k][d]
    BY <2>1, <2>2, <2>3, Alone DEF Local, Goto
  <2>6. /\ run'[j].chat = c /\ run'[j].todo = run[j].todo
        /\ run'[j].lastSynced = run[j].lastSynced /\ run'[j].maxMessageId = run[j].maxMessageId
        /\ run'[j].cursor = b[2] /\ run'[j].lowest = b[1]
    BY <2>2, <2>5 DEF Locals
  <2>7. UNCHANGED <<mode, status, lastSyncedMessageId, scanFloor, stored, chatStatus,
                    maxProcessedMessageId>>
    BY DEF ChatOpen
  <2>8. mode[j] = "SINCE_LAST" /\ run[j].lastSynced[c] # 0 => b[1] = run[j].lastSynced[c] + 1
    BY DEF Ranges
  <2>9. WatermarksAreFresh' /\ OpeningIsRunning'
    <3>1. \A d \in run[j].todo : run[j].lastSynced[d] = lastSyncedMessageId[d]
      BY <2>3 DEF WatermarksAreFresh, Loaded
    <3> HIDE DEF c
    <3>2. /\ run'[j].chat \in Chat \ run'[j].todo
          /\ run'[j].lastSynced[run'[j].chat] = lastSyncedMessageId'[run'[j].chat]
          /\ \A d \in run'[j].todo : run'[j].lastSynced[d] = lastSyncedMessageId'[d]
      BY <2>3, <2>6, <2>7, <3>1
    <3>3. \A k \in Job : k # j => runPc'[k] \notin Loaded \union InScan
      BY <2>5 DEF Loaded, InScan
    <3>4. QED
      BY <2>5, <3>2, <3>3 DEF WatermarksAreFresh, OpeningIsRunning, Loaded, InScan
  <2>10. Covered(run[j], scan[j][c])'
    <3>1. run[j].maxMessageId \in 0..MaxMsg /\ b[2] \in 0..MaxMsg
      BY <2>2, <2>4 DEF Locals
    <3>2. QED
      BY <2>3, <2>5, <2>6, <3>1 DEF Covered
  <2>11. ScanIsCovered'
    <3>1. \A k \in Job : runPc'[k] \in {"scanning", "completing"} => k = j
      BY <2>5
    <3>2. Covered(run[j], scan[j][run[j].chat])'
      BY <2>6, <2>10
    <3>3. /\ runPc'[j] # "completing"
          /\ mode'[j] = "SINCE_LAST" /\ run'[j].lastSynced[run'[j].chat] # 0 =>
               run'[j].lowest = run'[j].lastSynced[run'[j].chat] + 1
      BY <2>5, <2>6, <2>7, <2>8
    <3> HIDE DEF c
    <3>4. QED
      BY <3>1, <3>2, <3>3 DEF ScanIsCovered
  <2>12. SucceededChatIsScanned'
    BY <2>3, <2>5, <2>7 DEF SucceededChatIsScanned
  <2>13. FloorsMatch' /\ NoGapBelowWatermark' /\ AbsentIsIncremental' /\ Greatest'
    BY <2>7 DEF FloorsMatch, NoGapBelowWatermark, OnlyIncremental, AbsentIsIncremental,
                Greatest
  <2>14. QED
    BY <2>9, <2>11, <2>12, <2>13
<1>3. QED
  BY <1>1, <1>2

(* A message moves a scan one id down, or ends it. *)
LEMMA ReceiveKeepsScan ==
  ASSUME ScanInv, NEW j \in Job, NEW n, NEW u,
         runPc[j] = "scanning", run[j].cursor >= run[j].lowest,
         Local(j, Received(run[j], n, u)),
         stored \subseteq stored',
         \/ /\ UNCHANGED runPc
            /\ DomainsOf[run[j].chat][run[j].cursor] # {} =>
                 <<run[j].chat, run[j].cursor>> \in stored'
         \/ Goto(j, "failingChat"),
         UNCHANGED <<mode, status, lastSyncedMessageId, scan, scanFloor, chatStatus,
                     maxProcessedMessageId>>
  PROVE  ScanParts'
<1> USE DEF ScanInv, ScanParts
<1>1. /\ run \in [Job -> Locals] /\ runPc \in [Job -> RunPc]
      /\ scan \in [Job -> [Chat -> (1..MaxMsg+1) \X (0..MaxMsg)]]
  BY DEF TypeInv, TypeOK, RunTypeOK, ScanTypeOK
<1>2. /\ run'[j].chat = run[j].chat /\ run'[j].todo = run[j].todo
      /\ run'[j].lastSynced = run[j].lastSynced /\ run'[j].lowest = run[j].lowest
      /\ run'[j].cursor = run[j].cursor - 1
      /\ run'[j].maxMessageId = Max2(run[j].maxMessageId, run[j].cursor)
  BY <1>1 DEF Local, Received, Locals
<1>3. /\ runPc'[j] \in {"scanning", "failingChat"}
      /\ \A k \in Job : k # j => runPc'[k] = "off"
  BY <1>1, Alone DEF Goto
<1>4. WatermarksAreFresh'
  <2>1. /\ run[j].chat \in Chat \ run[j].todo
        /\ run[j].lastSynced[run[j].chat] = lastSyncedMessageId[run[j].chat]
        /\ \A c \in run[j].todo : run[j].lastSynced[c] = lastSyncedMessageId[c]
    BY DEF WatermarksAreFresh, Loaded, InScan
  <2>2. QED
    BY <1>2, <1>3, <2>1 DEF WatermarksAreFresh, Loaded, InScan
<1>5. OpeningIsRunning'
  BY <1>3 DEF OpeningIsRunning
<1>6. ASSUME runPc'[j] = "scanning"
      PROVE  Covered(run[j], scan[j][run[j].chat])'
  <2> DEFINE l == run[j]
             b == scan[j][l.chat]
  <2>1. Covered(l, b)
    BY DEF ScanIsCovered
  <2>2. /\ l.chat \in Chat /\ l.cursor \in 0..MaxMsg /\ l.maxMessageId \in 0..MaxMsg
        /\ b[2] \in 0..MaxMsg /\ l.lastSynced[l.chat] \in 0..MaxMsg
    <3>1. l.chat \in Chat
      BY DEF WatermarksAreFresh, InScan
    <3>2. QED
      BY <1>1, <3>1 DEF Locals
  <2>3. DomainsOf[l.chat][l.cursor] # {} => <<l.chat, l.cursor>> \in stored'
    BY <1>1, <1>6 DEF Goto
  <2> HIDE DEF l, b
  <2>4. run'[j].maxMessageId = Max2(l.maxMessageId, l.cursor) /\ scan'[j][run'[j].chat] = b
        /\ run'[j].chat = l.chat /\ run'[j].lastSynced = l.lastSynced
        /\ run'[j].lowest = l.lowest /\ run'[j].cursor = l.cursor - 1
    BY <1>2 DEF l, b
  <2>5. \A m \in l.cursor..b[2] : DomainsOf[l.chat][m] # {} => <<l.chat, m>> \in stored'
    BY <2>1, <2>2, <2>3 DEF Covered
  <2>6. /\ Max2(l.maxMessageId, l.cursor) \in {l.lastSynced[l.chat], b[2]}
        /\ Max2(l.maxMessageId, l.cursor) >= l.lastSynced[l.chat]
        /\ Max2(l.maxMessageId, l.cursor) >= b[2]
    BY <2>1, <2>2, ConstantsAssumption DEF Covered, Max2
  <2>7. QED
    BY <2>1, <2>2, <2>4, <2>5, <2>6 DEF Covered
<1>7. ScanIsCovered'
  <2>1. mode'[j] = "SINCE_LAST" /\ run'[j].lastSynced[run'[j].chat] # 0 =>
          run'[j].lowest = run'[j].lastSynced[run'[j].chat] + 1
    BY <1>2 DEF ScanIsCovered
  <2>2. \A k \in Job : runPc'[k] \in {"scanning", "completing"} =>
          k = j /\ runPc'[k] = "scanning"
    BY <1>3
  <2>3. QED
    BY <1>6, <2>1, <2>2 DEF ScanIsCovered
<1>8. SucceededChatIsScanned' /\ NoGapBelowWatermark'
  BY DEF SucceededChatIsScanned, NoGapBelowWatermark, OnlyIncremental
<1>9. FloorsMatch' /\ AbsentIsIncremental' /\ Greatest'
  BY DEF FloorsMatch, AbsentIsIncremental, Greatest
<1>10. QED
  BY <1>4, <1>5, <1>7, <1>8, <1>9

LEMMA MessageKeepsScan ==
  ASSUME ScanInv, NEW j \in Job, ChatMessage(j) \/ ChatMessageFails(j) \/ ChatExhausted(j)
  PROVE  ScanParts'
<1>1. CASE ChatMessage(j)
  <2>1. /\ runPc[j] = "scanning" /\ run[j].cursor >= run[j].lowest
        /\ UNCHANGED <<mode, status, lastSyncedMessageId, scan, scanFloor, chatStatus,
                       maxProcessedMessageId>>
    BY <1>1 DEF ChatMessage, jobVars, chatVars, scanVars
  <2>2. stored' = IF DomainsOf[run[j].chat][run[j].cursor] = {} THEN stored
                  ELSE stored \union {<<run[j].chat, run[j].cursor>>}
    BY <1>1 DEF ChatMessage
  <2>3. \E n, u : /\ Local(j, Received(run[j], n, u))
                  /\ UNCHANGED runPc \/ Goto(j, "failingChat")
    BY <1>1 DEF ChatMessage
  <2>4. QED
    BY <2>1, <2>2, <2>3, ReceiveKeepsScan
<1>2. CASE ChatMessageFails(j)
  BY <1>2, ReceiveKeepsScan
  DEF ChatMessageFails, jobVars, chatVars, scanVars, linkVars
<1>3. CASE ChatExhausted(j)
  <2> USE DEF ScanInv, ScanParts, ChatExhausted, jobVars, chatVars, linkVars, scanVars
  <2>1. /\ runPc[j] = "scanning" /\ runPc'[j] = "completing"
        /\ \A k \in Job : k # j => runPc'[k] = runPc[k]
        /\ run[j].cursor < run[j].lowest
    BY <1>3 DEF Goto, TypeInv, TypeOK, RunTypeOK
  <2>2. WatermarksAreFresh' /\ OpeningIsRunning'
    BY <1>3, <2>1 DEF WatermarksAreFresh, OpeningIsRunning, Loaded, InScan
  <2>3. ScanIsCovered'
    BY <1>3, <2>1 DEF ScanIsCovered, Covered
  <2>4. SucceededChatIsScanned' /\ NoGapBelowWatermark'
    BY <1>3 DEF SucceededChatIsScanned, NoGapBelowWatermark, OnlyIncremental
  <2>5. FloorsMatch' /\ AbsentIsIncremental' /\ Greatest'
    BY <1>3 DEF FloorsMatch, AbsentIsIncremental, Greatest
  <2>6. QED
    BY <2>2, <2>3, <2>4, <2>5
<1>4. QED
  BY <1>1, <1>2, <1>3

(* A complete scan has read everything between the old watermark and the   *)
(* new one, and the new one is no lower.                                   *)
LEMMA CompleteKeepsScan ==
  ASSUME ScanInv, NEW j \in Job, ChatComplete(j)
  PROVE  /\ ScanParts'
         /\ \A c \in Chat : lastSyncedMessageId'[c] >= lastSyncedMessageId[c]
<1> DEFINE l == run[j]
           c == l.chat
           w == l.maxMessageId
           b == scan[j][c]
           last == lastSyncedMessageId[c]
<1> USE DEF ScanInv, ScanParts
<1>1. /\ run \in [Job -> Locals] /\ runPc \in [Job -> RunPc]
      /\ scan \in [Job -> [Chat -> (1..MaxMsg+1) \X (0..MaxMsg)]]
      /\ lastSyncedMessageId \in [Chat -> 0..MaxMsg]
      /\ scanFloor \in [Chat -> 0..MaxMsg+1]
      /\ maxProcessedMessageId \in [Job -> [Chat -> 0..MaxMsg]]
      /\ chatStatus \in [Job -> [Chat -> ChatStatus]]
  BY DEF TypeInv, TypeOK, RunTypeOK, ScanTypeOK, ChatTypeOK
<1>2. /\ runPc[j] = "completing"
      /\ chatStatus' = [chatStatus EXCEPT ![j][c] = "SUCCEEDED"]
      /\ maxProcessedMessageId' = [maxProcessedMessageId EXCEPT ![j][c] = w]
      /\ lastSyncedMessageId' = IF w = 0 THEN lastSyncedMessageId
                                ELSE [lastSyncedMessageId EXCEPT ![c] = w]
      /\ scanFloor' = IF w = 0 \/ scanFloor[c] # 0 THEN scanFloor
                      ELSE [scanFloor EXCEPT ![c] = l.lowest]
      /\ Goto(j, "counting") \/ Goto(j, "failingChat")
      /\ UNCHANGED <<mode, status, stored, scan, run>>
  BY DEF ChatComplete, Answered, Handler, ChatPc, jobVars, linkVars
<1>3. /\ runPc'[j] \in {"counting", "failingChat"}
      /\ \A k \in Job : k # j => runPc'[k] = "off"
  BY <1>1, <1>2, Alone DEF Goto
<1>4. /\ c \in Chat \ l.todo /\ l.lastSynced[c] = last
      /\ \A d \in l.todo : l.lastSynced[d] = lastSyncedMessageId[d]
      /\ Covered(l, b) /\ l.cursor < l.lowest
      /\ mode[j] = "SINCE_LAST" /\ last # 0 => l.lowest = last + 1
  BY <1>2 DEF WatermarksAreFresh, ScanIsCovered, Loaded, InScan
<1>5. /\ l.lowest \in 1..MaxMsg+1 /\ l.cursor \in 0..MaxMsg /\ w \in 0..MaxMsg
      /\ b[1] \in 1..MaxMsg+1 /\ b[2] \in 0..MaxMsg /\ last \in 0..MaxMsg
      /\ l.todo \subseteq Chat
  BY <1>1, <1>4 DEF Locals
<1>6. /\ \A m \in l.lowest..b[2] : DomainsOf[c][m] # {} => <<c, m>> \in stored
      /\ w \in {last, b[2]} /\ w >= last /\ l.lowest = b[1]
  <2>1. /\ \A m \in l.cursor + 1..b[2] : DomainsOf[c][m] # {} => <<c, m>> \in stored
        /\ w \in {last, b[2]} /\ w >= last /\ l.lowest = b[1]
    BY <1>4 DEF Covered
  <2> HIDE DEF l, c, w, b, last
  <2>2. QED
    BY <1>4, <1>5, <2>1, ConstantsAssumption
<1> HIDE DEF l, c, w, b, last
<1>7. /\ lastSyncedMessageId'[c] = w
      /\ \A d \in Chat \ {c} : lastSyncedMessageId'[d] = lastSyncedMessageId[d]
  BY <1>1, <1>2, <1>4, <1>5, <1>6 DEF last
<1>8. WatermarksAreFresh'
  <2>1. run'[j].todo = l.todo /\ run'[j].lastSynced = l.lastSynced
    BY <1>2 DEF l
  <2>2. \A d \in l.todo : l.lastSynced[d] = lastSyncedMessageId'[d]
    BY <1>4, <1>5, <1>7
  <2>3. QED
    BY <1>3, <2>1, <2>2 DEF WatermarksAreFresh, Loaded, InScan
<1>9. OpeningIsRunning' /\ ScanIsCovered'
  BY <1>3 DEF OpeningIsRunning, ScanIsCovered
<1>10. SucceededChatIsScanned'
  <2> SUFFICES ASSUME NEW k \in Job, NEW d \in Chat, chatStatus'[k][d] = "SUCCEEDED",
                      NEW m \in scan'[k][d][1]..scan'[k][d][2], DomainsOf[d][m] # {}
               PROVE  <<d, m>> \in stored'
    BY DEF SucceededChatIsScanned
  <2>1. CASE k = j /\ d = c
    BY <1>2, <1>6, <2>1 DEF b
  <2>2. CASE k # j \/ d # c
    <3>1. chatStatus[k][d] = "SUCCEEDED"
      BY <1>1, <1>2, <1>4, <2>2
    <3>2. QED
      BY <1>2, <3>1 DEF SucceededChatIsScanned
  <2>3. QED
    BY <2>1, <2>2
<1>11. /\ scanFloor'[c] = IF w = 0 \/ scanFloor[c] # 0 THEN scanFloor[c] ELSE l.lowest
       /\ \A d \in Chat \ {c} : scanFloor'[d] = scanFloor[d]
  BY <1>1, <1>2, <1>4
<1>12. (scanFloor[c] = 0) <=> (last = 0)
  BY <1>4 DEF FloorsMatch, last
<1>13. FloorsMatch'
  BY <1>4, <1>5, <1>6, <1>7, <1>11, <1>12 DEF FloorsMatch
<1>14. AbsentIsIncremental'
  BY <1>2 DEF AbsentIsIncremental
<1>15. Greatest'
  <2>1. /\ maxProcessedMessageId'[j][c] = w
        /\ \A k \in Job, d \in Chat : k # j \/ d # c =>
             maxProcessedMessageId'[k][d] = maxProcessedMessageId[k][d]
        /\ \A k \in Job, d \in Chat : maxProcessedMessageId[k][d] \in 0..MaxMsg
    BY <1>1, <1>2, <1>4
  <2>2. \A k \in Job : maxProcessedMessageId[k][c] <= last
    BY <1>4 DEF Greatest, last
  <2>3. \A k \in Job : maxProcessedMessageId'[k][c] <= w
    BY <1>4, <1>5, <1>6, <2>1, <2>2
  <2>4. \A d \in Chat \ {c} :
          /\ \A k \in Job : maxProcessedMessageId'[k][d] <= lastSyncedMessageId'[d]
          /\ lastSyncedMessageId'[d] = 0
             \/ \E k \in Job : maxProcessedMessageId'[k][d] = lastSyncedMessageId'[d]
    BY <1>7, <2>1 DEF Greatest
  <2>5. QED
    BY <1>7, <2>1, <2>3, <2>4 DEF Greatest
<1>16. NoGapBelowWatermark'
  <2> SUFFICES ASSUME OnlyIncremental, NEW d \in Chat, scanFloor'[d] # 0,
                      NEW m \in scanFloor'[d]..lastSyncedMessageId'[d], DomainsOf[d][m] # {}
               PROVE  <<d, m>> \in stored
    BY <1>2 DEF NoGapBelowWatermark, OnlyIncremental
  <2>1. CASE d # c
    BY <1>7, <1>11, <2>1 DEF NoGapBelowWatermark
  <2>2. CASE d = c /\ last # 0
    <3>1. m \in scanFloor[c]..last \/ m \in last+1..w
      BY <1>1, <1>4, <1>5, <1>7, <1>11, <1>12, <2>2
    <3>2. CASE m \in scanFloor[c]..last
      BY <1>4, <1>12, <2>2, <3>2 DEF NoGapBelowWatermark, last
    <3>3. CASE m \in last+1..w
      <4>1. l.lowest = last + 1
        BY <1>4, <2>2 DEF OnlyIncremental
      <4>2. m \in l.lowest..b[2]
        BY <1>5, <1>6, <3>3, <4>1
      <4>3. QED
        BY <1>6, <2>2, <4>2
    <3>4. QED
      BY <3>1, <3>2, <3>3
  <2>3. CASE d = c /\ last = 0
    <3>1. m \in l.lowest..w /\ w # 0
      BY <1>5, <1>7, <1>11, <1>12, <2>3
    <3>2. m \in l.lowest..b[2]
      BY <1>6, <2>3, <3>1
    <3>3. QED
      BY <1>6, <2>3, <3>2
  <2>4. QED
    BY <2>1, <2>2, <2>3
<1>17. \A d \in Chat : lastSyncedMessageId'[d] >= lastSyncedMessageId[d]
  <2> SUFFICES ASSUME NEW d \in Chat
               PROVE  lastSyncedMessageId'[d] >= lastSyncedMessageId[d]
    OBVIOUS
  <2>1. CASE d = c
    <3>1. lastSyncedMessageId[d] = last /\ lastSyncedMessageId'[d] = w
      BY <1>7, <2>1 DEF last
    <3>2. QED
      BY <1>6, <3>1
  <2>2. CASE d # c
    BY <1>1, <1>7, <2>2, ConstantsAssumption
  <2>3. QED
    BY <2>1, <2>2
<1>18. QED
  BY <1>8, <1>9, <1>10, <1>13, <1>14, <1>15, <1>16, <1>17

LEMMA FailKeepsScan ==
  ASSUME ScanInv, NEW j \in Job, ChatFail(j)
  PROVE  ScanParts'
<1> USE DEF ScanInv, ScanParts, ChatFail, jobVars, linkVars, scanVars
<1>1. /\ runPc'[j] \in {"counting", "failing"} /\ runPc[j] = "failingChat"
      /\ \A k \in Job : k # j => runPc'[k] = "off"
  BY Alone DEF Answered, Handler, ChatPc, Goto, TypeInv, TypeOK, RunTypeOK
<1>2. WatermarksAreFresh'
  BY <1>1 DEF WatermarksAreFresh, Loaded, InScan
<1>3. OpeningIsRunning' /\ ScanIsCovered'
  BY <1>1 DEF OpeningIsRunning, ScanIsCovered
<1>4. SucceededChatIsScanned'
  BY DEF SucceededChatIsScanned, TypeInv, TypeOK, ChatTypeOK
<1>5. FloorsMatch' /\ NoGapBelowWatermark' /\ AbsentIsIncremental' /\ Greatest'
  BY DEF FloorsMatch, NoGapBelowWatermark, OnlyIncremental, AbsentIsIncremental, Greatest
<1>6. QED
  BY <1>2, <1>3, <1>4, <1>5

-----------------------------------------------------------------------------
(* Requests, restarts and the world. *)
LEMMA CreateKeepsScan ==
  ASSUME ScanInv, NEW r \in Request,
         \/ CreateEnter(r) \/ CreateRefuse(r) \/ CreateCheck(r)
         \/ CreateLookUp(r) \/ CreateInsert(r)
  PROVE  ScanParts'
<1> USE DEF ScanInv, jobVars, chatVars, linkVars, scanVars, runVars
<1>1. CASE CreateEnter(r)
  BY <1>1, QuietKeepsScan DEF CreateEnter
<1>2. CASE CreateRefuse(r)
  BY <1>2, QuietKeepsScan DEF CreateRefuse
<1>3. CASE CreateCheck(r)
  BY <1>3, QuietKeepsScan DEF CreateCheck
<1>4. CASE CreateLookUp(r)
  BY <1>4, QuietKeepsScan DEF CreateLookUp
<1>5. CASE CreateInsert(r)
  <2> USE DEF ScanParts
  <2>1. PICK j \in Job, m \in Modes :
          /\ status[j] = "ABSENT"
          /\ status' = [status EXCEPT ![j] = "QUEUED"]
          /\ mode' = [mode EXCEPT ![j] = m]
          /\ chatStatus' = [chatStatus EXCEPT ![j] =
                              [c \in Chat |-> IF c \in reqChats[r] THEN "PENDING"
                                                                    ELSE "ABSENT"]]
    BY <1>5 DEF CreateInsert
  <2>2. \A k \in Job : runPc[k] = "off"
    BY <1>5 DEF CreateInsert, ControlInv, CheckedIsClear
  <2>3. /\ status \in [Job -> Lifecycle!Status] /\ mode \in [Job -> RangeMode]
        /\ chatStatus \in [Job -> [Chat -> ChatStatus]]
    BY DEF TypeInv, TypeOK, JobTypeOK, ChatTypeOK
  <2>4. UNCHANGED <<runPc, run, stored, lastSyncedMessageId, scan, scanFloor,
                    maxProcessedMessageId>>
    BY <1>5 DEF CreateInsert
  <2>5. WatermarksAreFresh' /\ OpeningIsRunning' /\ ScanIsCovered'
    BY <2>2, <2>4 DEF WatermarksAreFresh, OpeningIsRunning, ScanIsCovered, Loaded, InScan
  <2>6. SucceededChatIsScanned'
    BY <2>1, <2>3, <2>4 DEF SucceededChatIsScanned
  <2>7. OnlyIncremental' => OnlyIncremental
    BY <2>1, <2>3 DEF OnlyIncremental, AbsentIsIncremental
  <2>8. AbsentIsIncremental'
    BY <2>1, <2>3 DEF AbsentIsIncremental
  <2>9. FloorsMatch' /\ Greatest' /\ NoGapBelowWatermark'
    BY <2>4, <2>7 DEF FloorsMatch, Greatest, NoGapBelowWatermark
  <2>10. QED
    BY <2>5, <2>6, <2>8, <2>9
<1>6. QED
  BY <1>1, <1>2, <1>3, <1>4, <1>5

LEMMA WorldKeepsScan ==
  ASSUME ScanInv,
         \/ Crash \/ Boot \/ AdminRefresh \/ Disconnect
         \/ \E j \in Job : RunFailFails(j)
         \/ \E c \in Chat : Post(c)
  PROVE  ScanParts'
<1> USE DEF ScanInv, jobVars, chatVars, linkVars, scanVars, runVars
<1>1. CASE Down
  BY <1>1, QuietKeepsScan DEF Down, Loaded
<1>2. CASE Boot
  BY <1>2, QuietKeepsScan DEF Boot
<1>3. CASE AdminRefresh \/ Disconnect \/ \E c \in Chat : Post(c)
  BY <1>3, QuietKeepsScan DEF AdminRefresh, Disconnect, Post
<1>4. QED
  BY <1>1, <1>2, <1>3 DEF Crash, RunFailFails

LEMMA NextKeepsScan == ScanInv /\ [Next]_vars => ScanInv'
<1> SUFFICES ASSUME ScanInv, [Next]_vars
             PROVE  ScanParts'
  BY NextKeepsControl, NextTyped DEF ScanInv
<1>1. ASSUME NEW r \in Request,
             \/ CreateEnter(r) \/ CreateRefuse(r) \/ CreateCheck(r)
             \/ CreateLookUp(r) \/ CreateInsert(r)
      PROVE  ScanParts'
  BY <1>1, CreateKeepsScan
<1>2. ASSUME NEW j \in Job, RunStep(j) \/ RunCallFails(j) \/ ChatMessageFails(j)
      PROVE  ScanParts'
  BY <1>2, JobStepKeepsScan, LoadKeepsScan, BeginKeepsScan, OpenKeepsScan,
     MessageKeepsScan, CompleteKeepsScan, FailKeepsScan DEF RunStep
<1>3. CASE \/ Crash \/ Boot \/ AdminRefresh \/ Disconnect
           \/ \E j \in Job : RunFailFails(j)
           \/ \E c \in Chat : Post(c)
  BY <1>3, WorldKeepsScan
<1>4. CASE UNCHANGED vars
  BY <1>4, QuietKeepsScan
  DEF ScanInv, vars, jobVars, chatVars, linkVars, scanVars, runVars
<1>5. QED
  BY <1>1, <1>2, <1>3, <1>4 DEF Next

LEMMA InitScan == Init => ScanInv
<1> SUFFICES ASSUME Init
             PROVE  ScanParts
  BY InitControl, InitTyped DEF ScanInv
<1>1. WatermarksAreFresh /\ OpeningIsRunning /\ ScanIsCovered
  BY DEF Init, WatermarksAreFresh, OpeningIsRunning, ScanIsCovered, Loaded, InScan
<1>2. SucceededChatIsScanned /\ FloorsMatch /\ NoGapBelowWatermark
  BY DEF Init, SucceededChatIsScanned, FloorsMatch, NoGapBelowWatermark
<1>3. AbsentIsIncremental /\ Greatest
  BY DEF Init, AbsentIsIncremental, Greatest
<1>4. QED
  BY <1>1, <1>2, <1>3 DEF ScanParts

(* The inductive invariant of runChat, for any number of jobs, chats and   *)
(* messages: the run alone moves watermarks, a scan has stored everything  *)
(* from its cursor up, and it completes only below its lowest id.          *)
THEOREM ScanInvariant == Spec => []ScanInv
<1>1. QED
  BY InitScan, NextKeepsScan, PTL DEF Spec

(* A chat whose row says SUCCEEDED was scanned in full over the ids its    *)
(* scan opened with, whatever failed or arrived (runChat).                 *)
THEOREM SucceededChatIsScannedHolds == Spec => []SucceededChatIsScanned
<1>1. ScanInv => SucceededChatIsScanned
  BY DEF ScanInv, ScanParts
<1>2. QED
  BY <1>1, ScanInvariant, PTL

(* Incremental synchronisation leaves no gap below the watermark, through  *)
(* any number of jobs, failures, lost answers and crashes.                 *)
THEOREM NoGapHolds == Spec => []NoGapBelowWatermark
<1>1. ScanInv => NoGapBelowWatermark
  BY DEF ScanInv, ScanParts
<1>2. QED
  BY <1>1, ScanInvariant, PTL

LEMMA OthersKeepWatermarks ==
  ASSUME [Next]_vars, ~\E j \in Job : ChatComplete(j)
  PROVE  UNCHANGED lastSyncedMessageId
<1> USE DEF scanVars
<1>1. ASSUME NEW r \in Request,
             \/ CreateEnter(r) \/ CreateRefuse(r) \/ CreateCheck(r)
             \/ CreateLookUp(r) \/ CreateInsert(r)
      PROVE  UNCHANGED lastSyncedMessageId
  BY <1>1 DEF CreateEnter, CreateRefuse, CreateCheck, CreateLookUp, CreateInsert
<1>2. ASSUME NEW j \in Job,
             \/ RunStart(j) \/ RunConnect(j) \/ RunRefresh(j) \/ RunLoad(j) \/ RunRead(j)
             \/ RunCount(j) \/ RunDeduplicate(j) \/ RunFinish(j) \/ RunFail(j) \/ RunEnd(j)
             \/ RunCallFails(j) \/ RunFailFails(j)
      PROVE  UNCHANGED lastSyncedMessageId
  BY <1>2 DEF RunStart, RunConnect, RunRefresh, RunLoad, RunRead, RunCount, RunDeduplicate,
     RunFinish, RunFail, RunEnd, RunCallFails, RunFailFails, Crash, Down
<1>3. ASSUME NEW j \in Job,
             \/ ChatBegin(j) \/ ChatOpen(j) \/ ChatMessage(j) \/ ChatMessageFails(j)
             \/ ChatExhausted(j) \/ ChatFail(j)
      PROVE  UNCHANGED lastSyncedMessageId
  BY <1>3 DEF ChatBegin, ChatOpen, ChatMessage, ChatMessageFails, ChatExhausted, ChatFail
<1>4. CASE Crash \/ Boot \/ AdminRefresh \/ Disconnect \/ \E c \in Chat : Post(c)
  BY <1>4 DEF Crash, Down, Boot, AdminRefresh, Disconnect, Post
<1>5. CASE UNCHANGED vars
  BY <1>5 DEF vars
<1>6. QED
  BY <1>1, <1>2, <1>3, <1>4, <1>5 DEF Next, RunStep

(* TelegramChat.lastSyncedMessageId never moves back: runChat writes the   *)
(* greater of what it read and what it saw, and nobody wrote in between.   *)
THEOREM WatermarkMonotoneHolds == Spec => WatermarkMonotone
<1>1. ASSUME ScanInv, [Next]_vars
      PROVE  [\A c \in Chat : lastSyncedMessageId'[c] >= lastSyncedMessageId[c]]_vars
  <2>1. CASE \E j \in Job : ChatComplete(j)
    BY <1>1, <2>1, CompleteKeepsScan
  <2>2. CASE ~\E j \in Job : ChatComplete(j)
    <3>1. UNCHANGED lastSyncedMessageId
      BY <1>1, <2>2, OthersKeepWatermarks
    <3>2. lastSyncedMessageId \in [Chat -> 0..MaxMsg]
      BY <1>1 DEF ScanInv, TypeInv, TypeOK, ScanTypeOK
    <3>3. QED
      BY <3>1, <3>2, ConstantsAssumption
  <2>3. QED
    BY <2>1, <2>2
<1>2. QED
  BY <1>1, ScanInvariant, PTL DEF Spec, WatermarkMonotone

(* The two tables agree on how far a chat has been read (lines 276-293     *)
(* write both in one transaction).                                         *)
THEOREM WatermarkIsGreatestHolds == Spec => []WatermarkIsGreatestProcessed
<1>1. ASSUME ScanInv
      PROVE  WatermarkIsGreatestProcessed
  <2> SUFFICES ASSUME NEW c \in Chat
               PROVE  lastSyncedMessageId[c] =
                        Max({maxProcessedMessageId[j][c] : j \in Job} \union {0})
    BY DEF WatermarkIsGreatestProcessed
  <2> DEFINE S == {maxProcessedMessageId[j][c] : j \in Job} \union {0}
             w == lastSyncedMessageId[c]
  <2>1. w \in Nat /\ \A x \in S : x \in Nat
    BY <1>1, ConstantsAssumption DEF ScanInv, TypeInv, TypeOK, ScanTypeOK, ChatTypeOK
  <2>2. w \in S /\ \A x \in S : x <= w
    BY <1>1, <2>1 DEF ScanInv, ScanParts, Greatest
  <2> HIDE DEF S, w
  <2>3. \A x \in S : (\A y \in S : x >= y) => x = w
    BY <2>1, <2>2
  <2>4. Max(S) = w
    BY <2>1, <2>2, <2>3 DEF Max
  <2>5. QED
    BY <2>4 DEF S, w
<1>2. QED
  BY <1>1, ScanInvariant, PTL
-----------------------------------------------------------------------------
(***************************************************************************)
(* What the rows say of a job and its end.  Two of the results need calls  *)
(* whose answers are not lost; they say so.                                *)
(***************************************************************************)

InChat == {"opening", "scanning", "completing", "failingChat"}
MidRun == {"refreshing", "loading", "reading", "chats", "counting", "finishing"}
            \union InChat

(* The row follows the run from its first update to its last. *)
RowFollowsRun ==
  \A j \in Job :
    /\ runPc[j] = "connecting" => status[j] = "QUEUED"
    /\ runPc[j] \in MidRun => status[j] = "RUNNING"
    /\ runPc[j] = "ending" => status[j] \in Terminal
    /\ ~LostReplies /\ runPc[j] = "failing" => status[j] \in Active

DownIsOff == ~up => \A j \in Job : runPc[j] = "off"

Done(j, c) == chatStatus[j][c] \in {"SUCCEEDED", "FAILED"}

(* The chats that a run has not got to do have their verdicts. *)
ChatsAreDone ==
  \A j \in Job :
    /\ runPc[j] = "reading" => ChatsOf(j) \subseteq run[j].todo
    /\ runPc[j] \in {"chats", "counting", "finishing"} =>
         \A c \in ChatsOf(j) \ run[j].todo : Done(j, c)
    /\ runPc[j] \in InChat =>
         \A c \in ChatsOf(j) \ (run[j].todo \union {run[j].chat}) : Done(j, c)
    /\ runPc[j] = "finishing" => run[j].todo = {}

VerdictParts ==
  /\ RowFollowsRun
  /\ DownIsOff
  /\ ChatsAreDone
  /\ VerdictMatchesChats
  /\ ProgressIsHonest
  /\ ~LostReplies => NoAbandonedJob

(* The inductive invariant of the verdicts. *)
VerdictInv == ControlInv /\ TypeInv /\ VerdictParts

-----------------------------------------------------------------------------
(* A run that is executing is the only one, and the process is up. *)
LEMMA Sole ==
  ASSUME VerdictInv, NEW j \in Job, runPc[j] # "off"
  PROVE  up /\ \A k \in Job : k # j => runPc[k] = "off"
BY DEF VerdictInv, VerdictParts, ControlInv, RunnerIsNamed, DownIsOff

(* What a step of run j may say of the job: what its next place in run()   *)
(* allows, and a verdict only over rows of chats that it leaves alone.     *)
VerdictIsFounded(j) ==
  /\ status'[j] = "SUCCEEDED" => \A c \in ChatsOf(j) : chatStatus[j][c] = "SUCCEEDED"
  /\ status'[j] = "FAILED" => \A c \in ChatsOf(j) : chatStatus[j][c] = "FAILED"
  /\ status'[j] = "PARTIALLY_SUCCEEDED" =>
       /\ \E c \in ChatsOf(j) : chatStatus[j][c] = "SUCCEEDED"
       /\ \E c \in ChatsOf(j) : chatStatus[j][c] = "FAILED"
       /\ \A c \in ChatsOf(j) : Done(j, c)

RowStep(j) ==
  /\ UNCHANGED <<queued, up>>
  /\ \A k \in Job \ {j} : /\ runPc'[k] = runPc[k] /\ status'[k] = status[k]
                          /\ progress'[k] = progress[k] /\ error'[k] = error[k]
                          /\ chatStatus'[k] = chatStatus[k]
  /\ UNCHANGED chatStatus \/ status'[j] \notin Lifecycle!Verdict
  /\ runPc'[j] # "connecting"
  /\ runPc'[j] \in MidRun => status'[j] = "RUNNING"
  /\ runPc'[j] \in {"ending", "off"} => status'[j] \in Terminal
  /\ ~LostReplies /\ runPc'[j] = "failing" => status'[j] \in Active
  /\ (progress'[j] = 100) <=> (status'[j] \in Lifecycle!Verdict)
  /\ \/ status'[j] \notin Lifecycle!Verdict
     \/ status'[j] = status[j] /\ error'[j] = error[j]
     \/ status'[j] = "FAILED" /\ error'[j]
     \/ VerdictIsFounded(j)

LEMMA RowStepKeepsVerdict ==
  ASSUME VerdictInv, NEW j \in Job, runPc[j] # "off", RowStep(j), ChatsAreDone'
  PROVE  VerdictParts'
<1> USE DEF VerdictInv, VerdictParts, RowStep
<1>1. /\ \A k \in Job \ {j} : runPc'[k] = "off" /\ ChatsOf(k)' = ChatsOf(k)
      /\ UNCHANGED chatStatus => ChatsOf(j)' = ChatsOf(j)
  BY Sole DEF ChatsOf
<1>2. RowFollowsRun'
  BY <1>1 DEF RowFollowsRun, MidRun, InChat
<1>3. DownIsOff'
  BY Sole DEF DownIsOff
<1>4. VerdictMatchesChats'
  <2> DEFINE in(k, S) == {c \in ChatsOf(k) : chatStatus[k][c] \in S}
             Says(k) == /\ status'[k] = "SUCCEEDED" => in(k, {"SUCCEEDED"}) = ChatsOf(k)
                        /\ status'[k] = "PARTIALLY_SUCCEEDED" =>
                             in(k, {"SUCCEEDED"}) # {} /\ in(k, {"FAILED"}) # {}
                             /\ in(k, {"PENDING", "RUNNING"}) = {}
                        /\ status'[k] = "FAILED" /\ ~error'[k] =>
                             in(k, {"FAILED"}) = ChatsOf(k)
  <2>1. ASSUME NEW k \in Job, status'[k] = status[k], error'[k] = error[k]
        PROVE  Says(k)
    BY <2>1 DEF VerdictMatchesChats
  <2>2. VerdictIsFounded(j) => Says(j)
    BY DEF VerdictIsFounded, Done
  <2>3. \A k \in Job \ {j} : Says(k)
    BY <2>1
  <2>4. status'[j] \in Lifecycle!Verdict => Says(j)
    BY <2>1, <2>2
  <2>5. QED
    BY <1>1, <2>3, <2>4 DEF VerdictMatchesChats, Lifecycle!Verdict
<1>5. ProgressIsHonest'
  BY DEF ProgressIsHonest
<1>6. ~LostReplies => NoAbandonedJob'
  BY DEF NoAbandonedJob, Terminal, Active, Lifecycle!Terminal, Lifecycle!Active,
         Lifecycle!Verdict
<1>7. QED
  BY <1>2, <1>3, <1>4, <1>5, <1>6

(* The chats stay done when the run only moves from one place to the next. *)
LEMMA MoveKeepsDone ==
  ASSUME VerdictInv, NEW j \in Job, runPc[j] # "off", UNCHANGED <<chatStatus, run>>,
         \A k \in Job \ {j} : runPc'[k] = runPc[k],
         runPc'[j] # "reading",
         runPc'[j] = "finishing" => run[j].todo = {},
         runPc'[j] \in {"chats", "counting", "finishing"} =>
           \A c \in ChatsOf(j) \ run[j].todo : Done(j, c),
         runPc'[j] \in InChat => runPc[j] \in InChat
  PROVE  ChatsAreDone'
BY DEF VerdictInv, VerdictParts, ChatsAreDone, Done, ChatsOf

(* The steps of run() outside runChat. *)
LEMMA JobStepKeepsVerdict ==
  ASSUME VerdictInv, NEW j \in Job,
         \/ RunConnect(j) \/ RunRefresh(j) \/ RunLoad(j) \/ RunRead(j) \/ RunCount(j)
         \/ RunDeduplicate(j) \/ RunFail(j) \/ RunEnd(j) \/ RunCallFails(j)
  PROVE  VerdictParts'
<1> USE DEF RowStep, Goto, Answered, Local, Handler, jobVars, chatVars, linkVars, scanVars,
            reqVars, runVars
<1>1. /\ runPc \in [Job -> RunPc] /\ status \in [Job -> Lifecycle!Status]
      /\ progress \in [Job -> 0..100] /\ error \in [Job -> BOOLEAN] /\ run \in [Job -> Locals]
  BY DEF VerdictInv, TypeInv, TypeOK, RunTypeOK, JobTypeOK
<1>2. /\ runPc[j] = "connecting" => status[j] = "QUEUED"
      /\ runPc[j] \in MidRun => status[j] = "RUNNING"
      /\ runPc[j] = "ending" => status[j] \in Terminal
      /\ (progress[j] = 100) <=> (status[j] \in Lifecycle!Verdict)
  BY DEF VerdictInv, VerdictParts, RowFollowsRun, ProgressIsHonest
<1>3. CASE RunConnect(j)
  <2>1. RowStep(j)
    BY <1>1, <1>2, <1>3 DEF RunConnect, MidRun, InChat, Lifecycle!Verdict, Lifecycle!Terminal, Terminal,
       Active, Lifecycle!Active
  <2>2. ChatsAreDone'
    BY <1>1, <1>3, MoveKeepsDone
    DEF RunConnect, InChat, ChatPc, VerdictInv, VerdictParts, ChatsAreDone
  <2>3. QED
    BY <1>3, <2>1, <2>2, RowStepKeepsVerdict DEF RunConnect
<1>4. CASE RunRefresh(j)
  <2>1. RowStep(j)
    BY <1>1, <1>2, <1>4 DEF RunRefresh, MidRun, InChat, Lifecycle!Verdict, Lifecycle!Terminal, Terminal,
       Active, Lifecycle!Active
  <2>2. ChatsAreDone'
    BY <1>1, <1>4, MoveKeepsDone
    DEF RunRefresh, InChat, ChatPc, VerdictInv, VerdictParts, ChatsAreDone
  <2>3. QED
    BY <1>4, <2>1, <2>2, RowStepKeepsVerdict DEF RunRefresh
<1>5. CASE RunRead(j)
  <2>1. RowStep(j)
    BY <1>1, <1>2, <1>5 DEF RunRead, MidRun, InChat, Lifecycle!Verdict, Lifecycle!Terminal, Terminal,
       Active, Lifecycle!Active
  <2>2. ChatsAreDone'
    BY <1>1, <1>5, MoveKeepsDone
    DEF RunRead, InChat, ChatPc, VerdictInv, VerdictParts, ChatsAreDone
  <2>3. QED
    BY <1>5, <2>1, <2>2, RowStepKeepsVerdict DEF RunRead
<1>6. CASE RunDeduplicate(j)
  <2>1. RowStep(j)
    BY <1>1, <1>2, <1>6 DEF RunDeduplicate, MidRun, InChat, Lifecycle!Verdict, Lifecycle!Terminal, Terminal,
       Active, Lifecycle!Active
  <2>2. ChatsAreDone'
    BY <1>1, <1>6, MoveKeepsDone
    DEF RunDeduplicate, InChat, ChatPc, VerdictInv, VerdictParts, ChatsAreDone
  <2>3. QED
    BY <1>6, <2>1, <2>2, RowStepKeepsVerdict DEF RunDeduplicate
<1>7. CASE RunLoad(j)
  <2>1. RowStep(j)
    BY <1>1, <1>2, <1>7 DEF RunLoad, MidRun, InChat, Lifecycle!Verdict, Lifecycle!Terminal, Terminal,
       Active, Lifecycle!Active
  <2>2. ChatsAreDone'
    <3>1. run'[j].todo = ChatsOf(j) /\ runPc'[j] = "reading"
      BY <1>1, <1>7 DEF RunLoad, Idle
    <3>2. QED
      BY <1>1, <1>7, <3>1, Sole DEF RunLoad, ChatsAreDone, ChatsOf, InChat
  <2>3. QED
    BY <1>7, <2>1, <2>2, RowStepKeepsVerdict DEF RunLoad
<1>8. CASE RunCount(j)
  <2>1. progress'[j] \in 10..90
    <3>1. /\ IsFiniteSet(run[j].todo) /\ run[j].total \in Nat /\ run[j].total # 0
          /\ Cardinality(run[j].todo) <= run[j].total
      BY <1>1, <1>8, Finite DEF RunCount, VerdictInv, TypeInv, RunShape, AtChat, Locals
    <3>2. Cardinality(run[j].todo) \in Nat
      BY <3>1, FS_CardinalityType
    <3> DEFINE total == run[j].total
               completed == total - Cardinality(run[j].todo)
    <3>3. progress' = [progress EXCEPT ![j] = 10 + Share(completed, total)]
      BY <1>8 DEF RunCount
    <3>4. completed \in Nat /\ total \in Nat /\ total # 0 /\ completed <= total
      BY <3>1, <3>2
    <3> HIDE DEF total, completed
    <3>5. Share(completed, total) \in 0..80
      BY <3>4, ShareBound
    <3>6. QED
      BY <1>1, <3>3, <3>5
  <2>2. RowStep(j)
    BY <1>1, <1>2, <1>8, <2>1 DEF RunCount, MidRun, InChat, Lifecycle!Verdict, Lifecycle!Terminal, Terminal,
       Active, Lifecycle!Active
  <2>3. ChatsAreDone'
    BY <1>1, <1>8, MoveKeepsDone
    DEF RunCount, InChat, ChatPc, VerdictInv, VerdictParts, ChatsAreDone
  <2>4. QED
    BY <1>8, <2>2, <2>3, RowStepKeepsVerdict DEF RunCount
<1>9. CASE RunFail(j)
  <2>1. RowStep(j)
    BY <1>1, <1>2, <1>9 DEF RunFail, MidRun, InChat, Lifecycle!Verdict, Lifecycle!Terminal, Terminal,
       Active, Lifecycle!Active, ChatPc, JobPc
  <2>2. ChatsAreDone'
    BY <1>1, <1>9, MoveKeepsDone DEF RunFail, InChat, ChatPc, JobPc
  <2>3. QED
    BY <1>9, <2>1, <2>2, RowStepKeepsVerdict DEF RunFail, ChatPc, JobPc
<1>10. CASE RunCallFails(j)
  <2>1. RowStep(j)
    BY <1>1, <1>2, <1>10 DEF RunCallFails, MidRun, InChat, Lifecycle!Verdict, Lifecycle!Terminal, Terminal,
       Active, Lifecycle!Active, ChatPc, JobPc
  <2>2. ChatsAreDone'
    BY <1>1, <1>10, MoveKeepsDone DEF RunCallFails, InChat, ChatPc, JobPc
  <2>3. QED
    BY <1>10, <2>1, <2>2, RowStepKeepsVerdict DEF RunCallFails, ChatPc, JobPc
<1>11. CASE RunEnd(j)
  <2>1. RowStep(j)
    BY <1>1, <1>2, <1>11 DEF RunEnd, MidRun, InChat, Lifecycle!Verdict, Lifecycle!Terminal, Terminal,
       Active, Lifecycle!Active
  <2>2. ChatsAreDone'
    BY <1>1, <1>11, Sole DEF RunEnd, ChatsAreDone, InChat
  <2>3. QED
    BY <1>11, <2>1, <2>2, RowStepKeepsVerdict DEF RunEnd
<1>12. QED
  BY <1>3, <1>4, <1>5, <1>6, <1>7, <1>8, <1>9, <1>10, <1>11

(* finish() reads rows that are done, and says of them what is so. *)
LEMMA FinishKeepsVerdict ==
  ASSUME VerdictInv, NEW j \in Job, RunFinish(j)
  PROVE  VerdictParts'
<1>1. /\ runPc \in [Job -> RunPc] /\ status \in [Job -> Lifecycle!Status]
      /\ progress \in [Job -> 0..100]
  BY DEF VerdictInv, TypeInv, TypeOK, RunTypeOK, JobTypeOK
<1>2. /\ runPc[j] = "finishing" /\ status' = [status EXCEPT ![j] = VerdictOf(j)]
      /\ progress' = [progress EXCEPT ![j] = 100]
      /\ \E pc \in {"ending", "failing"} : runPc' = [runPc EXCEPT ![j] = pc]
      /\ ~LostReplies => runPc' = [runPc EXCEPT ![j] = "ending"]
      /\ UNCHANGED <<chatStatus, queued, up, error, run>>
  BY DEF RunFinish, Answered, Goto, Handler, ChatPc, chatVars, reqVars
<1>3. \A c \in ChatsOf(j) : Done(j, c)
  BY <1>2 DEF VerdictInv, VerdictParts, ChatsAreDone
<1>4. VerdictOf(j) \in Lifecycle!Verdict /\ status'[j] = VerdictOf(j)
  BY <1>1, <1>2 DEF VerdictOf, Lifecycle!Verdict
<1>5. VerdictIsFounded(j)
  BY <1>3, <1>4 DEF VerdictIsFounded, VerdictOf, Done
<1>6. RowStep(j)
  BY <1>1, <1>2, <1>4, <1>5 DEF RowStep, MidRun, InChat, Lifecycle!Verdict, Lifecycle!Terminal, Terminal,
       Active, Lifecycle!Active
<1>7. ChatsAreDone'
  BY <1>1, <1>2, MoveKeepsDone DEF InChat
<1>8. QED
  BY <1>2, <1>6, <1>7, RowStepKeepsVerdict

(* The steps of runChat write one row of a running job, which has no       *)
(* verdict yet.                                                            *)
LEMMA ChatStepKeepsVerdict ==
  ASSUME VerdictInv, NEW j \in Job,
         \/ ChatBegin(j) \/ ChatOpen(j) \/ ChatMessage(j) \/ ChatMessageFails(j)
         \/ ChatExhausted(j) \/ ChatComplete(j) \/ ChatFail(j)
  PROVE  VerdictParts'
<1> USE DEF Goto, Answered, Local, Handler, jobVars, chatVars, linkVars, scanVars,
            reqVars, runVars
<1>1. /\ runPc \in [Job -> RunPc] /\ status \in [Job -> Lifecycle!Status]
      /\ run \in [Job -> Locals]
      /\ chatStatus \in [Job -> [Chat -> ChatStatus]]
  BY DEF VerdictInv, TypeInv, TypeOK, RunTypeOK, JobTypeOK, ChatTypeOK
<1>2. /\ runPc[j] \in MidRun => status[j] = "RUNNING"
      /\ (progress[j] = 100) <=> (status[j] \in Lifecycle!Verdict)
      /\ \A k \in Job \ {j} : runPc[j] # "off" => runPc[k] = "off"
  BY Sole DEF VerdictInv, VerdictParts, RowFollowsRun, ProgressIsHonest
<1>3. runPc[j] \in MidRun /\ runPc[j] # "off"
  BY DEF ChatBegin, ChatOpen, ChatMessage, ChatMessageFails, ChatExhausted, ChatComplete,
     ChatFail, MidRun, InChat
<1>4. CASE ChatOpen(j) \/ ChatMessage(j) \/ ChatMessageFails(j) \/ ChatExhausted(j)
  <2>1. /\ UNCHANGED <<chatStatus, status, progress, error, queued, up>>
        /\ runPc'[j] \in InChat /\ runPc[j] \in InChat
        /\ \A k \in Job \ {j} : runPc'[k] = runPc[k]
        /\ run'[j].todo = run[j].todo /\ run'[j].chat = run[j].chat
    <3>1. run[j] \in Locals
      BY <1>1
    <3>2. CASE ChatOpen(j)
      <4>1. \/ UNCHANGED run
            \/ \E lo, hi : run' = [run EXCEPT ![j] = [run[j] EXCEPT !.cursor = hi,
                                                                   !.lowest = lo]]
        BY <3>2 DEF ChatOpen
      <4>2. run'[j].todo = run[j].todo /\ run'[j].chat = run[j].chat
        BY <1>1, <3>1, <4>1 DEF Locals
      <4>3. QED
        BY <1>1, <3>2, <4>2 DEF ChatOpen, InChat
    <3>3. CASE ChatMessage(j)
      <4>1. \E new, dup : run' = [run EXCEPT ![j] = Received(run[j], new, dup)]
        BY <3>3 DEF ChatMessage
      <4>2. \A new, dup : /\ Received(run[j], new, dup).todo = run[j].todo
                          /\ Received(run[j], new, dup).chat = run[j].chat
        BY <3>1 DEF Received, Locals
      <4>3. run'[j].todo = run[j].todo /\ run'[j].chat = run[j].chat
        BY <1>1, <4>1, <4>2
      <4>4. QED
        BY <1>1, <3>3, <4>3 DEF ChatMessage, InChat
    <3>4. CASE ChatMessageFails(j)
      BY <1>1, <3>1, <3>4 DEF ChatMessageFails, Received, InChat, Locals
    <3>5. CASE ChatExhausted(j)
      BY <1>1, <3>5 DEF ChatExhausted, InChat
    <3>6. QED
      BY <1>4, <3>2, <3>3, <3>4, <3>5
  <2>2. RowStep(j)
    BY <1>1, <1>2, <1>3, <2>1 DEF RowStep, MidRun, InChat, Lifecycle!Verdict, Lifecycle!Terminal, Terminal,
       Active, Lifecycle!Active
  <2>3. ChatsAreDone'
    BY <1>2, <1>3, <2>1 DEF VerdictInv, VerdictParts, ChatsAreDone, Done, ChatsOf, InChat
  <2>4. QED
    BY <1>3, <2>2, <2>3, RowStepKeepsVerdict
<1>5. CASE ChatBegin(j)
  <2>1. PICK c \in run[j].todo :
          /\ chatStatus' = [chatStatus EXCEPT ![j][c] = "RUNNING"]
          /\ run' = [run EXCEPT ![j] = [run[j] EXCEPT !.todo = @ \ {c}, !.chat = c,
                                         !.maxMessageId = Baseline(run[j], c),
                                         !.counters = Zero]]
    BY <1>5 DEF ChatBegin
  <2>2. /\ run'[j].todo = run[j].todo \ {c} /\ run'[j].chat = c
        /\ \A d \in Chat \ {c} : chatStatus'[j][d] = chatStatus[j][d]
        /\ \A k \in Job \ {j} : chatStatus'[k] = chatStatus[k] /\ runPc'[k] = runPc[k]
        /\ runPc'[j] \in {"opening", "failing"} /\ runPc[j] = "chats"
        /\ UNCHANGED <<status, progress, error, queued, up>>
        /\ ~LostReplies => runPc'[j] = "opening"
    <3>1. run'[j].todo = run[j].todo \ {c} /\ run'[j].chat = c
      <4>1. run[j] \in Locals
        BY <1>1
      <4>2. QED
        BY <1>1, <2>1, <4>1 DEF Locals
    <3>2. QED
      BY <1>1, <1>5, <2>1, <3>1 DEF ChatBegin, ChatPc
  <2>3. RowStep(j)
    BY <1>1, <1>2, <1>3, <2>2 DEF RowStep, MidRun, InChat, Lifecycle!Verdict, Lifecycle!Terminal, Terminal,
       Active, Lifecycle!Active
  <2>4. ChatsAreDone'
    BY <1>2, <1>3, <2>2 DEF VerdictInv, VerdictParts, ChatsAreDone, Done, ChatsOf, InChat
  <2>5. QED
    BY <1>3, <2>3, <2>4, RowStepKeepsVerdict
<1>6. CASE ChatComplete(j) \/ ChatFail(j)
  <2> DEFINE c == run[j].chat
  <2>1. /\ c \in Chat
        /\ \E v \in {"SUCCEEDED", "FAILED"} : chatStatus' = [chatStatus EXCEPT ![j][c] = v]
        /\ runPc'[j] \in {"counting", "failing", "failingChat"}
        /\ runPc'[j] = "failing" => LostReplies
        /\ runPc[j] \in {"completing", "failingChat"}
        /\ \A k \in Job \ {j} : runPc'[k] = runPc[k]
        /\ UNCHANGED <<status, progress, error, queued, up, run>>
    BY <1>1, <1>6 DEF ChatComplete, ChatFail, ChatPc, VerdictInv, TypeInv, RunShape, AtChat
  <2>2. /\ \A d \in Chat \ {c} : chatStatus'[j][d] = chatStatus[j][d]
        /\ chatStatus'[j][c] \in {"SUCCEEDED", "FAILED"}
        /\ \A k \in Job \ {j} : chatStatus'[k] = chatStatus[k]
    BY <1>1, <2>1
  <2>3. RowStep(j)
    BY <1>1, <1>2, <1>3, <2>1, <2>2 DEF RowStep, MidRun, InChat, Lifecycle!Verdict, Lifecycle!Terminal, Terminal,
       Active, Lifecycle!Active
  <2>4. ChatsAreDone'
    BY <1>2, <1>3, <2>1, <2>2
    DEF VerdictInv, VerdictParts, ChatsAreDone, Done, ChatsOf, InChat
  <2>5. QED
    BY <1>3, <2>3, <2>4, RowStepKeepsVerdict
<1>7. QED
  BY <1>4, <1>5, <1>6

(* A step that takes no row, queue or run from where it was. *)
LEMMA QuietKeepsVerdict ==
  ASSUME VerdictInv,
         UNCHANGED <<status, progress, error, chatStatus, queued, up, runPc, run>>
  PROVE  VerdictParts'
<1> USE DEF VerdictInv, VerdictParts
<1>1. RowFollowsRun' /\ DownIsOff' /\ ProgressIsHonest'
  BY DEF RowFollowsRun, DownIsOff, ProgressIsHonest
<1>2. ChatsAreDone' /\ VerdictMatchesChats'
  BY DEF ChatsAreDone, Done, ChatsOf, VerdictMatchesChats
<1>3. ~LostReplies => NoAbandonedJob'
  BY DEF NoAbandonedJob
<1>4. QED
  BY <1>1, <1>2, <1>3

LEMMA StartKeepsVerdict ==
  ASSUME VerdictInv, NEW j \in Job, RunStart(j)
  PROVE  VerdictParts'
<1> USE DEF VerdictInv, VerdictParts
<1>1. /\ runPc' = [runPc EXCEPT ![j] = "connecting"] /\ runPc \in [Job -> RunPc]
      /\ queued' = queued \ {j} /\ status[j] = "QUEUED"
      /\ UNCHANGED <<status, progress, error, chatStatus, up, run>>
  BY DEF RunStart, Goto, jobVars, chatVars, TypeInv, TypeOK, RunTypeOK, ControlInv,
         QueuedIsAlone
<1>2. up
  BY DEF RunStart, ControlInv, DownIsEmpty
<1>3. RowFollowsRun' /\ DownIsOff' /\ ProgressIsHonest'
  BY <1>1, <1>2 DEF RowFollowsRun, DownIsOff, ProgressIsHonest, MidRun, InChat
<1>4. ChatsAreDone' /\ VerdictMatchesChats'
  BY <1>1 DEF ChatsAreDone, Done, ChatsOf, VerdictMatchesChats, InChat
<1>5. ~LostReplies => NoAbandonedJob'
  BY <1>1 DEF NoAbandonedJob
<1>6. QED
  BY <1>3, <1>4, <1>5

LEMMA CreateKeepsVerdict ==
  ASSUME VerdictInv, NEW r \in Request,
         \/ CreateEnter(r) \/ CreateRefuse(r) \/ CreateCheck(r)
         \/ CreateLookUp(r) \/ CreateInsert(r)
  PROVE  VerdictParts'
<1> USE DEF jobVars, chatVars, runVars
<1>1. CASE CreateEnter(r)
  BY <1>1, QuietKeepsVerdict DEF CreateEnter
<1>2. CASE CreateRefuse(r)
  BY <1>2, QuietKeepsVerdict DEF CreateRefuse
<1>3. CASE CreateCheck(r)
  BY <1>3, QuietKeepsVerdict DEF CreateCheck
<1>4. CASE CreateLookUp(r)
  BY <1>4, QuietKeepsVerdict DEF CreateLookUp
<1>5. CASE CreateInsert(r)
  <2> USE DEF VerdictInv, VerdictParts
  <2>1. PICK j \in Job :
          /\ status[j] = "ABSENT"
          /\ status' = [status EXCEPT ![j] = "QUEUED"]
          /\ chatStatus' = [chatStatus EXCEPT ![j] =
                              [c \in Chat |-> IF c \in reqChats[r] THEN "PENDING"
                                                                    ELSE "ABSENT"]]
          /\ queued \subseteq queued'
          /\ ~LostReplies => j \in queued'
    BY <1>5 DEF CreateInsert
  <2>2. \A k \in Job : runPc[k] = "off" /\ status[k] \notin Active
    BY <1>5 DEF CreateInsert, ControlInv, CheckedIsClear
  <2>3. /\ status \in [Job -> Lifecycle!Status]
        /\ chatStatus \in [Job -> [Chat -> ChatStatus]]
    BY DEF TypeInv, TypeOK, JobTypeOK, ChatTypeOK
  <2>4. UNCHANGED <<runPc, run, progress, error, up>>
    BY <1>5 DEF CreateInsert
  <2>5. /\ status'[j] = "QUEUED"
        /\ \A k \in Job \ {j} : status'[k] = status[k] /\ chatStatus'[k] = chatStatus[k]
    BY <2>1, <2>3
  <2>6. RowFollowsRun' /\ DownIsOff' /\ ChatsAreDone'
    BY <2>2, <2>4 DEF RowFollowsRun, DownIsOff, ChatsAreDone, MidRun, InChat
  <2>7. ProgressIsHonest'
    BY <2>1, <2>4, <2>5 DEF ProgressIsHonest, Lifecycle!Verdict
  <2>8. VerdictMatchesChats'
    BY <2>4, <2>5 DEF VerdictMatchesChats, ChatsOf
  <2>9. ~LostReplies => NoAbandonedJob'
    BY <2>1, <2>2, <2>5 DEF NoAbandonedJob
  <2>10. QED
    BY <2>6, <2>7, <2>8, <2>9
<1>6. QED
  BY <1>1, <1>2, <1>3, <1>4, <1>5

LEMMA WorldKeepsVerdict ==
  ASSUME VerdictInv,
         \/ Crash \/ Boot \/ AdminRefresh \/ Disconnect
         \/ \E j \in Job : RunFailFails(j)
         \/ \E c \in Chat : Post(c)
  PROVE  VerdictParts'
<1> USE DEF jobVars, chatVars, runVars, reqVars
<1>1. CASE Down
  <2> USE <1>1 DEF Down, VerdictInv, VerdictParts
  <2>1. RowFollowsRun' /\ DownIsOff' /\ ChatsAreDone'
    BY DEF RowFollowsRun, DownIsOff, ChatsAreDone, MidRun, InChat
  <2>2. ProgressIsHonest' /\ VerdictMatchesChats' /\ NoAbandonedJob'
    BY DEF ProgressIsHonest, VerdictMatchesChats, ChatsOf, NoAbandonedJob
  <2>3. QED
    BY <2>1, <2>2
<1>2. CASE Boot
  <2> USE DEF VerdictInv, VerdictParts
  <2>1. /\ \A k \in Job : runPc[k] = "off" /\ runPc'[k] = "off"
        /\ UNCHANGED <<progress, chatStatus>>
    BY <1>2 DEF Boot, DownIsOff
  <2>2. /\ \A k \in Job : status[k] \in Active => status'[k] = "INTERRUPTED"
        /\ \A k \in Job : status[k] \notin Active =>
             status'[k] = status[k] /\ (error[k] => error'[k])
    BY <1>2 DEF Boot, LeftOver
  <2>3. \A k \in Job : status[k] \notin Active => error'[k] = error[k]
    BY <1>2 DEF Boot, LeftOver, TypeInv, TypeOK, JobTypeOK
  <2>4. RowFollowsRun' /\ DownIsOff' /\ ChatsAreDone'
    BY <2>1 DEF RowFollowsRun, DownIsOff, ChatsAreDone, MidRun, InChat
  <2>5. ProgressIsHonest'
    BY <2>1, <2>2 DEF ProgressIsHonest, Lifecycle!Verdict, Active, Lifecycle!Active
  <2>6. VerdictMatchesChats'
    BY <2>1, <2>2, <2>3 DEF VerdictMatchesChats, ChatsOf
  <2>7. NoAbandonedJob'
    BY <2>2 DEF NoAbandonedJob, Active, Lifecycle!Active
  <2>8. QED
    BY <2>4, <2>5, <2>6, <2>7
<1>3. CASE AdminRefresh \/ Disconnect \/ \E c \in Chat : Post(c)
  BY <1>3, QuietKeepsVerdict DEF AdminRefresh, Disconnect, Post
<1>4. QED
  BY <1>1, <1>2, <1>3 DEF Crash, RunFailFails

LEMMA NextKeepsVerdict == VerdictInv /\ [Next]_vars => VerdictInv'
<1> SUFFICES ASSUME VerdictInv, [Next]_vars
             PROVE  VerdictParts'
  BY NextKeepsControl, NextTyped DEF VerdictInv
<1>1. ASSUME NEW r \in Request,
             \/ CreateEnter(r) \/ CreateRefuse(r) \/ CreateCheck(r)
             \/ CreateLookUp(r) \/ CreateInsert(r)
      PROVE  VerdictParts'
  BY <1>1, CreateKeepsVerdict
<1>2. ASSUME NEW j \in Job, RunStep(j) \/ RunCallFails(j) \/ ChatMessageFails(j)
      PROVE  VerdictParts'
  BY <1>2, StartKeepsVerdict, JobStepKeepsVerdict, FinishKeepsVerdict,
     ChatStepKeepsVerdict DEF RunStep
<1>3. CASE \/ Crash \/ Boot \/ AdminRefresh \/ Disconnect
           \/ \E j \in Job : RunFailFails(j)
           \/ \E c \in Chat : Post(c)
  BY <1>3, WorldKeepsVerdict
<1>4. CASE UNCHANGED vars
  BY <1>4, QuietKeepsVerdict DEF vars, jobVars, chatVars, reqVars, runVars
<1>5. QED
  BY <1>1, <1>2, <1>3, <1>4 DEF Next

LEMMA InitVerdict == Init => VerdictInv
<1> SUFFICES ASSUME Init
             PROVE  VerdictParts
  BY InitControl, InitTyped DEF VerdictInv
<1>1. RowFollowsRun /\ DownIsOff /\ ChatsAreDone /\ NoAbandonedJob
  BY DEF Init, RowFollowsRun, DownIsOff, ChatsAreDone, NoAbandonedJob, MidRun, InChat
<1>2. VerdictMatchesChats /\ ProgressIsHonest
  BY DEF Init, VerdictMatchesChats, ProgressIsHonest, Lifecycle!Verdict
<1>3. QED
  BY <1>1, <1>2 DEF VerdictParts

(* The inductive invariant of run(): the row follows the run, and finish() *)
(* is reached only when every chat has its verdict.                        *)
THEOREM VerdictInvariant == Spec => []VerdictInv
<1>1. QED
  BY InitVerdict, NextKeepsVerdict, PTL DEF Spec

(* finish() (472-501) reports of the chats what their rows say, for any    *)
(* number of chats and whatever failed, also when an answer was lost.      *)
THEOREM VerdictMatchesChatsHolds == Spec => []VerdictMatchesChats
<1>1. VerdictInv => VerdictMatchesChats
  BY DEF VerdictInv, VerdictParts
<1>2. QED
  BY <1>1, VerdictInvariant, PTL

(* Progress is 100 exactly for a job with a verdict, although each await   *)
(* of run() may write another share and a restart may cut it short.        *)
THEOREM ProgressIsHonestHolds == Spec => []ProgressIsHonest
<1>1. VerdictInv => ProgressIsHonest
  BY DEF VerdictInv, VerdictParts
<1>2. QED
  BY <1>1, VerdictInvariant, PTL

(* If no answer of the database is lost, the run of every active job is    *)
(* queued or executing, so no row blocks create() for ever.                *)
THEOREM NoAbandonedJobHolds ==
  ASSUME ~LostReplies
  PROVE  Spec => []NoAbandonedJob
<1>1. VerdictInv => NoAbandonedJob
  BY DEF VerdictInv, VerdictParts
<1>2. QED
  BY <1>1, VerdictInvariant, PTL

LEMMA StepRefines ==
  ASSUME ~LostReplies, VerdictInv, [Next]_vars
  PROVE  [Lifecycle!Next]_status
<1> USE DEF Lifecycle!Next, Lifecycle!Submit, Lifecycle!Start, Lifecycle!Conclude,
            Lifecycle!GiveUp, Lifecycle!Interrupt, jobVars
<1>1. ASSUME NEW r \in Request,
             \/ CreateEnter(r) \/ CreateRefuse(r) \/ CreateCheck(r) \/ CreateLookUp(r)
      PROVE  UNCHANGED status
  BY <1>1 DEF CreateEnter, CreateRefuse, CreateCheck, CreateLookUp
<1>2. ASSUME NEW r \in Request, CreateInsert(r)
      PROVE  [Lifecycle!Next]_status
  BY <1>2 DEF CreateInsert, VerdictInv, ControlInv, CheckedIsClear, Active
<1>3. ASSUME NEW j \in Job,
             \/ RunStart(j) \/ RunRefresh(j) \/ RunLoad(j) \/ RunRead(j)
             \/ RunCount(j) \/ RunDeduplicate(j) \/ RunEnd(j) \/ RunCallFails(j)
             \/ ChatBegin(j) \/ ChatOpen(j) \/ ChatMessage(j) \/ ChatMessageFails(j)
             \/ ChatExhausted(j) \/ ChatComplete(j) \/ ChatFail(j)
      PROVE  UNCHANGED status
  BY <1>3 DEF RunStart, RunRefresh, RunLoad, RunRead, RunCount, RunDeduplicate, RunEnd,
     RunCallFails, ChatBegin, ChatOpen, ChatMessage, ChatMessageFails, ChatExhausted,
     ChatComplete, ChatFail
<1>4. ASSUME NEW j \in Job, RunConnect(j)
      PROVE  [Lifecycle!Next]_status
  BY <1>4 DEF RunConnect, VerdictInv, VerdictParts, RowFollowsRun
<1>5. ASSUME NEW j \in Job, RunFinish(j)
      PROVE  [Lifecycle!Next]_status
  <2>1. VerdictOf(j) \in Lifecycle!Verdict
    BY DEF VerdictOf, Lifecycle!Verdict
  <2>2. status[j] = "RUNNING" /\ status' = [status EXCEPT ![j] = VerdictOf(j)]
    BY <1>5 DEF RunFinish, VerdictInv, VerdictParts, RowFollowsRun, MidRun
  <2>3. QED
    BY <2>1, <2>2
<1>6. ASSUME NEW j \in Job, RunFail(j)
      PROVE  [Lifecycle!Next]_status
  BY <1>6 DEF RunFail, VerdictInv, VerdictParts, RowFollowsRun, Active
<1>7. CASE Boot
  BY <1>7 DEF Boot, LeftOver, Active
<1>8. CASE \/ Crash \/ AdminRefresh \/ Disconnect
           \/ \E j \in Job : RunFailFails(j)
           \/ \E c \in Chat : Post(c)
  BY <1>8 DEF Crash, Down, AdminRefresh, Disconnect, RunFailFails, Post
<1>9. CASE UNCHANGED vars
  BY <1>9 DEF vars
<1>10. QED
  BY <1>1, <1>2, <1>3, <1>4, <1>5, <1>6, <1>7, <1>8, <1>9 DEF Next, RunStep

(* SyncJobsService implements the lifecycle that POST /sync/jobs promises, *)
(* if no answer of the database is lost: otherwise the catch of run() may  *)
(* take back the verdict that finish() has written.                        *)
THEOREM Refinement ==
  ASSUME ~LostReplies
  PROVE  Spec => RefinesLifecycle
<1>1. Init => Lifecycle!Init
  BY DEF Init, Lifecycle!Init
<1>2. VerdictInv /\ [Next]_vars => [Lifecycle!Next]_status
  BY StepRefines
<1>3. QED
  BY <1>1, <1>2, VerdictInvariant, PTL DEF Spec, RefinesLifecycle, Lifecycle!Spec

-----------------------------------------------------------------------------
(* The progress bar. *)

(* What the next RunCount of job j writes. *)
Shown(j) == 10 + Share(run[j].total - Cardinality(run[j].todo), run[j].total)

Waiting   == {"ABSENT", "QUEUED"}
BeforeAny == {"refreshing", "loading", "reading"}
AmongAny  == {"chats"} \union AtChat

(* The bar of a job stands no higher than the next update of its run will  *)
(* put it.                                                                 *)
BarAt(j) ==
  /\ status[j] \in Waiting => progress[j] = 0
  /\ runPc[j] \in BeforeAny => progress[j] <= 5
  /\ runPc[j] \in AmongAny =>
       progress[j] <= 10 \/ (run[j].total # 0 /\ progress[j] <= Shown(j))
  /\ runPc[j] = "finishing" => progress[j] <= 95

BarFollowsRun == \A j \in Job : BarAt(j)

BarInv == VerdictInv /\ BarFollowsRun

BarRises == \A j \in Job : progress'[j] >= progress[j]

(* Math.round over more chats done out of as many gives no smaller share.  *)
LEMMA ShareMonotone ==
  ASSUME NEW total \in Nat, total # 0, NEW a \in Nat, NEW b \in Nat, a <= b
  PROVE  Share(a, total) <= Share(b, total)
<1> DEFINE y == 2 * total
           x == 160 * a + total
           z == 160 * b + total
           p == x \div y
           q == z \div y
<1>1. x \in Nat /\ z \in Nat /\ y \in Nat /\ y > 0 /\ x <= z
  OBVIOUS
<1> HIDE DEF x, y, z
<1>2. p \in Nat /\ y * p <= x
  BY <1>1
<1>3. q \in Nat /\ z < y * (q + 1)
  BY <1>1
<1> HIDE DEF p, q
<1>4. ASSUME p >= q + 1 PROVE FALSE
  <2>1. y * p >= y * (q + 1)
    BY <1>1, <1>2, <1>3, <1>4
  <2>2. QED
    BY <1>1, <1>2, <1>3, <2>1
<1>5. p <= q
  BY <1>2, <1>3, <1>4
<1>6. QED
  BY <1>5 DEF Share, p, q, x, y, z

(* The chats done of a run that has any, and the bar it is about to show. *)
LEMMA ShownTyped ==
  ASSUME TypeInv, NEW j \in Job, run[j].total # 0
  PROVE  /\ run[j].total \in Nat /\ Cardinality(run[j].todo) \in Nat
         /\ Cardinality(run[j].todo) <= run[j].total
         /\ Shown(j) \in 10..90
<1>1. run[j] \in Locals
  BY DEF TypeInv, TypeOK, RunTypeOK
<1>2. /\ run[j].total \in Nat /\ Cardinality(run[j].todo) \in Nat
      /\ Cardinality(run[j].todo) <= run[j].total
  BY <1>1, Finite DEF TypeInv, RunShape, Locals
<1> DEFINE total == run[j].total
           completed == total - Cardinality(run[j].todo)
<1>3. completed \in Nat /\ total \in Nat /\ completed <= total /\ total # 0
  BY <1>2
<1>4. Shown(j) = 10 + Share(completed, total)
  BY DEF Shown
<1> HIDE DEF total, completed
<1>5. Share(completed, total) \in 0..80
  BY <1>3, ShareBound
<1>6. QED
  BY <1>2, <1>4, <1>5

(* One job changes, and its bar does not fall. *)
LEMMA OneBarMoves ==
  ASSUME BarFollowsRun, progress \in [Job -> 0..100], NEW j \in Job,
         \A k \in Job \ {j} : /\ status'[k] = status[k] /\ progress'[k] = progress[k]
                              /\ runPc'[k] = runPc[k] /\ run'[k] = run[k],
         progress'[j] >= progress[j], BarAt(j)'
  PROVE  BarFollowsRun' /\ BarRises
<1>1. ASSUME NEW k \in Job, k # j PROVE BarAt(k)' /\ progress'[k] >= progress[k]
  BY <1>1 DEF BarFollowsRun, BarAt, Shown
<1>2. QED
  BY <1>1 DEF BarFollowsRun, BarRises

(* No bar changes, and no run gets to where it would have to be higher. *)
StaysLow(k) ==
  \/ runPc'[k] \notin BeforeAny \union AmongAny \union {"finishing"}
  \/ runPc[k] \in BeforeAny /\ runPc'[k] \in BeforeAny
  \/ /\ \/ runPc'[k] = runPc[k]
        \/ runPc[k] \in AmongAny /\ runPc'[k] \in AmongAny
     /\ run'[k].todo = run[k].todo
     /\ run'[k].total = run[k].total

LEMMA NoBarMoves ==
  ASSUME BarFollowsRun, progress \in [Job -> 0..100], UNCHANGED progress,
         \A k \in Job : status'[k] \in Waiting => status[k] \in Waiting,
         \A k \in Job : StaysLow(k)
  PROVE  BarFollowsRun' /\ BarRises
<1>1. ASSUME NEW k \in Job PROVE BarAt(k)' /\ progress'[k] >= progress[k]
  <2>1. BarAt(k) /\ StaysLow(k)
    BY DEF BarFollowsRun
  <2>2. progress[k] \in 0..100 /\ progress'[k] = progress[k]
    OBVIOUS
  <2>3. run'[k].todo = run[k].todo /\ run'[k].total = run[k].total => Shown(k)' = Shown(k)
    BY DEF Shown
  <2>4. QED
    BY <2>1, <2>2, <2>3 DEF StaysLow, BarAt, BeforeAny, AmongAny, AtChat
<1>2. QED
  BY <1>1 DEF BarFollowsRun, BarRises

(* The steps of run() outside runChat. *)
LEMMA JobStepRaisesBar ==
  ASSUME BarInv, NEW j \in Job,
         \/ RunStart(j) \/ RunConnect(j) \/ RunRefresh(j) \/ RunLoad(j) \/ RunRead(j)
         \/ RunCount(j) \/ RunDeduplicate(j) \/ RunFinish(j) \/ RunFail(j) \/ RunEnd(j)
         \/ RunCallFails(j)
  PROVE  BarFollowsRun' /\ BarRises
<1> USE DEF Goto, Answered, Local, Handler, jobVars
<1>1. /\ runPc \in [Job -> RunPc] /\ status \in [Job -> Lifecycle!Status]
      /\ progress \in [Job -> 0..100] /\ run \in [Job -> Locals] /\ TypeInv
  BY DEF BarInv, VerdictInv, TypeInv, TypeOK, RunTypeOK, JobTypeOK
<1>2. BarFollowsRun /\ BarAt(j) /\ (runPc[j] \in MidRun => status[j] = "RUNNING")
      /\ (runPc[j] = "connecting" => status[j] = "QUEUED")
  BY DEF BarInv, BarFollowsRun, VerdictInv, VerdictParts, RowFollowsRun
<1>3. CASE RunConnect(j)
  <2>1. progress'[j] = 5 /\ progress[j] = 0 /\ status'[j] = "RUNNING"
        /\ runPc'[j] \in {"refreshing", "failing"}
        /\ \A k \in Job \ {j} : /\ status'[k] = status[k] /\ progress'[k] = progress[k]
                                /\ runPc'[k] = runPc[k] /\ run'[k] = run[k]
    BY <1>1, <1>2, <1>3 DEF RunConnect, BarAt, Waiting, ChatPc
  <2>2. BarAt(j)'
    BY <2>1 DEF BarAt, Waiting, BeforeAny, AmongAny, AtChat
  <2>3. QED
    BY <1>1, <1>2, <2>1, <2>2, OneBarMoves
<1>4. CASE RunRead(j)
  <2>1. progress'[j] = 10 /\ progress[j] <= 5 /\ status'[j] = "RUNNING"
        /\ runPc'[j] \in {"chats", "failing"}
        /\ \A k \in Job \ {j} : /\ status'[k] = status[k] /\ progress'[k] = progress[k]
                                /\ runPc'[k] = runPc[k] /\ run'[k] = run[k]
    BY <1>1, <1>2, <1>4 DEF RunRead, BarAt, BeforeAny, ChatPc, MidRun
  <2>2. BarAt(j)'
    BY <2>1 DEF BarAt, Waiting, BeforeAny, AmongAny, AtChat
  <2>3. QED
    BY <1>1, <1>2, <2>1, <2>2, OneBarMoves
<1>5. CASE RunCount(j)
  <2>1. run[j].total # 0 /\ Shown(j) \in 10..90
    BY <1>1, <1>5, ShownTyped DEF RunCount, TypeInv, RunShape, AtChat
  <2>2. progress' = [progress EXCEPT ![j] = Shown(j)] /\ UNCHANGED run
    BY <1>5 DEF RunCount, Shown
  <2>3. progress'[j] = Shown(j) /\ Shown(j)' = Shown(j) /\ run'[j].total # 0
    BY <1>1, <2>1, <2>2 DEF Shown
  <2>4. progress[j] <= 10 \/ progress[j] <= Shown(j)
    BY <1>2, <1>5 DEF RunCount, BarAt, AmongAny, AtChat
  <2>5. progress'[j] >= progress[j]
    BY <1>1, <2>1, <2>3, <2>4
  <2>6. status'[j] = "RUNNING"
        /\ runPc'[j] \in {"chats", "failing"}
        /\ \A k \in Job \ {j} : /\ status'[k] = status[k] /\ progress'[k] = progress[k]
                                /\ runPc'[k] = runPc[k] /\ run'[k] = run[k]
    BY <1>1, <1>2, <1>5, <2>2 DEF RunCount, ChatPc, MidRun
  <2>7. BarAt(j)'
    BY <2>1, <2>3, <2>6 DEF BarAt, Waiting, BeforeAny, AmongAny, AtChat
  <2>8. QED
    BY <1>1, <1>2, <2>5, <2>6, <2>7, OneBarMoves
<1>6. CASE RunDeduplicate(j)
  <2>1. progress[j] <= 90
    <3>1. progress[j] <= 10 \/ (run[j].total # 0 /\ progress[j] <= Shown(j))
      BY <1>2, <1>6 DEF RunDeduplicate, BarAt, AmongAny
    <3>2. run[j].total # 0 => Shown(j) \in 10..90
      BY <1>1, ShownTyped
    <3>3. QED
      BY <1>1, <3>1, <3>2
  <2>2. progress'[j] = 95 /\ status'[j] = "RUNNING"
        /\ runPc'[j] \in {"finishing", "failing"}
        /\ \A k \in Job \ {j} : /\ status'[k] = status[k] /\ progress'[k] = progress[k]
                                /\ runPc'[k] = runPc[k] /\ run'[k] = run[k]
    BY <1>1, <1>2, <1>6 DEF RunDeduplicate, ChatPc, MidRun
  <2>3. BarAt(j)'
    BY <2>2 DEF BarAt, Waiting, BeforeAny, AmongAny, AtChat
  <2>4. QED
    BY <1>1, <1>2, <2>1, <2>2, <2>3, OneBarMoves
<1>7. CASE RunFinish(j) \/ RunFail(j)
  <2>1. VerdictOf(j) \notin Waiting /\ "FAILED" \notin Waiting
    BY DEF VerdictOf, Waiting
  <2>2. progress'[j] = 100 /\ status'[j] \notin Waiting
        /\ runPc'[j] \in {"ending", "failing"}
        /\ \A k \in Job \ {j} : /\ status'[k] = status[k] /\ progress'[k] = progress[k]
                                /\ runPc'[k] = runPc[k] /\ run'[k] = run[k]
    BY <1>1, <1>7, <2>1 DEF RunFinish, RunFail, ChatPc
  <2>3. BarAt(j)'
    BY <2>2 DEF BarAt, BeforeAny, AmongAny, AtChat
  <2>4. progress'[j] >= progress[j]
    BY <1>1, <2>2
  <2>5. QED
    BY <1>1, <1>2, <2>2, <2>3, <2>4, OneBarMoves
<1>8. CASE RunRefresh(j) \/ RunLoad(j)
  <2>1. /\ UNCHANGED <<progress, status>>
        /\ runPc[j] \in BeforeAny /\ runPc'[j] \in BeforeAny \union {"failing"}
        /\ \A k \in Job \ {j} : runPc'[k] = runPc[k] /\ run'[k] = run[k]
    BY <1>1, <1>8 DEF RunRefresh, RunLoad, BeforeAny, ChatPc
  <2>2. QED
    BY <1>1, <1>2, <2>1, NoBarMoves DEF StaysLow, BeforeAny, AmongAny, AtChat
<1>9. CASE RunStart(j) \/ RunEnd(j)
  <2>1. /\ UNCHANGED <<progress, status>>
        /\ runPc'[j] \in {"connecting", "off"}
        /\ \A k \in Job \ {j} : runPc'[k] = runPc[k] /\ run'[k] = run[k]
    BY <1>1, <1>9 DEF RunStart, RunEnd
  <2>2. QED
    BY <1>1, <1>2, <2>1, NoBarMoves DEF StaysLow, BeforeAny, AmongAny, AtChat
<1>10. CASE RunCallFails(j)
  <2>1. /\ UNCHANGED <<progress, status, run>>
        /\ \/ runPc'[j] = "failing"
           \/ runPc[j] \in AmongAny /\ runPc'[j] = "failingChat"
        /\ \A k \in Job \ {j} : runPc'[k] = runPc[k]
    BY <1>1, <1>10 DEF RunCallFails, ChatPc, JobPc, AmongAny, AtChat
  <2>2. QED
    BY <1>1, <1>2, <2>1, NoBarMoves DEF StaysLow, BeforeAny, AmongAny, AtChat
<1>11. QED
  BY <1>3, <1>4, <1>5, <1>6, <1>7, <1>8, <1>9, <1>10

(* The steps of runChat leave the bar alone, and none has more to do. *)
LEMMA ChatStepKeepsBar ==
  ASSUME BarInv, NEW j \in Job,
         \/ ChatBegin(j) \/ ChatOpen(j) \/ ChatMessage(j) \/ ChatMessageFails(j)
         \/ ChatExhausted(j) \/ ChatComplete(j) \/ ChatFail(j)
  PROVE  BarFollowsRun' /\ BarRises
<1> USE DEF Goto, Answered, Local, Handler, jobVars
<1>1. /\ runPc \in [Job -> RunPc] /\ progress \in [Job -> 0..100]
      /\ run \in [Job -> Locals] /\ TypeInv
  BY DEF BarInv, VerdictInv, TypeInv, TypeOK, RunTypeOK, JobTypeOK
<1>2. BarFollowsRun /\ BarAt(j) /\ run[j] \in Locals
  BY <1>1 DEF BarInv, BarFollowsRun
<1>3. CASE ChatBegin(j)
  <2>1. PICK c \in run[j].todo :
          run' = [run EXCEPT ![j] = [run[j] EXCEPT !.todo = @ \ {c}, !.chat = c,
                                         !.maxMessageId = Baseline(run[j], c),
                                         !.counters = Zero]]
    BY <1>3 DEF ChatBegin
  <2>2. run'[j].todo = run[j].todo \ {c} /\ run'[j].total = run[j].total
    BY <1>1, <1>2, <2>1 DEF Locals
  <2>3. /\ UNCHANGED <<progress, status>> /\ runPc[j] = "chats"
        /\ runPc'[j] \in {"opening", "failing"}
        /\ \A k \in Job \ {j} : runPc'[k] = runPc[k] /\ run'[k] = run[k]
    BY <1>1, <1>3, <2>1 DEF ChatBegin, ChatPc
  <2>4. ASSUME run[j].total # 0 PROVE Shown(j) <= Shown(j)' /\ Shown(j) \in 10..90
                                      /\ Shown(j)' \in Int
    <3>1. /\ run[j].total \in Nat /\ Cardinality(run[j].todo) \in Nat
          /\ Cardinality(run[j].todo) <= run[j].total /\ Shown(j) \in 10..90
      BY <1>1, <2>4, ShownTyped
    <3>2. IsFiniteSet(run[j].todo) /\ run[j].todo \ {c} \subseteq run[j].todo
      BY <1>2, Finite DEF Locals
    <3>3. /\ Cardinality(run[j].todo \ {c}) \in Nat
          /\ Cardinality(run[j].todo \ {c}) <= Cardinality(run[j].todo)
      BY <3>2, FS_Subset, FS_CardinalityType
    <3> DEFINE total == run[j].total
               a == total - Cardinality(run[j].todo)
               b == total - Cardinality(run[j].todo \ {c})
    <3>4. Shown(j) = 10 + Share(a, total) /\ Shown(j)' = 10 + Share(b, total)
      BY <2>2 DEF Shown
    <3>5. a \in Nat /\ b \in Nat /\ a <= b /\ b <= total /\ total \in Nat /\ total # 0
      BY <2>4, <3>1, <3>3
    <3> HIDE DEF total, a, b
    <3>6. /\ Share(a, total) <= Share(b, total)
          /\ Share(a, total) \in 0..80 /\ Share(b, total) \in 0..80
      BY <3>5, ShareMonotone, ShareBound
    <3>7. QED
      BY <3>1, <3>4, <3>6
  <2>5. progress[j] <= 10 \/ (run[j].total # 0 /\ progress[j] <= Shown(j))
    BY <1>2, <2>3 DEF BarAt, AmongAny
  <2>6. progress[j] <= 10 \/ (run'[j].total # 0 /\ progress[j] <= Shown(j)')
    BY <1>1, <2>2, <2>4, <2>5
  <2>7. BarAt(j)'
    BY <1>2, <2>3, <2>6 DEF BarAt, BeforeAny
  <2>8. progress'[j] >= progress[j]
    BY <1>1, <2>3
  <2>9. QED
    BY <1>1, <1>2, <2>3, <2>7, <2>8, OneBarMoves
<1>4. CASE ChatOpen(j) \/ ChatMessage(j) \/ ChatMessageFails(j) \/ ChatExhausted(j)
           \/ ChatComplete(j) \/ ChatFail(j)
  <2>1. /\ UNCHANGED <<progress, status>>
        /\ runPc[j] \in AtChat /\ runPc'[j] \in AtChat \union {"failing"}
        /\ \A k \in Job \ {j} : runPc'[k] = runPc[k] /\ run'[k] = run[k]
    BY <1>1, <1>4 DEF ChatOpen, ChatMessage, ChatMessageFails, ChatExhausted, ChatComplete,
       ChatFail, ChatPc, AtChat
  <2>2. run'[j].todo = run[j].todo /\ run'[j].total = run[j].total
    <3>1. CASE ChatOpen(j)
      <4>1. \/ UNCHANGED run
            \/ \E lo, hi : run' = [run EXCEPT ![j] = [run[j] EXCEPT !.cursor = hi,
                                                                   !.lowest = lo]]
        BY <3>1 DEF ChatOpen
      <4>2. QED
        BY <1>1, <1>2, <4>1 DEF Locals
    <3>2. CASE ChatMessage(j) \/ ChatMessageFails(j)
      <4>1. \E new, dup : run' = [run EXCEPT ![j] = Received(run[j], new, dup)]
        BY <3>2 DEF ChatMessage, ChatMessageFails
      <4>2. \A new, dup : /\ Received(run[j], new, dup).todo = run[j].todo
                          /\ Received(run[j], new, dup).total = run[j].total
        BY <1>2 DEF Received, Locals
      <4>3. QED
        BY <1>1, <4>1, <4>2
    <3>3. CASE ChatExhausted(j) \/ ChatComplete(j) \/ ChatFail(j)
      BY <3>3 DEF ChatExhausted, ChatComplete, ChatFail
    <3>4. QED
      BY <1>4, <3>1, <3>2, <3>3
  <2>3. QED
    BY <1>1, <1>2, <2>1, <2>2, NoBarMoves DEF StaysLow, BeforeAny, AmongAny, AtChat
<1>5. QED
  BY <1>3, <1>4

LEMMA OthersKeepBar ==
  ASSUME BarInv,
         \/ \E r \in Request :
              \/ CreateEnter(r) \/ CreateRefuse(r) \/ CreateCheck(r)
              \/ CreateLookUp(r) \/ CreateInsert(r)
         \/ Crash \/ Boot \/ AdminRefresh \/ Disconnect
         \/ \E j \in Job : RunFailFails(j)
         \/ \E c \in Chat : Post(c)
         \/ UNCHANGED vars
  PROVE  BarFollowsRun' /\ BarRises
<1> USE DEF jobVars, runVars
<1>1. /\ progress \in [Job -> 0..100] /\ status \in [Job -> Lifecycle!Status]
      /\ BarFollowsRun
  BY DEF BarInv, VerdictInv, TypeInv, TypeOK, JobTypeOK
<1>2. CASE UNCHANGED <<jobVars, runVars>>
  BY <1>1, <1>2, NoBarMoves DEF StaysLow
<1>3. ASSUME NEW r \in Request, CreateInsert(r) PROVE BarFollowsRun' /\ BarRises
  <2>1. UNCHANGED <<progress, runPc, run>>
    BY <1>3 DEF CreateInsert
  <2>2. \A k \in Job : status'[k] \in Waiting => status[k] \in Waiting
    BY <1>1, <1>3 DEF CreateInsert, Waiting
  <2>3. QED
    BY <1>1, <2>1, <2>2, NoBarMoves DEF StaysLow
<1>4. CASE Down
  <2>1. UNCHANGED <<progress, status>> /\ \A k \in Job : runPc'[k] = "off"
    BY <1>4 DEF Down
  <2>2. QED
    BY <1>1, <2>1, NoBarMoves DEF StaysLow, BeforeAny, AmongAny, AtChat
<1>5. CASE Boot
  <2>1. UNCHANGED <<progress, runPc, run>>
    BY <1>5 DEF Boot
  <2>2. \A k \in Job : status'[k] \in Waiting => status[k] \in Waiting
    BY <1>1, <1>5 DEF Boot, Waiting
  <2>3. QED
    BY <1>1, <2>1, <2>2, NoBarMoves DEF StaysLow
<1>6. QED
  BY <1>2, <1>3, <1>4, <1>5
  DEF CreateEnter, CreateRefuse, CreateCheck, CreateLookUp, Crash, RunFailFails,
      AdminRefresh, Disconnect, Post, vars

LEMMA NextRaisesBar == BarInv /\ [Next]_vars => BarFollowsRun' /\ BarRises
BY JobStepRaisesBar, ChatStepKeepsBar, OthersKeepBar DEF Next, RunStep

LEMMA InitBar == Init => BarInv
<1> SUFFICES ASSUME Init
             PROVE  BarFollowsRun
  BY InitVerdict DEF BarInv
<1>1. \A j \in Job : progress[j] = 0 /\ runPc[j] = "off"
  BY DEF Init
<1>2. QED
  BY <1>1 DEF BarFollowsRun, BarAt, BeforeAny, AmongAny, AtChat

(* The progress bar of a job never falls, whatever the number of its chats *)
(* and however Math.round (205) rounds their shares, through failures,     *)
(* lost answers, crashes and restarts.                                     *)
THEOREM ProgressMonotoneHolds == Spec => ProgressMonotone
<1>1. BarInv /\ [Next]_vars => BarInv'
  BY NextKeepsVerdict, NextRaisesBar DEF BarInv
<1>2. BarInv /\ [Next]_vars => [\A j \in Job : progress'[j] >= progress[j]]_vars
  BY NextRaisesBar DEF BarRises
<1>3. QED
  BY InitBar, <1>1, <1>2, PTL DEF Spec, ProgressMonotone
-----------------------------------------------------------------------------
(***************************************************************************)
(* What the counters of a job count.                                       *)
(***************************************************************************)

AddsUp(n) == n.foundCount = n.newCount + n.duplicateCount

(* The links that the chats of S brought, by their counters n. *)
NewIn(n, S) == SumFunctionOnSet([c \in Chat |-> n[c]["newCount"]], S)

NothingNew(n, S) == \A c \in S : n[c].newCount = 0

(* The links a job created are in the rows of the chats it has done and,   *)
(* while it is at a chat, in the counters it holds for it; a chat that is  *)
(* still to do has none.                                                   *)
CreatedIsCounted(j) ==
  /\ status[j] \in {"ABSENT", "QUEUED"} \/ runPc[j] \in {"refreshing", "loading", "reading"} =>
       createdBy[j] = 0 /\ NothingNew(chatCounters[j], Chat)
  /\ runPc[j] \in {"chats", "counting", "finishing"} =>
       /\ NothingNew(chatCounters[j], run[j].todo)
       /\ createdBy[j] = NewIn(chatCounters[j], ChatsOf(j))
  /\ runPc[j] \in InChat =>
       /\ run[j].chat \notin run[j].todo
       /\ NothingNew(chatCounters[j], run[j].todo)
       /\ createdBy[j] = run[j].counters.newCount
                           + NewIn(chatCounters[j], ChatsOf(j) \ {run[j].chat})

CountersOf(j) ==
  /\ AddsUp(run[j].counters)
  /\ \A c \in Chat : AddsUp(chatCounters[j][c])
  /\ CreatedIsCounted(j)

CounterParts == CountersAreTrue /\ \A j \in Job : CountersOf(j)

(* The inductive invariant of the counters. *)
CounterInv == VerdictInv /\ CounterParts

-----------------------------------------------------------------------------
(* The sum over a set of chats: of natural numbers, the same when the      *)
(* chats' counters are, nothing when they have nothing, and by one chat.   *)
LEMMA NewInIs ==
  ASSUME NEW n \in [Chat -> Counters], NEW S \in SUBSET Chat
  PROVE  /\ NewIn(n, S) \in Nat
         /\ \A c \in S : NewIn(n, S) = n[c].newCount + NewIn(n, S \ {c})
         /\ NothingNew(n, S) => NewIn(n, S) = 0
<1> DEFINE f == [c \in Chat |-> n[c]["newCount"]]
<1>1. IsFiniteSet(S) /\ \A c \in S : f[c] = n[c].newCount /\ f[c] \in Nat
  BY ConstantsAssumption, FS_Subset DEF Counters
<1>2. NewIn(n, S) = SumFunctionOnSet(f, S)
  BY DEF NewIn
<1>3. \A c \in S : NewIn(n, S \ {c}) = SumFunctionOnSet(f, S \ {c})
  BY DEF NewIn
<1> HIDE DEF f
<1>4. /\ SumFunctionOnSet(f, S) \in Nat
      /\ \A c \in S : SumFunctionOnSet(f, S) = f[c] + SumFunctionOnSet(f, S \ {c})
  BY <1>1, SumIs
<1>5. ASSUME NothingNew(n, S)
      PROVE  SumFunctionOnSet(f, S) = 0
  <2>1. \A c \in S : f[c] = 0
    BY <1>1, <1>5 DEF NothingNew
  <2>2. SumFunctionOnSet(f, S) = SumFunctionOnSet(f, S) + SumFunctionOnSet(f, S)
    <3>1. \A c \in S : f[c] \in Nat /\ f[c] \in Nat /\ f[c] \in Nat /\ f[c] = f[c] + f[c]
      BY <2>1
    <3>2. QED
      BY <1>1, <3>1, SumOfSum
  <2>3. PICK r \in Nat : r = SumFunctionOnSet(f, S)
    BY <1>4
  <2>4. r = r + r
    BY <2>2, <2>3
  <2>5. r = 0
    BY <2>4
  <2>6. QED
    BY <2>3, <2>5
<1>6. QED
  BY <1>1, <1>2, <1>3, <1>4, <1>5

LEMMA NewInSame ==
  ASSUME NEW n \in [Chat -> Counters], NEW m \in [Chat -> Counters],
         NEW S \in SUBSET Chat, \A c \in S : m[c] = n[c]
  PROVE  NewIn(m, S) = NewIn(n, S)
<1> DEFINE f == [c \in Chat |-> n[c]["newCount"]]
           e == [c \in Chat |-> m[c]["newCount"]]
<1>1. IsFiniteSet(S) /\ \A c \in S : f[c] \in Nat /\ f[c] = e[c]
  BY ConstantsAssumption, FS_Subset DEF Counters
<1>2. NewIn(n, S) = SumFunctionOnSet(f, S) /\ NewIn(m, S) = SumFunctionOnSet(e, S)
  BY DEF NewIn
<1> HIDE DEF f, e
<1>3. QED
  BY <1>1, <1>2, SumOfEqual

(* A chat still to do adds nothing, whether it has a row or not. *)
LEMMA NothingNewAddsNothing ==
  ASSUME NEW n \in [Chat -> Counters], NEW S \in SUBSET Chat, NEW c \in Chat,
         n[c].newCount = 0
  PROVE  NewIn(n, S) = NewIn(n, S \ {c})
<1>1. CASE c \in S
  <2>1. S \ {c} \in SUBSET Chat
    OBVIOUS
  <2>2. NewIn(n, S \ {c}) \in Nat
    BY <2>1, NewInIs
  <2>3. QED
    BY <1>1, <2>2, NewInIs
<1>2. CASE c \notin S
  <2>1. S \ {c} = S
    BY <1>2
  <2>2. QED
    BY <2>1
<1>3. QED
  BY <1>1, <1>2

-----------------------------------------------------------------------------
TotalsAreTrue(j) ==
  status[j] \in Lifecycle!Verdict /\ ~error[j] =>
    /\ AddsUp(totals[j])
    /\ totals[j].newCount = createdBy[j]

LEMMA PerJob ==
  /\ CounterParts <=> \A j \in Job : TotalsAreTrue(j) /\ CountersOf(j)
  /\ CounterParts' <=> \A j \in Job : TotalsAreTrue(j)' /\ CountersOf(j)'
BY DEF CounterParts, CountersAreTrue, TotalsAreTrue, AddsUp

LEMMA ChatsTyped ==
  ASSUME CounterInv, NEW j \in Job
  PROVE  /\ chatCounters[j] \in [Chat -> Counters]
         /\ createdBy[j] \in Nat
         /\ run[j] \in Locals
         /\ ChatsOf(j) \in SUBSET Chat
BY DEF CounterInv, VerdictInv, TypeInv, TypeOK, ChatTypeOK, LinkTypeOK, RunTypeOK, ChatsOf

(* A step that counts nothing for job k: what it moves on to is no more    *)
(* than what it comes from.                                                *)
CountsNothing(k) ==
  /\ totals'[k] = totals[k]
  /\ chatStatus'[k] = chatStatus[k]
  /\ chatCounters'[k] = chatCounters[k]
  /\ createdBy'[k] = createdBy[k]
  /\ run'[k].counters \in {run[k].counters, Zero}
  /\ status'[k] \in {"ABSENT", "QUEUED"} \/ runPc'[k] \in {"refreshing", "loading", "reading"} =>
       status[k] \in {"ABSENT", "QUEUED"} \/ runPc[k] \in {"refreshing", "loading", "reading"}
  /\ runPc'[k] \in {"chats", "counting", "finishing"} =>
       /\ runPc[k] \in {"reading", "chats", "counting", "finishing"}
       /\ run'[k].todo = run[k].todo
  /\ runPc'[k] \in InChat =>
       /\ runPc[k] \in InChat
       /\ run'[k].todo = run[k].todo
       /\ run'[k].chat = run[k].chat
       /\ run'[k].counters = run[k].counters
  /\ \/ status'[k] \notin Lifecycle!Verdict
     \/ error'[k]
     \/ status'[k] = status[k] /\ error'[k] = error[k]

LEMMA CountsNothingKeeps ==
  ASSUME CounterInv, NEW k \in Job, CountsNothing(k)
  PROVE  TotalsAreTrue(k)' /\ CountersOf(k)'
<1>0. TotalsAreTrue(k) /\ CountersOf(k)
  BY PerJob DEF CounterInv
<1>1. TotalsAreTrue(k)'
  BY <1>0 DEF CountsNothing, TotalsAreTrue
<1>2. AddsUp(run'[k].counters)
  BY <1>0 DEF CountsNothing, CountersOf, AddsUp, Zero
<1>3. ChatsOf(k)' = ChatsOf(k)
  BY DEF CountsNothing, ChatsOf
<1>4. ASSUME status'[k] \in {"ABSENT", "QUEUED"}
               \/ runPc'[k] \in {"refreshing", "loading", "reading"}
      PROVE  createdBy'[k] = 0 /\ NothingNew(chatCounters'[k], Chat)
  BY <1>0, <1>4 DEF CountsNothing, CountersOf, CreatedIsCounted
<1>5. ASSUME runPc'[k] \in {"chats", "counting", "finishing"}
      PROVE  /\ NothingNew(chatCounters'[k], run'[k].todo)
             /\ createdBy'[k] = NewIn(chatCounters'[k], ChatsOf(k)')
  <2>1. CASE runPc[k] = "reading"
    <3>1. createdBy[k] = 0 /\ NothingNew(chatCounters[k], Chat)
      BY <1>0, <2>1 DEF CountersOf, CreatedIsCounted
    <3>2. /\ chatCounters[k] \in [Chat -> Counters] /\ ChatsOf(k) \in SUBSET Chat
          /\ run[k].todo \in SUBSET Chat
      BY ChatsTyped DEF Locals
    <3>3. NothingNew(chatCounters[k], ChatsOf(k)) /\ NothingNew(chatCounters[k], run[k].todo)
      BY <3>1, <3>2 DEF NothingNew
    <3>4. NewIn(chatCounters[k], ChatsOf(k)) = 0
      BY <3>2, <3>3, NewInIs
    <3>5. QED
      BY <1>3, <1>5, <3>1, <3>3, <3>4 DEF CountsNothing
  <2>2. CASE runPc[k] # "reading"
    BY <1>0, <1>3, <1>5, <2>2 DEF CountsNothing, CountersOf, CreatedIsCounted
  <2>3. QED
    BY <2>1, <2>2
<1>6. ASSUME runPc'[k] \in InChat
      PROVE  /\ run'[k].chat \notin run'[k].todo
             /\ NothingNew(chatCounters'[k], run'[k].todo)
             /\ createdBy'[k] = run'[k].counters.newCount
                                  + NewIn(chatCounters'[k], ChatsOf(k)' \ {run'[k].chat})
  BY <1>0, <1>3, <1>6 DEF CountsNothing, CountersOf, CreatedIsCounted
<1>7. CreatedIsCounted(k)'
  BY <1>4, <1>5, <1>6 DEF CreatedIsCounted
<1>8. \A c \in Chat : AddsUp(chatCounters'[k][c])
  BY <1>0 DEF CountsNothing, CountersOf
<1>9. QED
  BY <1>1, <1>2, <1>7, <1>8 DEF CountersOf

(* What belongs to job k is left alone. *)
LeftAlone(k) ==
  /\ status'[k] = status[k] /\ error'[k] = error[k] /\ totals'[k] = totals[k]
  /\ chatStatus'[k] = chatStatus[k] /\ chatCounters'[k] = chatCounters[k]
  /\ createdBy'[k] = createdBy[k] /\ run'[k] = run[k] /\ runPc'[k] = runPc[k]

LEMMA LeftAloneKeeps ==
  ASSUME CounterInv, NEW k \in Job, LeftAlone(k)
  PROVE  TotalsAreTrue(k)' /\ CountersOf(k)'
<1>1. CountsNothing(k)
  BY DEF LeftAlone, CountsNothing
<1>2. QED
  BY <1>1, CountsNothingKeeps

LEMMA OneJobCounts ==
  ASSUME CounterInv, NEW j \in Job, \A k \in Job \ {j} : LeftAlone(k),
         TotalsAreTrue(j)' /\ CountersOf(j)'
  PROVE  CounterParts'
BY PerJob, LeftAloneKeeps

-----------------------------------------------------------------------------
(* What the invariant of the verdicts says of the places in run(). *)
LEMMA RowsOfRuns ==
  ASSUME CounterInv, NEW j \in Job
  PROVE  /\ runPc \in [Job -> RunPc] /\ status \in [Job -> Lifecycle!Status]
         /\ error \in [Job -> BOOLEAN] /\ run \in [Job -> Locals]
         /\ runPc[j] = "connecting" => status[j] = "QUEUED"
         /\ runPc[j] \in MidRun => status[j] = "RUNNING"
         /\ runPc[j] = "ending" => status[j] \in Terminal
BY DEF CounterInv, VerdictInv, VerdictParts, RowFollowsRun, TypeInv, TypeOK, JobTypeOK,
       RunTypeOK

(* The steps of a run that count nothing. *)
LEMMA RunMovesCountNothing ==
  ASSUME CounterInv, NEW j \in Job,
         \/ RunStart(j) \/ RunConnect(j) \/ RunRefresh(j) \/ RunLoad(j) \/ RunRead(j)
         \/ RunCount(j) \/ RunDeduplicate(j) \/ RunFail(j) \/ RunEnd(j) \/ RunCallFails(j)
         \/ ChatExhausted(j)
  PROVE  CounterParts'
<1> USE DEF CountsNothing, Goto, Answered, Local, Handler, jobVars, chatVars, linkVars,
            reqVars, runVars
<1>1. /\ runPc \in [Job -> RunPc] /\ status \in [Job -> Lifecycle!Status]
      /\ error \in [Job -> BOOLEAN] /\ run \in [Job -> Locals]
      /\ runPc[j] = "connecting" => status[j] = "QUEUED"
      /\ runPc[j] \in MidRun => status[j] = "RUNNING"
      /\ runPc[j] = "ending" => status[j] \in Terminal
  BY RowsOfRuns
<1>2. ASSUME CountsNothing(j), \A k \in Job \ {j} : LeftAlone(k)
      PROVE  CounterParts'
  BY <1>2, CountsNothingKeeps, OneJobCounts
<1>3. CASE RunStart(j)
  <2>1. status[j] = "QUEUED"
    BY <1>3 DEF RunStart, CounterInv, VerdictInv, ControlInv, QueuedIsAlone
  <2>2. CountsNothing(j)
    BY <1>1, <1>3, <2>1 DEF RunStart, InChat, Lifecycle!Verdict
  <2>3. \A k \in Job \ {j} : LeftAlone(k)
    BY <1>1, <1>3 DEF RunStart, LeftAlone
  <2>4. QED
    BY <1>2, <2>2, <2>3
<1>4. CASE RunConnect(j)
  <2>1. CountsNothing(j)
    BY <1>1, <1>4 DEF RunConnect, InChat, ChatPc, Lifecycle!Verdict
  <2>2. \A k \in Job \ {j} : LeftAlone(k)
    BY <1>1, <1>4 DEF RunConnect, LeftAlone
  <2>3. QED
    BY <1>2, <2>1, <2>2
<1>5. CASE RunRefresh(j)
  <2>1. CountsNothing(j)
    BY <1>1, <1>5 DEF RunRefresh, InChat, ChatPc, Lifecycle!Verdict
  <2>2. \A k \in Job \ {j} : LeftAlone(k)
    BY <1>1, <1>5 DEF RunRefresh, LeftAlone
  <2>3. QED
    BY <1>2, <2>1, <2>2
<1>6. CASE RunLoad(j)
  <2>1. run'[j].counters = Zero
    BY <1>1, <1>6 DEF RunLoad, Idle
  <2>2. CountsNothing(j)
    BY <1>1, <1>6, <2>1 DEF RunLoad, InChat, Lifecycle!Verdict
  <2>3. \A k \in Job \ {j} : LeftAlone(k)
    BY <1>1, <1>6 DEF RunLoad, LeftAlone
  <2>4. QED
    BY <1>2, <2>2, <2>3
<1>7. CASE RunRead(j) \/ RunCount(j) \/ RunDeduplicate(j)
  <2>1. CountsNothing(j)
    BY <1>1, <1>7 DEF RunRead, RunCount, RunDeduplicate, InChat, ChatPc, Lifecycle!Verdict
  <2>2. \A k \in Job \ {j} : LeftAlone(k)
    BY <1>1, <1>7 DEF RunRead, RunCount, RunDeduplicate, LeftAlone
  <2>3. QED
    BY <1>2, <2>1, <2>2
<1>8. CASE RunFail(j)
  <2>1. CountsNothing(j)
    BY <1>1, <1>8 DEF RunFail, InChat
  <2>2. \A k \in Job \ {j} : LeftAlone(k)
    BY <1>1, <1>8 DEF RunFail, LeftAlone
  <2>3. QED
    BY <1>2, <2>1, <2>2
<1>9. CASE RunEnd(j)
  <2>1. run'[j].counters = Zero
    BY <1>1, <1>9 DEF RunEnd, Idle
  <2>2. CountsNothing(j)
    BY <1>1, <1>9, <2>1
    DEF RunEnd, InChat, Terminal, Lifecycle!Terminal, Lifecycle!Verdict
  <2>3. \A k \in Job \ {j} : LeftAlone(k)
    BY <1>1, <1>9 DEF RunEnd, LeftAlone
  <2>4. QED
    BY <1>2, <2>2, <2>3
<1>10. CASE RunCallFails(j)
  <2>1. CountsNothing(j)
    BY <1>1, <1>10 DEF RunCallFails, InChat, ChatPc, JobPc
  <2>2. \A k \in Job \ {j} : LeftAlone(k)
    BY <1>1, <1>10 DEF RunCallFails, LeftAlone
  <2>3. QED
    BY <1>2, <2>1, <2>2
<1>11. CASE ChatExhausted(j)
  <2>1. CountsNothing(j)
    BY <1>1, <1>11 DEF ChatExhausted, InChat
  <2>2. \A k \in Job \ {j} : LeftAlone(k)
    BY <1>1, <1>11 DEF ChatExhausted, LeftAlone
  <2>3. QED
    BY <1>2, <2>1, <2>2
<1>12. QED
  BY <1>3, <1>4, <1>5, <1>6, <1>7, <1>8, <1>9, <1>10, <1>11

(* Opening a scan counts nothing; beginning a chat starts from zero. *)
LEMMA BeginAndOpenKeepCounters ==
  ASSUME CounterInv, NEW j \in Job, ChatBegin(j) \/ ChatOpen(j)
  PROVE  CounterParts'
<1> USE DEF Goto, Answered, Local, Handler, jobVars, chatVars, linkVars, reqVars
<1>1. /\ runPc \in [Job -> RunPc] /\ run \in [Job -> Locals] /\ run[j] \in Locals
      /\ runPc[j] \in MidRun => status[j] = "RUNNING"
      /\ chatStatus \in [Job -> [Chat -> ChatStatus]]
  BY RowsOfRuns DEF CounterInv, VerdictInv, TypeInv, TypeOK, ChatTypeOK
<1>2. CASE ChatOpen(j)
  <2>1. /\ run'[j].todo = run[j].todo /\ run'[j].chat = run[j].chat
        /\ run'[j].counters = run[j].counters
    <3>1. \/ UNCHANGED run
          \/ \E lo, hi : run' = [run EXCEPT ![j] = [run[j] EXCEPT !.cursor = hi,
                                                                 !.lowest = lo]]
      BY <1>2 DEF ChatOpen
    <3>2. QED
      BY <1>1, <3>1 DEF Locals
  <2>2. CountsNothing(j)
    BY <1>1, <1>2, <2>1 DEF ChatOpen, CountsNothing, InChat
  <2>3. \A k \in Job \ {j} : LeftAlone(k)
    BY <1>1, <1>2 DEF ChatOpen, LeftAlone
  <2>4. QED
    BY <2>2, <2>3, CountsNothingKeeps, OneJobCounts
<1>3. CASE ChatBegin(j)
  <2>1. PICK c \in run[j].todo :
          /\ chatStatus' = [chatStatus EXCEPT ![j][c] = "RUNNING"]
          /\ run' = [run EXCEPT ![j] = [run[j] EXCEPT !.todo = @ \ {c}, !.chat = c,
                                         !.maxMessageId = Baseline(run[j], c),
                                         !.counters = Zero]]
    BY <1>3 DEF ChatBegin
  <2>2. /\ run'[j].todo = run[j].todo \ {c} /\ run'[j].chat = c /\ run'[j].counters = Zero
        /\ c \in Chat
    BY <1>1, <2>1 DEF Locals
  <2>3. /\ runPc[j] = "chats" /\ runPc'[j] \in {"opening", "failing"}
        /\ status'[j] = "RUNNING"
        /\ UNCHANGED <<error, totals, chatCounters, createdBy>>
    BY <1>1, <1>3 DEF ChatBegin, ChatPc, MidRun
  <2>4. ChatsOf(j)' \ {c} = ChatsOf(j) \ {c}
    BY <1>1, <2>1, <2>2 DEF ChatsOf
  <2>5. /\ NothingNew(chatCounters[j], run[j].todo)
        /\ createdBy[j] = NewIn(chatCounters[j], ChatsOf(j))
        /\ AddsUp(run[j].counters) /\ \A d \in Chat : AddsUp(chatCounters[j][d])
    BY <2>3, PerJob DEF CounterInv, CountersOf, CreatedIsCounted
  <2>6. chatCounters[j][c].newCount = 0
    BY <2>5 DEF NothingNew
  <2>7. /\ NewIn(chatCounters[j], ChatsOf(j)) = NewIn(chatCounters[j], ChatsOf(j) \ {c})
        /\ createdBy[j] \in Nat
    BY <2>2, <2>6, ChatsTyped, NothingNewAddsNothing
  <2>8. Zero.newCount = 0 /\ AddsUp(Zero)
    BY DEF Zero, AddsUp
  <2>9. createdBy[j] = Zero.newCount + NewIn(chatCounters[j], ChatsOf(j) \ {c})
    <3>1. PICK r \in Nat : r = NewIn(chatCounters[j], ChatsOf(j) \ {c})
      BY <2>5, <2>7
    <3>2. createdBy[j] = r /\ Zero.newCount + r = r
      BY <2>5, <2>7, <2>8, <3>1
    <3>3. QED
      BY <3>1, <3>2
  <2>10. CreatedIsCounted(j)'
    BY <2>2, <2>3, <2>4, <2>5, <2>9 DEF CreatedIsCounted, InChat, NothingNew
  <2>11. CountersOf(j)' /\ TotalsAreTrue(j)'
    BY <2>2, <2>3, <2>5, <2>8, <2>10 DEF CountersOf, TotalsAreTrue, Lifecycle!Verdict
  <2>12. \A k \in Job \ {j} : LeftAlone(k)
    BY <1>1, <1>3, <2>1 DEF ChatBegin, LeftAlone
  <2>13. QED
    BY <2>11, <2>12, OneJobCounts
<1>4. QED
  BY <1>2, <1>3

(* One message, in a transaction whose new links the job and its chat both *)
(* count, or of which neither is told.                                     *)
LEMMA MessageKeepsCounters ==
  ASSUME CounterInv, NEW j \in Job, ChatMessage(j) \/ ChatMessageFails(j)
  PROVE  CounterParts'
<1> DEFINE ds == DomainsOf[run[j].chat][run[j].cursor]
<1>1. /\ runPc \in [Job -> RunPc] /\ run \in [Job -> Locals] /\ run[j] \in Locals
      /\ runPc[j] \in MidRun => status[j] = "RUNNING"
      /\ createdBy \in [Job -> Nat]
  BY RowsOfRuns DEF CounterInv, VerdictInv, TypeInv, TypeOK, LinkTypeOK
<1>2. /\ runPc[j] = "scanning"
      /\ UNCHANGED <<status, error, totals, chatStatus, chatCounters>>
  BY DEF ChatMessage, ChatMessageFails, jobVars, chatVars
<1>3. Cardinality(ds \ links) \in Nat /\ Cardinality(ds \cap links) \in Nat
  <2>1. run[j].chat \in Chat /\ run[j].cursor \in 1..MaxMsg
    <3>1. run[j].cursor >= run[j].lowest
      BY DEF ChatMessage, ChatMessageFails
    <3>2. run[j].cursor \in 0..MaxMsg /\ run[j].lowest \in 1..MaxMsg+1
      BY <1>1 DEF Locals
    <3>3. run[j].chat \in Chat
      BY <1>2 DEF CounterInv, VerdictInv, TypeInv, RunShape, AtChat
    <3>4. QED
      BY <3>1, <3>2, <3>3, ConstantsAssumption
  <2>2. ds \in SUBSET Domain
    BY <2>1, ConstantsAssumption
  <2>3. QED
    BY <2>2, Finite
<1> HIDE DEF ds
<1>4. \E new, dup \in Nat :
        /\ run' = [run EXCEPT ![j] = Received(run[j], new, dup)]
        /\ createdBy' = [createdBy EXCEPT ![j] = @ + new]
  <2>1. \/ /\ run' = [run EXCEPT ![j] = Received(run[j], Cardinality(ds \ links),
                                                 Cardinality(ds \cap links))]
           /\ createdBy' = [createdBy EXCEPT ![j] = @ + Cardinality(ds \ links)]
        \/ /\ run' = [run EXCEPT ![j] = Received(run[j], 0, 0)]
           /\ UNCHANGED createdBy
    BY DEF ChatMessage, ChatMessageFails, Local, linkVars, ds
  <2>2. [createdBy EXCEPT ![j] = @ + 0] = createdBy
    BY <1>1
  <2>3. 0 \in Nat
    OBVIOUS
  <2>4. QED
    BY <1>3, <2>1, <2>2, <2>3
<1>5. PICK new \in Nat, dup \in Nat :
        /\ run' = [run EXCEPT ![j] = Received(run[j], new, dup)]
        /\ createdBy' = [createdBy EXCEPT ![j] = @ + new]
  BY <1>4
<1>6. runPc'[j] \in InChat /\ \A k \in Job \ {j} : runPc'[k] = runPc[k]
  BY <1>1, <1>2 DEF ChatMessage, ChatMessageFails, Goto, InChat
<1>7. /\ Received(run[j], new, dup).todo = run[j].todo
      /\ Received(run[j], new, dup).chat = run[j].chat
      /\ Received(run[j], new, dup).counters = Counted(run[j].counters, new, dup)
  BY <1>1 DEF Received, Locals
<1>8. /\ run'[j].todo = run[j].todo /\ run'[j].chat = run[j].chat
      /\ run'[j].counters = Counted(run[j].counters, new, dup)
      /\ createdBy'[j] = createdBy[j] + new
  BY <1>1, <1>5, <1>7
<1>9. run[j].counters \in Counters
  BY <1>1 DEF Locals
<1>10. /\ AddsUp(run[j].counters) /\ run[j].chat \notin run[j].todo
       /\ \A c \in Chat : AddsUp(chatCounters[j][c])
       /\ NothingNew(chatCounters[j], run[j].todo)
       /\ createdBy[j] = run[j].counters.newCount
                           + NewIn(chatCounters[j], ChatsOf(j) \ {run[j].chat})
  BY <1>2, PerJob DEF CounterInv, CountersOf, CreatedIsCounted, InChat
<1>11. AddsUp(run'[j].counters)
  BY <1>8, <1>9, <1>10 DEF AddsUp, Counted, Counters
<1>12. run'[j].counters.newCount = run[j].counters.newCount + new
  BY <1>8 DEF Counted
<1>13. createdBy'[j] = run'[j].counters.newCount
                         + NewIn(chatCounters[j], ChatsOf(j) \ {run[j].chat})
  <2>1. PICK r \in Nat : r = NewIn(chatCounters[j], ChatsOf(j) \ {run[j].chat})
    <3>1. ChatsOf(j) \ {run[j].chat} \in SUBSET Chat
      BY DEF ChatsOf
    <3>2. QED
      BY <3>1, ChatsTyped, NewInIs
  <2>2. PICK n \in Nat : n = run[j].counters.newCount
    BY <1>9 DEF Counters
  <2>3. createdBy[j] = n + r
    BY <1>10, <2>1, <2>2
  <2>4. createdBy'[j] = (n + r) + new
    BY <1>8, <2>3
  <2>5. run'[j].counters.newCount = n + new
    BY <1>12, <2>2
  <2>6. (n + r) + new = (n + new) + r
    OBVIOUS
  <2>7. QED
    BY <2>1, <2>4, <2>5, <2>6
<1>14. ChatsOf(j)' = ChatsOf(j)
  BY <1>2 DEF ChatsOf
<1>15. CreatedIsCounted(j)'
  <2>1. status[j] = "RUNNING"
    BY <1>1, <1>2 DEF MidRun, InChat
  <2>2. QED
    BY <1>2, <1>6, <1>8, <1>10, <1>13, <1>14, <2>1 DEF CreatedIsCounted, InChat
<1>16. CountersOf(j)' /\ TotalsAreTrue(j)'
  <2>1. status[j] = "RUNNING"
    BY <1>1, <1>2 DEF MidRun, InChat
  <2>2. QED
    BY <1>2, <1>10, <1>11, <1>15, <2>1 DEF CountersOf, TotalsAreTrue, Lifecycle!Verdict
<1>17. \A k \in Job \ {j} : LeftAlone(k)
  BY <1>1, <1>2, <1>5, <1>6 DEF LeftAlone
<1>18. QED
  BY <1>16, <1>17, OneJobCounts

(* A chat that ends, well or not, writes the counters it held to its row:  *)
(* also a second time, when the answer to the first was lost.              *)
LEMMA ChatEndKeepsCounters ==
  ASSUME CounterInv, NEW j \in Job, ChatComplete(j) \/ ChatFail(j)
  PROVE  CounterParts'
<1> DEFINE c == run[j].chat
           n == chatCounters[j]
<1>1. /\ runPc \in [Job -> RunPc] /\ run \in [Job -> Locals] /\ run[j] \in Locals
      /\ runPc[j] \in MidRun => status[j] = "RUNNING"
      /\ createdBy[j] \in Nat /\ n \in [Chat -> Counters]
      /\ chatStatus \in [Job -> [Chat -> ChatStatus]]
      /\ chatCounters \in [Job -> [Chat -> Counters]]
  BY RowsOfRuns, ChatsTyped DEF CounterInv, VerdictInv, TypeInv, TypeOK, ChatTypeOK
<1>2. /\ runPc[j] \in {"completing", "failingChat"}
      /\ runPc'[j] \in {"counting", "failing", "failingChat"}
      /\ \A k \in Job \ {j} : runPc'[k] = runPc[k]
      /\ \E v \in {"SUCCEEDED", "FAILED"} : chatStatus' = [chatStatus EXCEPT ![j][c] = v]
      /\ chatCounters' = [chatCounters EXCEPT ![j][c] = run[j].counters]
      /\ UNCHANGED <<status, error, totals, createdBy, run>>
  BY <1>1 DEF ChatComplete, ChatFail, Answered, Goto, Handler, ChatPc, jobVars, linkVars
<1>3. c \in Chat /\ status[j] = "RUNNING" /\ run[j].counters \in Counters
  BY <1>1, <1>2 DEF CounterInv, VerdictInv, TypeInv, RunShape, AtChat, MidRun, InChat, Locals
<1>4. /\ AddsUp(run[j].counters) /\ c \notin run[j].todo
      /\ \A d \in Chat : AddsUp(n[d])
      /\ NothingNew(n, run[j].todo)
      /\ createdBy[j] = run[j].counters.newCount + NewIn(n, ChatsOf(j) \ {c})
  BY <1>2, PerJob DEF CounterInv, CountersOf, CreatedIsCounted, InChat
<1>5. c \in ChatsOf(j)' /\ ChatsOf(j)' \ {c} = ChatsOf(j) \ {c}
  <2>1. /\ chatStatus'[j][c] \in {"SUCCEEDED", "FAILED"}
        /\ \A d \in Chat \ {c} : chatStatus'[j][d] = chatStatus[j][d]
    BY <1>1, <1>2, <1>3
  <2>2. QED
    BY <1>3, <2>1 DEF ChatsOf
<1>6. /\ chatCounters'[j] \in [Chat -> Counters]
      /\ chatCounters'[j][c] = run[j].counters
      /\ \A d \in Chat \ {c} : chatCounters'[j][d] = n[d]
  BY <1>1, <1>2, <1>3
<1>7. /\ ChatsOf(j)' \in SUBSET Chat
      /\ ChatsOf(j) \ {c} \in SUBSET Chat
  BY DEF ChatsOf
<1> HIDE DEF n, c
<1>8. NewIn(chatCounters'[j], ChatsOf(j) \ {c}) = NewIn(n, ChatsOf(j) \ {c})
  BY <1>1, <1>6, <1>7, NewInSame
<1>9. NewIn(chatCounters'[j], ChatsOf(j)') =
        run[j].counters.newCount + NewIn(chatCounters'[j], ChatsOf(j)' \ {c})
  BY <1>5, <1>6, <1>7, NewInIs
<1>10. createdBy[j] = NewIn(chatCounters'[j], ChatsOf(j)')
  BY <1>4, <1>5, <1>8, <1>9
<1>11. NothingNew(chatCounters'[j], run[j].todo)
  <2>1. \A d \in run[j].todo : d \in Chat \ {c}
    BY <1>1, <1>4 DEF Locals
  <2>2. QED
    BY <1>4, <1>6, <2>1 DEF NothingNew
<1>12. CreatedIsCounted(j)'
  BY <1>2, <1>3, <1>4, <1>5, <1>8, <1>10, <1>11 DEF CreatedIsCounted, InChat, c, n
<1>13. \A d \in Chat : AddsUp(chatCounters'[j][d])
  BY <1>4, <1>6
<1>14. CountersOf(j)' /\ TotalsAreTrue(j)'
  BY <1>2, <1>3, <1>4, <1>12, <1>13 DEF CountersOf, TotalsAreTrue, Lifecycle!Verdict
<1>15. \A k \in Job \ {j} : LeftAlone(k)
  BY <1>1, <1>2 DEF LeftAlone
<1>16. QED
  BY <1>14, <1>15, OneJobCounts

-----------------------------------------------------------------------------
(* The totals of a job add up, and count its new links. *)
LEMMA TotalsAddUp ==
  ASSUME CounterInv, NEW j \in Job
  PROVE  /\ TotalOf(j, "foundCount") = TotalOf(j, "newCount") + TotalOf(j, "duplicateCount")
         /\ TotalOf(j, "newCount") = NewIn(chatCounters[j], ChatsOf(j))
<1> DEFINE S == ChatsOf(j)
           f(field) == [c \in Chat |-> chatCounters[j][c][field]]
<1>1. chatCounters[j] \in [Chat -> Counters] /\ S \in SUBSET Chat
  BY ChatsTyped
<1>2. IsFiniteSet(S)
  BY <1>1, ConstantsAssumption, FS_Subset
<1>3. \A c \in S : /\ f("foundCount")[c] \in Nat
                   /\ f("newCount")[c] \in Nat /\ f("duplicateCount")[c] \in Nat
  BY <1>1 DEF Counters
<1>4. \A c \in S : f("foundCount")[c] = f("newCount")[c] + f("duplicateCount")[c]
  BY <1>1, PerJob DEF CounterInv, CountersOf, AddsUp
<1>5. \A field : TotalOf(j, field) = SumFunctionOnSet(f(field), S)
  BY DEF TotalOf
<1>6. NewIn(chatCounters[j], S) = SumFunctionOnSet(f("newCount"), S)
  BY DEF NewIn
<1> HIDE DEF f, S
<1>7. SumFunctionOnSet(f("foundCount"), S) =
        SumFunctionOnSet(f("newCount"), S) + SumFunctionOnSet(f("duplicateCount"), S)
  BY <1>2, <1>3, <1>4, SumOfSum
<1>8. QED
  BY <1>5, <1>6, <1>7 DEF S

(* finish() adds the rows up, when no chat is left. *)
LEMMA FinishKeepsCounters ==
  ASSUME CounterInv, NEW j \in Job, RunFinish(j)
  PROVE  CounterParts'
<1> DEFINE t == [messageCount   |-> TotalOf(j, "messageCount"),
                 foundCount     |-> TotalOf(j, "foundCount"),
                 newCount       |-> TotalOf(j, "newCount"),
                 duplicateCount |-> TotalOf(j, "duplicateCount")]
<1>1. /\ runPc \in [Job -> RunPc] /\ status \in [Job -> Lifecycle!Status]
      /\ totals \in [Job -> Counters]
  BY RowsOfRuns DEF CounterInv, VerdictInv, TypeInv, TypeOK, JobTypeOK
<1>2. /\ runPc[j] = "finishing"
      /\ status' = [status EXCEPT ![j] = VerdictOf(j)]
      /\ totals' = [totals EXCEPT ![j] = t]
      /\ runPc'[j] \in {"ending", "failing"}
      /\ \A k \in Job \ {j} : runPc'[k] = runPc[k]
      /\ UNCHANGED <<error, chatStatus, chatCounters, createdBy, run>>
  BY <1>1 DEF RunFinish, Answered, Goto, Handler, ChatPc, chatVars, linkVars
<1>3. status'[j] \in Lifecycle!Verdict
  BY <1>1, <1>2 DEF VerdictOf, Lifecycle!Verdict
<1>4. /\ AddsUp(run[j].counters) /\ \A c \in Chat : AddsUp(chatCounters[j][c])
      /\ createdBy[j] = NewIn(chatCounters[j], ChatsOf(j))
  BY <1>2, PerJob DEF CounterInv, CountersOf, CreatedIsCounted
<1>5. AddsUp(t) /\ t.newCount = createdBy[j]
  BY <1>4, TotalsAddUp DEF AddsUp
<1> HIDE DEF t
<1>6. totals'[j] = t
  BY <1>1, <1>2
<1>7. CreatedIsCounted(j)'
  BY <1>2, <1>3 DEF CreatedIsCounted, Lifecycle!Verdict, InChat
<1>8. CountersOf(j)' /\ TotalsAreTrue(j)'
  BY <1>2, <1>4, <1>5, <1>6, <1>7 DEF CountersOf, TotalsAreTrue
<1>9. \A k \in Job \ {j} : LeftAlone(k)
  BY <1>1, <1>2 DEF LeftAlone
<1>10. QED
  BY <1>8, <1>9, OneJobCounts

-----------------------------------------------------------------------------
(* Requests: a new job has created nothing. *)
LEMMA CreateKeepsCounters ==
  ASSUME CounterInv, NEW r \in Request,
         \/ CreateEnter(r) \/ CreateRefuse(r) \/ CreateCheck(r)
         \/ CreateLookUp(r) \/ CreateInsert(r)
  PROVE  CounterParts'
<1> USE DEF jobVars, chatVars, linkVars, runVars
<1>1. CASE CreateInsert(r)
  <2>1. PICK j \in Job :
          /\ status[j] = "ABSENT"
          /\ status' = [status EXCEPT ![j] = "QUEUED"]
          /\ \E row : chatStatus' = [chatStatus EXCEPT ![j] = row]
    BY <1>1 DEF CreateInsert
  <2>2. UNCHANGED <<error, totals, chatCounters, createdBy, run, runPc>>
    BY <1>1 DEF CreateInsert
  <2>3. /\ status \in [Job -> Lifecycle!Status] /\ runPc[j] = "off"
        /\ chatStatus \in [Job -> [Chat -> ChatStatus]]
    BY <1>1 DEF CounterInv, VerdictInv, TypeInv, TypeOK, JobTypeOK, ChatTypeOK, CreateInsert,
                ControlInv, CheckedIsClear
  <2>4. status'[j] = "QUEUED"
    BY <2>1, <2>3
  <2>5. CountersOf(j)
    BY PerJob DEF CounterInv
  <2>6. CreatedIsCounted(j)'
    BY <2>1, <2>2, <2>3, <2>4, <2>5 DEF CountersOf, CreatedIsCounted, InChat
  <2>7. CountersOf(j)' /\ TotalsAreTrue(j)'
    BY <2>2, <2>4, <2>5, <2>6 DEF CountersOf, TotalsAreTrue, Lifecycle!Verdict
  <2>8. \A k \in Job \ {j} : LeftAlone(k)
    BY <2>1, <2>2, <2>3 DEF LeftAlone
  <2>9. QED
    BY <2>7, <2>8, OneJobCounts
<1>2. CASE ~CreateInsert(r)
  <2>1. \A k \in Job : LeftAlone(k)
    BY <1>2 DEF LeftAlone, CreateEnter, CreateRefuse, CreateCheck, CreateLookUp
  <2>2. QED
    BY <2>1, LeftAloneKeeps, PerJob
<1>3. QED
  BY <1>1, <1>2

(* A crash, a restart, and what others do. *)
LEMMA WorldKeepsCounters ==
  ASSUME CounterInv,
         \/ Crash \/ Boot \/ AdminRefresh \/ Disconnect
         \/ \E j \in Job : RunFailFails(j)
         \/ \E c \in Chat : Post(c)
         \/ UNCHANGED vars
  PROVE  CounterParts'
<1> USE DEF jobVars, chatVars, linkVars, runVars
<1>1. CASE Down
  <2>1. \A k \in Job : CountsNothing(k)
    BY <1>1 DEF Down, CountsNothing, InChat, Idle
  <2>2. QED
    BY <2>1, CountsNothingKeeps, PerJob
<1>2. CASE Boot
  <2>1. ASSUME NEW k \in Job
        PROVE  CountsNothing(k)
    <3>1. UNCHANGED <<totals, chatStatus, chatCounters, createdBy, run, runPc>>
      BY <1>2 DEF Boot
    <3>2. runPc[k] = "off"
      BY <1>2 DEF Boot, CounterInv, VerdictInv, VerdictParts, DownIsOff
    <3>3. IF LeftOver(k) THEN status'[k] = "INTERRUPTED"
          ELSE status'[k] = status[k] /\ error'[k] = error[k]
      BY <1>2 DEF Boot, CounterInv, VerdictInv, TypeInv, TypeOK, JobTypeOK
    <3>4. QED
      BY <3>1, <3>2, <3>3 DEF CountsNothing, InChat, Lifecycle!Verdict
  <2>2. QED
    BY <2>1, CountsNothingKeeps, PerJob
<1>3. CASE AdminRefresh \/ Disconnect \/ (\E c \in Chat : Post(c)) \/ UNCHANGED vars
  <2>1. \A k \in Job : LeftAlone(k)
    BY <1>3 DEF LeftAlone, AdminRefresh, Disconnect, Post, vars
  <2>2. QED
    BY <2>1, LeftAloneKeeps, PerJob
<1>4. QED
  BY <1>1, <1>2, <1>3 DEF Crash, RunFailFails

LEMMA NextKeepsCounters == CounterInv /\ [Next]_vars => CounterInv'
<1> SUFFICES ASSUME CounterInv, [Next]_vars
             PROVE  CounterParts'
  BY NextKeepsVerdict DEF CounterInv
<1>1. ASSUME NEW r \in Request,
             \/ CreateEnter(r) \/ CreateRefuse(r) \/ CreateCheck(r)
             \/ CreateLookUp(r) \/ CreateInsert(r)
      PROVE  CounterParts'
  BY <1>1, CreateKeepsCounters
<1>2. ASSUME NEW j \in Job, RunStep(j) \/ RunCallFails(j) \/ ChatMessageFails(j)
      PROVE  CounterParts'
  BY <1>2, RunMovesCountNothing, BeginAndOpenKeepCounters, MessageKeepsCounters,
     ChatEndKeepsCounters, FinishKeepsCounters DEF RunStep
<1>3. CASE \/ Crash \/ Boot \/ AdminRefresh \/ Disconnect
           \/ \E j \in Job : RunFailFails(j)
           \/ \E c \in Chat : Post(c)
           \/ UNCHANGED vars
  BY <1>3, WorldKeepsCounters
<1>4. QED
  BY <1>1, <1>2, <1>3 DEF Next

LEMMA InitCounters == Init => CounterInv
<1> SUFFICES ASSUME Init, NEW j \in Job
             PROVE  TotalsAreTrue(j) /\ CountersOf(j)
  BY InitVerdict, PerJob DEF CounterInv
<1>1. TotalsAreTrue(j)
  BY DEF Init, TotalsAreTrue, Lifecycle!Verdict
<1>2. CountersOf(j)
  BY DEF Init, CountersOf, CreatedIsCounted, NothingNew, AddsUp, Zero, Idle, InChat
<1>3. QED
  BY <1>1, <1>2

(* The inductive invariant of the counters: what a job created is in the   *)
(* rows of the chats it has done and in what it holds for the one it is at.*)
THEOREM CounterInvariant == Spec => []CounterInv
<1>1. QED
  BY InitCounters, NextKeepsCounters, PTL DEF Spec

(* The totals that finish() writes (472-501) add up and count the links    *)
(* that the job's transactions created and told it of, for any number of   *)
(* chats and hosts, chats that failed half-way included.                   *)
THEOREM CountersAreTrueHolds == Spec => []CountersAreTrue
<1>1. CounterInv => CountersAreTrue
  BY DEF CounterInv, CounterParts
<1>2. QED
  BY <1>1, CounterInvariant, PTL
=============================================================================
