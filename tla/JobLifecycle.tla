---------------------------- MODULE JobLifecycle ----------------------------
(***************************************************************************)
(* What POST /sync/jobs promises of a synchronisation job, whatever the    *)
(* runner does inside: jobs are submitted one at a time, each one goes     *)
(* from QUEUED to RUNNING to a verdict, a restart interrupts whatever was  *)
(* left over, and a job that has ended never changes again.                *)
(*                                                                         *)
(* The statuses are the enum SyncJobStatus of prisma/schema.prisma;        *)
(* "ABSENT" stands for a row that has not been inserted yet.               *)
(***************************************************************************)
EXTENDS FiniteSets

CONSTANT Job        \* identifiers of the rows of SyncJob

VARIABLE status     \* Job -> the row's status

Active   == {"QUEUED", "RUNNING"}
Verdict  == {"SUCCEEDED", "PARTIALLY_SUCCEEDED", "FAILED"}
Terminal == Verdict \union {"INTERRUPTED"}
Status   == {"ABSENT"} \union Active \union Terminal

-----------------------------------------------------------------------------

Init == status = [j \in Job |-> "ABSENT"]

(* A job is accepted only while no other job is active. *)
Submit(j) ==
  /\ status[j] = "ABSENT"
  /\ \A k \in Job : status[k] \notin Active
  /\ status' = [status EXCEPT ![j] = "QUEUED"]

Start(j) ==
  /\ status[j] = "QUEUED"
  /\ status' = [status EXCEPT ![j] = "RUNNING"]

(* The run ends with a verdict over its chats. *)
Conclude(j) ==
  /\ status[j] = "RUNNING"
  /\ \E v \in Verdict : status' = [status EXCEPT ![j] = v]

(* The run gives up, possibly before it managed to report that it started. *)
GiveUp(j) ==
  /\ status[j] \in Active
  /\ status' = [status EXCEPT ![j] = "FAILED"]

(* A restart of the server interrupts every job that was left over. *)
Interrupt ==
  status' = [j \in Job |-> IF status[j] \in Active THEN "INTERRUPTED"
                                                    ELSE status[j]]

Next ==
  \/ \E j \in Job : Submit(j) \/ Start(j) \/ Conclude(j) \/ GiveUp(j)
  \/ Interrupt

Spec == Init /\ [][Next]_status
=============================================================================
