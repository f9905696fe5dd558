------------------------------ MODULE JobQueue ------------------------------
(***************************************************************************)
(* The image job queue of the backend (app/job_queue.py): rows of          *)
(* ImageGenerationQueue, the single worker thread that runs them on        *)
(* ComfyUI, the cancel requests of the web threads, the durable outbox     *)
(* (completion_pending) and the recovery that runs before the worker.      *)
(*                                                                         *)
(* Every action ends at a database commit or at a call of ComfyUI: between *)
(* two of them another thread may run and the process may die.  The        *)
(* callback to the owner of a job is one action here; StudioRuns replaces  *)
(* it by the steps of one owner.                                           *)
(***************************************************************************)
EXTENDS Naturals, FiniteSets

CONSTANTS
  MaxJobs,      \* bound: how many rows are ever inserted
  Requests,     \* web threads that may be inside cancel_job
  MaxCrashes,   \* bound: how often the process dies
  MaxFaults,    \* bound: how many commits fail
  FaultAt       \* the commits that may fail (the worker's pc at the commit)

ASSUME QueueAssumption ==
  /\ MaxJobs \in Nat /\ MaxCrashes \in Nat /\ MaxFaults \in Nat
  /\ FaultAt \subseteq {"claim", "publish", "republish", "settle", "ack", "link"}

Jobs == 1 .. MaxJobs
NoJob == 0

VARIABLES
  status,    \* ImageGenerationQueue.status; "none" before the row exists
  pending,   \* completion_pending: an outcome still owed to the owner
  prompt,    \* comfyui_prompt_id is set
  result,    \* result_filename is set
  remote,    \* what ComfyUI knows of the job's prompt
  sent,      \* history: how many prompts ComfyUI accepted for the job
  heard,     \* history: the owner was called through the outbox
  worker,    \* where process_one stands, and its local variables
  cancels,   \* cancel_job: the job a request has read as not terminal
  process,   \* the server process: "down", "recovering", "up"
  gpuBusy,   \* training or vision holds the GPU (flags or lease)
  crashes, faults

rowVars == <<status, pending, prompt, result>>
histVars == <<sent, heard>>
boundVars == <<crashes, faults>>
queueVars == <<status, pending, prompt, result, remote, sent, heard, worker,
               cancels, process, gpuBusy, crashes, faults>>

Live == {"pending", "processing", "sent_to_comfy"}
Terminal == {"completed", "failed", "cancelled"}
JobStatus == {"none"} \cup Live \cup Terminal
RemoteState == {"absent", "queued", "done", "error", "lost"}
WorkerPC == {"idle", "claim", "submit", "publish", "republish", "poll",
             "reread", "settle", "deliver", "callback", "ack"}

(* `outbox' tells the two callers of _dispatch_completion apart: the durable *)
(* delivery, which acknowledges afterwards, and the direct call.             *)
WorkerState ==
  [pc : WorkerPC, job : 0 .. MaxJobs, failed : BOOLEAN, file : BOOLEAN,
   outbox : BOOLEAN]

Idle == [pc |-> "idle", job |-> NoJob, failed |-> FALSE, file |-> FALSE,
         outbox |-> FALSE]

RowsOK ==
  /\ status \in [Jobs -> JobStatus]
  /\ pending \in [Jobs -> BOOLEAN]
  /\ prompt \in [Jobs -> BOOLEAN]
  /\ result \in [Jobs -> BOOLEAN]
  /\ remote \in [Jobs -> RemoteState]
  /\ sent \in [Jobs -> Nat]
  /\ heard \in [Jobs -> BOOLEAN]

ProcessOK ==
  /\ cancels \in [Requests -> 0 .. MaxJobs]
  /\ process \in {"down", "recovering", "up"}
  /\ gpuBusy \in BOOLEAN
  /\ crashes \in 0 .. MaxCrashes
  /\ faults \in 0 .. MaxFaults

WorkerOK ==
  /\ worker \in WorkerState
  /\ worker.pc # "idle" => worker.job \in Jobs

TypeOK == RowsOK /\ ProcessOK /\ WorkerOK

QueueInit ==
  /\ status = [j \in Jobs |-> "none"]
  /\ pending = [j \in Jobs |-> FALSE]
  /\ prompt = [j \in Jobs |-> FALSE]
  /\ result = [j \in Jobs |-> FALSE]
  /\ remote = [j \in Jobs |-> "absent"]
  /\ sent = [j \in Jobs |-> 0]
  /\ heard = [j \in Jobs |-> FALSE]
  /\ worker = Idle
  /\ cancels = [r \in Requests |-> NoJob]
  /\ process = "recovering"
  /\ gpuBusy = FALSE
  /\ crashes = 0
  /\ faults = 0

-----------------------------------------------------------------------------
(* Helpers of the worker's steps.                                          *)

At(pc) == worker.pc = pc
J == worker.job
Goto(pc) == worker' = [worker EXCEPT !.pc = pc]
Begin(j, pc) ==
  worker' = [pc |-> pc, job |-> j, failed |-> FALSE, file |-> FALSE, outbox |-> FALSE]
Conclude(failed, file) ==
  worker' = [worker EXCEPT !.pc = "reread", !.failed = failed, !.file = file]
(* _dispatch_completion called without the outbox, always as a failure.    *)
TellDirectly(file) ==
  worker' = [worker EXCEPT !.pc = "callback", !.failed = TRUE, !.file = file,
                           !.outbox = FALSE]
(* _deliver_pending_completion reads the row, then dispatches.             *)
Deliver(j) ==
  worker' = [pc |-> "callback", job |-> j, failed |-> status[j] # "completed",
             file |-> result[j], outbox |-> TRUE]

Fault(pc) ==
  /\ pc \in FaultAt
  /\ faults < MaxFaults
  /\ faults' = faults + 1

Ready == {j \in Jobs : status[j] \in {"sent_to_comfy", "pending"}}
Before(j, k) ==
  \/ status[j] = "sent_to_comfy" /\ status[k] # "sent_to_comfy"
  \/ status[j] = status[k] /\ j <= k
First(j) == j \in Ready /\ \A k \in Ready : Before(j, k)

-----------------------------------------------------------------------------
(* The worker: process_one.                                                *)

DrainOutbox(j) ==
  /\ process = "up" /\ At("idle") /\ pending[j]
  /\ Deliver(j)
  /\ UNCHANGED <<rowVars, histVars, boundVars, remote, cancels, process, gpuBusy>>

(* The flags are clear and the lease is acquired; the oldest job is read.  *)
Pick(j) ==
  /\ process = "up" /\ At("idle") /\ ~gpuBusy
  /\ \A k \in Jobs : ~pending[k]
  /\ First(j)
  /\ Begin(j, IF status[j] = "pending" THEN "claim" ELSE "poll")
  /\ UNCHANGED <<rowVars, histVars, boundVars, remote, cancels, process, gpuBusy>>

Claim ==
  /\ At("claim")
  /\ \/ /\ status[J] = "pending"
        /\ status' = [status EXCEPT ![J] = "processing"]
        /\ Goto("submit")
        /\ UNCHANGED faults
     \/ /\ status[J] # "pending"          \* cancelled since the SELECT
        /\ worker' = Idle
        /\ UNCHANGED <<status, faults>>
     \/ /\ Fault("claim")
        /\ Conclude(TRUE, FALSE)
        /\ UNCHANGED status
  /\ UNCHANGED <<pending, prompt, result, histVars, crashes, remote, cancels,
                 process, gpuBusy>>

(* The answer of queue_prompt_to_comfyui may be lost after the prompt was  *)
(* accepted: the second disjunct.                                          *)
Submit ==
  /\ At("submit")
  /\ \/ /\ remote' = [remote EXCEPT ![J] = "queued"]
        /\ sent' = [sent EXCEPT ![J] = @ + 1]
        /\ Goto("publish") \/ Conclude(TRUE, FALSE)
     \/ /\ Conclude(TRUE, FALSE)
        /\ UNCHANGED <<remote, sent>>
  /\ UNCHANGED <<rowVars, heard, boundVars, cancels, process, gpuBusy>>

(* Defect: the prompt id is published whatever the row became.             *)
PublishBlindly ==
  /\ At("publish") \/ At("republish")
  /\ status' = [status EXCEPT ![J] = "sent_to_comfy"]
  /\ prompt' = [prompt EXCEPT ![J] = TRUE]
  /\ Goto("poll")
  /\ UNCHANGED <<pending, result, histVars, boundVars, remote, cancels, process,
                 gpuBusy>>

(* Only advance from `processing'; the first failed commit is retried.     *)
Publish ==
  /\ At("publish") \/ At("republish")
  /\ \/ /\ status[J] = "processing"
        /\ status' = [status EXCEPT ![J] = "sent_to_comfy"]
        /\ prompt' = [prompt EXCEPT ![J] = TRUE]
        /\ Goto("poll")
        /\ UNCHANGED faults
     \/ /\ status[J] # "processing"       \* cancelled during the submission
        /\ TellDirectly(FALSE)
        /\ UNCHANGED <<status, prompt, faults>>
     \/ /\ Fault(worker.pc)
        /\ IF At("publish") THEN Goto("republish") ELSE Conclude(TRUE, FALSE)
        /\ UNCHANGED <<status, prompt>>
  /\ UNCHANGED <<pending, result, histVars, crashes, remote, cancels, process,
                 gpuBusy>>

(* _poll_outputs.  The last disjunct is the deadline, three unavailable    *)
(* histories, an unusable file name or a failed heartbeat: possible at any *)
(* time.  An output already in the history is returned before the row is   *)
(* looked at.                                                              *)
Poll ==
  /\ At("poll")
  /\ \/ prompt[J] /\ remote[J] = "done" /\ Conclude(FALSE, TRUE)
     \/ prompt[J] /\ remote[J] = "error" /\ Conclude(TRUE, FALSE)
     \/ status[J] = "cancelled" /\ remote[J] # "done" /\ Conclude(TRUE, FALSE)
     \/ Conclude(TRUE, FALSE)
  /\ UNCHANGED <<rowVars, histVars, boundVars, remote, cancels, process, gpuBusy>>

Reread ==
  /\ At("reread")
  /\ IF status[J] = "cancelled" THEN TellDirectly(worker.file) ELSE Goto("settle")
  /\ UNCHANGED <<rowVars, histVars, boundVars, remote, cancels, process, gpuBusy>>

(* Defect: the terminal commit does not raise completion_pending.          *)
SettleWithoutFlag ==
  /\ At("settle")
  /\ status' = [status EXCEPT ![J] = IF worker.failed THEN "failed" ELSE "completed"]
  /\ result' = [result EXCEPT ![J] = worker.file]
  /\ TellDirectly(worker.file)
  /\ UNCHANGED <<pending, prompt, histVars, boundVars, remote, cancels, process,
                 gpuBusy>>

(* The terminal state and the outbox flag are one conditional update.      *)
Settle ==
  /\ At("settle")
  /\ \/ /\ status[J] \in {"processing", "sent_to_comfy"}
        /\ status' = [status EXCEPT ![J] = IF worker.failed THEN "failed"
                                                            ELSE "completed"]
        /\ result' = [result EXCEPT ![J] = worker.file]
        /\ pending' = [pending EXCEPT ![J] = TRUE]
        /\ Goto("deliver")
        /\ UNCHANGED faults
     \/ /\ status[J] \notin {"processing", "sent_to_comfy"}
        /\ TellDirectly(worker.file)
        /\ UNCHANGED <<status, result, pending, faults>>
     \/ /\ Fault("settle")                \* the exception leaves process_one
        /\ worker' = Idle
        /\ UNCHANGED <<status, result, pending>>
  /\ UNCHANGED <<prompt, histVars, crashes, remote, cancels, process, gpuBusy>>

(* Defect: the outcome is acknowledged before the owner is called.         *)
AcknowledgeFirst ==
  /\ At("deliver")
  /\ Deliver(J)
  /\ pending' = [pending EXCEPT ![J] = FALSE]
  /\ UNCHANGED <<status, prompt, result, histVars, boundVars, remote, cancels,
                 process, gpuBusy>>

DeliverSettled ==
  /\ At("deliver")
  /\ Deliver(J)
  /\ UNCHANGED <<rowVars, histVars, boundVars, remote, cancels, process, gpuBusy>>

(* _dispatch_completion returns whatever its callback did.                 *)
CallbackEnds ==
  /\ At("callback")
  /\ heard' = IF worker.outbox THEN [heard EXCEPT ![J] = TRUE] ELSE heard
  /\ worker' = IF worker.outbox THEN [worker EXCEPT !.pc = "ack"] ELSE Idle
  /\ UNCHANGED <<rowVars, sent, remote, cancels, process, gpuBusy>>

CallbackReturns == CallbackEnds /\ UNCHANGED boundVars
CallbackFails == CallbackEnds /\ Fault("link") /\ UNCHANGED crashes

(* A failed acknowledgement keeps the outcome owed; during recovery it     *)
(* aborts the start of the server.                                         *)
Ack ==
  /\ At("ack")
  /\ worker' = Idle
  /\ \/ /\ pending' = [pending EXCEPT ![J] = FALSE]
        /\ UNCHANGED <<faults, process>>
     \/ /\ Fault("ack")
        /\ process' = IF process = "recovering" THEN "down" ELSE process
        /\ UNCHANGED pending
  /\ UNCHANGED <<status, prompt, result, histVars, crashes, remote, cancels,
                 gpuBusy>>

-----------------------------------------------------------------------------
(* The web threads.                                                        *)

(* Ids follow created_at; the id of an insert that failed is skipped.      *)
AddJob(j) ==
  /\ process = "up"
  /\ \A k \in Jobs : k >= j => status[k] = "none"
  /\ status' = [status EXCEPT ![j] = "pending"]
  /\ UNCHANGED <<pending, prompt, result, histVars, boundVars, remote, worker,
                 cancels, process, gpuBusy>>

(* cancel_job reads the row through the ORM, then writes it by primary key:*)
(* what the worker commits in between is overwritten.                      *)
CancelRead(r, j) ==
  /\ process = "up" /\ cancels[r] = NoJob
  /\ status[j] \in Live
  /\ cancels' = [cancels EXCEPT ![r] = j]
  /\ UNCHANGED <<rowVars, histVars, boundVars, remote, worker, process, gpuBusy>>

CancelWrite(r) ==
  /\ cancels[r] # NoJob
  /\ status' = [status EXCEPT ![cancels[r]] = "cancelled"]
  /\ cancels' = [cancels EXCEPT ![r] = NoJob]
  /\ UNCHANGED <<pending, prompt, result, histVars, boundVars, remote, worker,
                 process, gpuBusy>>

-----------------------------------------------------------------------------
(* ComfyUI and the other users of the GPU.                                 *)

RemoteStep(j) ==
  /\ remote[j] = "queued"
  /\ \E s \in {"done", "error", "lost"} : remote' = [remote EXCEPT ![j] = s]
  /\ UNCHANGED <<rowVars, histVars, boundVars, worker, cancels, process, gpuBusy>>

(* The lease excludes them while the worker holds it (GpuLease).           *)
HoldsLease ==
  worker.pc \in {"claim", "submit", "publish", "republish", "poll", "reread",
                 "settle", "deliver"}
GpuChanges ==
  /\ ~HoldsLease
  /\ gpuBusy' = ~gpuBusy
  /\ UNCHANGED <<rowVars, histVars, boundVars, remote, worker, cancels, process>>

-----------------------------------------------------------------------------
(* Crash, and JobQueueManager.start with _recover_stuck_jobs.              *)

Crash ==
  /\ process # "down" /\ crashes < MaxCrashes
  /\ crashes' = crashes + 1
  /\ process' = "down"
  /\ worker' = Idle
  /\ cancels' = [r \in Requests |-> NoJob]
  /\ UNCHANGED <<rowVars, histVars, remote, gpuBusy, faults>>

Start ==
  /\ process = "down"
  /\ process' = "recovering"
  /\ UNCHANGED <<rowVars, histVars, boundVars, remote, worker, cancels, gpuBusy>>

RecoverOutbox(j) ==
  /\ process = "recovering" /\ At("idle") /\ pending[j]
  /\ Deliver(j)
  /\ UNCHANGED <<rowVars, histVars, boundVars, remote, cancels, process, gpuBusy>>

(* Defect: the restart puts an interrupted submission back in the queue.   *)
RequeueProcessing(j) ==
  /\ process = "recovering" /\ At("idle")
  /\ \A k \in Jobs : ~pending[k]
  /\ status[j] = "processing"
  /\ status' = [status EXCEPT ![j] = "pending"]
  /\ UNCHANGED <<pending, prompt, result, histVars, boundVars, remote, worker,
                 cancels, process, gpuBusy>>

(* `processing' is the ambiguous submit window: fail it, do not repeat it. *)
RecoverProcessing(j) ==
  /\ process = "recovering" /\ At("idle")
  /\ \A k \in Jobs : ~pending[k]
  /\ status[j] = "processing"
  /\ status' = [status EXCEPT ![j] = "failed"]
  /\ pending' = [pending EXCEPT ![j] = TRUE]
  /\ Begin(j, "deliver")
  /\ UNCHANGED <<prompt, result, histVars, boundVars, remote, cancels, process, gpuBusy>>

(* Defect: recovery replays the outbox and forgets `processing' rows.      *)
RecoverOutboxOnly ==
  /\ process = "recovering" /\ At("idle")
  /\ \A j \in Jobs : ~pending[j]
  /\ process' = "up"
  /\ UNCHANGED <<rowVars, histVars, boundVars, remote, worker, cancels, gpuBusy>>

RecoveryDone ==
  /\ process = "recovering" /\ At("idle")
  /\ \A j \in Jobs : ~pending[j] /\ status[j] # "processing"
  /\ process' = "up"
  /\ UNCHANGED <<rowVars, histVars, boundVars, remote, worker, cancels, gpuBusy>>

-----------------------------------------------------------------------------
WorkerRuns ==
  \/ Claim \/ Submit \/ Publish \/ Poll \/ Reread \/ Settle \/ DeliverSettled \/ Ack
  \/ \E j \in Jobs : DrainOutbox(j) \/ Pick(j)

Recovery ==
  Start \/ RecoveryDone \/ \E j \in Jobs : RecoverOutbox(j) \/ RecoverProcessing(j)

Surroundings == GpuChanges \/ \E j \in Jobs : RemoteStep(j)

QueueNext ==
  \/ WorkerRuns
  \/ CallbackReturns \/ CallbackFails
  \/ Recovery
  \/ Surroundings
  \/ \E j \in Jobs : AddJob(j)
  \/ \E r \in Requests : CancelWrite(r) \/ \E j \in Jobs : CancelRead(r, j)
  \/ Crash

QueueSpec == QueueInit /\ [][QueueNext]_queueVars

(* The worker thread loops for ever, the supervisor restarts the process,  *)
(* a request that was admitted returns, polls end at their deadline.       *)
QueueFairness ==
  /\ WF_queueVars(WorkerRuns \/ CallbackReturns \/ CallbackFails)
  /\ WF_queueVars(Recovery)
  /\ \A r \in Requests : WF_queueVars(CancelWrite(r))

FairQueueSpec == QueueSpec /\ QueueFairness

-----------------------------------------------------------------------------
(* Properties.                                                             *)

(* ComfyUI never gets a second prompt for one job, whatever crashes and    *)
(* failed commits do: an ambiguous submission is failed on restart, not    *)
(* repeated (_recover_stuck_jobs).                                         *)
AtMostOnePrompt == \A j \in Jobs : sent[j] <= 1

(* The outcome of a job that ran to its end is never lost: either its      *)
(* owner was called since, or the outbox still holds it, also across a     *)
(* crash between the commit, the callback and the acknowledgement.         *)
OutcomeIsOwedOrHeard ==
  \A j \in Jobs : status[j] \in {"completed", "failed"} => pending[j] \/ heard[j]

(* A job that ended never runs again and never changes its outcome, except *)
(* that a cancel which read the row before it ended may still overwrite    *)
(* it; a cancelled row is never resurrected by the worker's late commits.  *)
TerminalIsFinal ==
  [][\A j \in Jobs : status[j] \in Terminal => status'[j] \in {status[j], "cancelled"}]_queueVars

(* The queue implements the Outbox: a row is alive until its terminal      *)
(* commit, the flag is what is owed, and every worker, request, recovery   *)
(* or crash step is one step of that specification or none.                *)
Promise == INSTANCE Outbox WITH
  life <- [j \in Jobs |-> IF status[j] = "none" THEN "new"
                          ELSE IF status[j] \in Live THEN "live" ELSE "ended"],
  owed <- pending,
  told <- heard
KeepsThePromise == Promise!Spec

(* When the others leave the GPU alone, every job ends; one whose terminal *)
(* commit failed before its prompt was published waits for the next start. *)
(* Every outcome in the outbox is delivered and acknowledged.              *)
Unsettled(j) == status[j] = "processing" /\ faults > 0 /\ worker.job # j
EveryJobEnds ==
  /\ <>[](~gpuBusy) =>
       \A j \in Jobs : status[j] = "pending" ~> status[j] \in Terminal \/ Unsettled(j)
  /\ \A j \in Jobs : pending[j] ~> ~pending[j]
=============================================================================
