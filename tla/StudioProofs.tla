---------------------------- MODULE StudioProofs -----------------------------
(***************************************************************************)
(* Proofs about the job queue and the Test Studio runs that use it, for any *)
(* number of jobs, requests, cells, crashes and failed commits.            *)
(*                                                                         *)
(* First JobQueue by itself: the inductive invariant QueueInv says where the *)
(* worker can stand with respect to the rows, and the rest follows from it. *)
(* Then StudioRuns: a Studio run does to the queue only what JobQueue allows, *)
(* so that what was shown of the queue holds of it as well; no cell is     *)
(* stranded, and a shown image is a committed one of its own cell.         *)
(***************************************************************************)
EXTENDS StudioRuns, TLAPS

(* A row the worker is about to submit was never submitted and will not be *)
(* claimed again; what it delivers through the outbox is owed.             *)
WorkerInv ==
  /\ worker.pc = "submit" =>
       sent[worker.job] = 0 /\ status[worker.job] \notin {"none", "pending"}
  /\ worker.pc = "deliver" => pending[worker.job]
  /\ worker.pc = "callback" /\ worker.outbox => pending[worker.job]
  /\ worker.pc = "ack" => pending[worker.job] /\ heard[worker.job]

RowInv ==
  \A j \in Jobs :
    /\ sent[j] \in {0, 1}
    /\ status[j] \in {"none", "pending"} => sent[j] = 0
    /\ pending[j] => status[j] \in Terminal
    /\ heard[j] => status[j] \in Terminal
    /\ status[j] \in {"completed", "failed"} => pending[j] \/ heard[j]

CancelInv == \A r \in Requests : cancels[r] # NoJob => status[cancels[r]] # "none"

QueueInv == TypeOK /\ WorkerInv /\ RowInv /\ CancelInv

USE QueueAssumption DEF QueueAssumption, Jobs, NoJob

-----------------------------------------------------------------------------
(* The shapes in which a step leaves the worker's local state.             *)
LEMMA GotoType ==
  ASSUME WorkerOK, worker.pc # "idle", NEW pc \in WorkerPC, Goto(pc)
  PROVE  WorkerOK'
  BY DEF WorkerOK, WorkerState, Goto

LEMMA ConcludeType ==
  ASSUME WorkerOK, worker.pc # "idle", NEW failed \in BOOLEAN,
         NEW file \in BOOLEAN, Conclude(failed, file)
  PROVE  WorkerOK'
  BY DEF WorkerOK, WorkerState, Conclude, WorkerPC

LEMMA TellType ==
  ASSUME WorkerOK, worker.pc # "idle", NEW file \in BOOLEAN, TellDirectly(file)
  PROVE  WorkerOK'
  BY DEF WorkerOK, WorkerState, TellDirectly, WorkerPC

LEMMA IdleType == ASSUME worker' = Idle PROVE WorkerOK'
  BY DEF WorkerOK, WorkerState, Idle, WorkerPC

LEMMA BeginType ==
  ASSUME NEW j \in Jobs, NEW pc \in WorkerPC, Begin(j, pc)
  PROVE  WorkerOK'
  BY DEF Begin, WorkerOK, WorkerState

LEMMA DeliverType ==
  ASSUME RowsOK, NEW j \in Jobs, Deliver(j)
  PROVE  WorkerOK'
<1> DEFINE f == status[j] # "completed"
<1>1. f \in BOOLEAN /\ result[j] \in BOOLEAN
  BY DEF RowsOK
<1>2. worker' = [pc |-> "callback", job |-> j, failed |-> f, file |-> result[j],
                 outbox |-> TRUE]
  BY DEF Deliver
<1>3. j \in 0 .. MaxJobs
  OBVIOUS
<1> HIDE DEF f
<1>4. worker' \in WorkerState
  BY <1>1, <1>2, <1>3 DEF WorkerState, WorkerPC
<1>5. worker'.job = j
  BY <1>2
<1> QED
  BY <1>4, <1>5 DEF WorkerOK

LEMMA OnJob ==
  ASSUME WorkerOK
  PROVE  /\ worker.file \in BOOLEAN
         /\ \A pc \in WorkerPC \ {"idle"} : At(pc) => worker.pc # "idle" /\ J \in Jobs
  BY DEF WorkerOK, WorkerState, At, J

LEMMA FaultsType ==
  ASSUME ProcessOK, UNCHANGED faults \/ \E pc : Fault(pc)
  PROVE  faults' \in 0 .. MaxFaults
  BY DEF ProcessOK, Fault

LEMMA RowsStep == ASSUME TypeOK, [QueueNext]_queueVars PROVE RowsOK'
<1> USE DEF TypeOK, RowsOK, JobStatus, Live, Terminal, RemoteState, rowVars, histVars
<1>1. CASE Claim
  BY <1>1 DEF Claim
<1>2. CASE Submit
  <2>1. J \in Jobs
    BY <1>2 DEF Submit, WorkerOK, At, J
  <2>2. sent' = sent \/ sent' = [sent EXCEPT ![J] = sent[J] + 1]
    BY <1>2 DEF Submit
  <2>3. remote' = remote \/ remote' = [remote EXCEPT ![J] = "queued"]
    BY <1>2 DEF Submit
  <2>4. sent' \in [Jobs -> Nat]
    BY <2>1, <2>2
  <2>5. remote' \in [Jobs -> RemoteState]
    BY <2>1, <2>3
  <2>6. UNCHANGED <<status, pending, prompt, result, heard>>
    BY <1>2 DEF Submit
  <2> QED
    BY <2>4, <2>5, <2>6
<1>3. CASE Publish
  BY <1>3 DEF Publish
<1>4. CASE Settle
  <2>1. worker.file \in BOOLEAN
    BY OnJob
  <2>2. result' = result \/ result' = [result EXCEPT ![J] = worker.file]
    BY <1>4 DEF Settle
  <2>3. result' \in [Jobs -> BOOLEAN]
    BY <2>1, <2>2
  <2> QED
    BY <1>4, <2>3 DEF Settle
<1>5. CASE CallbackReturns \/ CallbackFails
  <2>1. heard' = heard \/ heard' = [heard EXCEPT ![J] = TRUE]
    BY <1>5 DEF CallbackReturns, CallbackFails, CallbackEnds
  <2> QED
    BY <1>5, <2>1 DEF CallbackReturns, CallbackFails, CallbackEnds
<1>6. CASE Ack
  BY <1>6 DEF Ack
<1>7. CASE Poll \/ Reread \/ DeliverSettled \/ \E j \in Jobs : DrainOutbox(j) \/ Pick(j)
  BY <1>7 DEF Poll, Reread, DeliverSettled, DrainOutbox, Pick
<1>8. CASE Start \/ RecoveryDone \/ \E j \in Jobs : RecoverOutbox(j)
  BY <1>8 DEF Start, RecoveryDone, RecoverOutbox
<1>9. ASSUME NEW j \in Jobs, RecoverProcessing(j) PROVE RowsOK'
  BY <1>9 DEF RecoverProcessing
<1>10. ASSUME NEW j \in Jobs, AddJob(j) PROVE RowsOK'
  BY <1>10 DEF AddJob
<1>11. ASSUME NEW j \in Jobs, RemoteStep(j) PROVE RowsOK'
  BY <1>11 DEF RemoteStep
<1>12. ASSUME NEW r \in Requests, CancelWrite(r) PROVE RowsOK'
  BY <1>12 DEF CancelWrite
<1>13. CASE GpuChanges \/ Crash \/ \E r \in Requests, j \in Jobs : CancelRead(r, j)
  BY <1>13 DEF GpuChanges, Crash, CancelRead
<1>14. CASE UNCHANGED queueVars
  BY <1>14 DEF queueVars
<1> QED
  BY <1>1, <1>2, <1>3, <1>4, <1>5, <1>6, <1>7, <1>8, <1>9, <1>10, <1>11, <1>12,
     <1>13, <1>14 DEF QueueNext, WorkerRuns, Recovery, Surroundings

LEMMA WorkerStep == ASSUME TypeOK, [QueueNext]_queueVars PROVE WorkerOK'
<1>0. RowsOK /\ WorkerOK /\ worker.file \in BOOLEAN
  BY OnJob DEF TypeOK
<1> USE <1>0
<1>1. CASE Claim
  <2>1. worker.pc # "idle"
    BY <1>1 DEF Claim, At
  <2> QED
    BY <1>1, <2>1, GotoType, ConcludeType, IdleType DEF Claim, WorkerPC
<1>2. CASE Submit
  <2>1. worker.pc # "idle"
    BY <1>2 DEF Submit, At
  <2> QED
    BY <1>2, <2>1, GotoType, ConcludeType DEF Submit, WorkerPC
<1>3. CASE Publish
  <2>1. worker.pc # "idle"
    BY <1>3 DEF Publish, At
  <2> QED
    BY <1>3, <2>1, GotoType, ConcludeType, TellType DEF Publish, WorkerPC
<1>4. CASE Poll \/ Reread
  <2>1. worker.pc # "idle"
    BY <1>4 DEF Poll, Reread, At
  <2> QED
    BY <1>4, <2>1, GotoType, ConcludeType, TellType DEF Poll, Reread, WorkerPC
<1>5. CASE Settle
  <2>1. worker.pc # "idle"
    BY <1>5 DEF Settle, At
  <2> QED
    BY <1>5, <2>1, GotoType, IdleType, TellType DEF Settle, WorkerPC
<1>6. CASE DeliverSettled
  <2>1. J \in Jobs
    BY <1>6 DEF DeliverSettled, At, J, WorkerOK
  <2> QED
    BY <1>6, <2>1, DeliverType DEF DeliverSettled
<1>7. CASE CallbackReturns \/ CallbackFails
  <2>1. worker.pc # "idle"
    BY <1>7 DEF CallbackReturns, CallbackFails, CallbackEnds, At
  <2>2. Goto("ack") \/ worker' = Idle
    BY <1>7 DEF CallbackReturns, CallbackFails, CallbackEnds, Goto
  <2> QED
    BY <2>1, <2>2, GotoType, IdleType DEF WorkerPC
<1>8. CASE Ack \/ Crash
  BY <1>8, IdleType DEF Ack, Crash
<1>9. ASSUME NEW j \in Jobs, DrainOutbox(j) \/ RecoverOutbox(j) PROVE WorkerOK'
  BY <1>9, DeliverType DEF DrainOutbox, RecoverOutbox
<1>10. ASSUME NEW j \in Jobs, Pick(j) PROVE WorkerOK'
  BY <1>10, BeginType DEF Pick, WorkerPC
<1>11. ASSUME NEW j \in Jobs, RecoverProcessing(j) PROVE WorkerOK'
  BY <1>11, BeginType DEF RecoverProcessing, WorkerPC
<1>12. CASE UNCHANGED worker
  BY <1>12 DEF WorkerOK
<1>13. CASE Start \/ RecoveryDone \/ GpuChanges
  BY <1>12, <1>13 DEF Start, RecoveryDone, GpuChanges
<1>14. CASE \E j \in Jobs : AddJob(j) \/ RemoteStep(j)
  BY <1>12, <1>14 DEF AddJob, RemoteStep
<1>15. CASE \E r \in Requests : CancelWrite(r) \/ \E j \in Jobs : CancelRead(r, j)
  BY <1>12, <1>15 DEF CancelWrite, CancelRead
<1>16. CASE UNCHANGED queueVars
  BY <1>12, <1>16 DEF queueVars
<1> QED
  BY <1>1, <1>2, <1>3, <1>4, <1>5, <1>6, <1>7, <1>8, <1>9, <1>10, <1>11, <1>13,
     <1>14, <1>15, <1>16 DEF QueueNext, WorkerRuns, Recovery, Surroundings

LEMMA ProcessStep == ASSUME TypeOK, [QueueNext]_queueVars PROVE ProcessOK'
<1>0. ProcessOK
  BY DEF TypeOK
<1>1. CASE Claim \/ Publish \/ Settle \/ CallbackFails
  <2>1. UNCHANGED faults \/ \E pc : Fault(pc)
    BY <1>1 DEF Claim, Publish, Settle, CallbackFails
  <2>2. UNCHANGED <<cancels, process, gpuBusy, crashes>>
    BY <1>1 DEF Claim, Publish, Settle, CallbackFails, CallbackEnds
  <2>3. faults' \in 0 .. MaxFaults
    BY <1>0, <2>1, FaultsType
  <2> QED
    BY <1>0, <2>2, <2>3 DEF ProcessOK
<1>2. CASE Ack
  <2>1. UNCHANGED faults \/ \E pc : Fault(pc)
    BY <1>2 DEF Ack
  <2>2. UNCHANGED <<cancels, gpuBusy, crashes>>
    BY <1>2 DEF Ack
  <2>3. process' \in {process, "down"}
    BY <1>2 DEF Ack
  <2>4. faults' \in 0 .. MaxFaults
    BY <1>0, <2>1, FaultsType
  <2> QED
    BY <1>0, <2>2, <2>3, <2>4 DEF ProcessOK
<1> USE <1>0 DEF ProcessOK, boundVars
<1>3. CASE Submit \/ Poll \/ Reread \/ DeliverSettled \/ CallbackReturns
  BY <1>3 DEF Submit, Poll, Reread, DeliverSettled, CallbackReturns, CallbackEnds
<1>4. CASE \E j \in Jobs : DrainOutbox(j) \/ Pick(j) \/ AddJob(j) \/ RemoteStep(j)
  BY <1>4 DEF DrainOutbox, Pick, AddJob, RemoteStep
<1>5. CASE Recovery
  BY <1>5 DEF Recovery, Start, RecoveryDone, RecoverOutbox, RecoverProcessing
<1>6. CASE \E r \in Requests : CancelWrite(r)
  BY <1>6 DEF CancelWrite
<1>7. CASE \E r \in Requests, j \in Jobs : CancelRead(r, j)
  BY <1>7 DEF CancelRead
<1>8. CASE GpuChanges
  BY <1>8 DEF GpuChanges
<1>9. CASE Crash
  BY <1>9 DEF Crash
<1>10. CASE UNCHANGED queueVars
  BY <1>10 DEF queueVars
<1> QED
  BY <1>1, <1>2, <1>3, <1>4, <1>5, <1>6, <1>7, <1>8, <1>9, <1>10
     DEF QueueNext, WorkerRuns, Surroundings

LEMMA TypeInit == ASSUME QueueInit PROVE TypeOK
<1>1. RowsOK
  BY DEF QueueInit, RowsOK, JobStatus, RemoteState
<1>2. 0 \in 0 .. MaxJobs /\ 0 \in 0 .. MaxCrashes /\ 0 \in 0 .. MaxFaults
  OBVIOUS
<1>3. ProcessOK
  BY <1>2 DEF QueueInit, ProcessOK
<1>4. WorkerOK
  BY <1>2 DEF QueueInit, WorkerOK, WorkerState, WorkerPC, Idle
<1> QED
  BY <1>1, <1>3, <1>4 DEF TypeOK

(* TypeOK holds in every reachable state, for any number of jobs, requests, *)
(* crashes and failed commits.                                              *)
THEOREM QueueTyped == QueueSpec => []TypeOK
<1>1. QueueInit => TypeOK
  BY TypeInit
<1>2. TypeOK /\ [QueueNext]_queueVars => TypeOK'
  BY RowsStep, WorkerStep, ProcessStep DEF TypeOK
<1> QED
  BY <1>1, <1>2, PTL DEF QueueSpec

-----------------------------------------------------------------------------
(* The local values a step of the worker leaves behind.                    *)
LEMMA GotoMoves ==
  ASSUME WorkerOK, NEW pc, Goto(pc)
  PROVE  worker'.pc = pc /\ worker'.job = worker.job
  BY DEF WorkerOK, WorkerState, Goto

LEMMA ConcludeMoves ==
  ASSUME WorkerOK, NEW failed, NEW file, Conclude(failed, file)
  PROVE  worker'.pc = "reread"
  BY DEF WorkerOK, WorkerState, Conclude

LEMMA TellMoves ==
  ASSUME WorkerOK, NEW file, TellDirectly(file)
  PROVE  worker'.pc = "callback" /\ ~worker'.outbox
  BY DEF WorkerOK, WorkerState, TellDirectly

LEMMA DeliverMoves ==
  ASSUME NEW j, Deliver(j)
  PROVE  worker'.pc = "callback" /\ worker'.job = j
  BY DEF Deliver

LEMMA BeginMoves ==
  ASSUME NEW j, NEW pc, Begin(j, pc)
  PROVE  worker'.pc = pc /\ worker'.job = j
  BY DEF Begin

LEMMA IdleMoves == ASSUME worker' = Idle PROVE worker'.pc = "idle"
  BY DEF Idle

LEMMA Elsewhere ==
  ASSUME worker'.pc \notin {"submit", "deliver", "ack"},
         worker'.pc = "callback" => ~worker'.outbox
  PROVE  WorkerInv'
  BY DEF WorkerInv

LEMMA WorkerInvStep ==
  ASSUME TypeOK, WorkerInv, RowInv, CancelInv, [QueueNext]_queueVars
  PROVE  WorkerInv'
<1>0. WorkerOK /\ (worker.pc # "idle" => J \in Jobs)
  BY DEF TypeOK, WorkerOK, J
<1> USE <1>0 DEF At, J
<1>1. CASE Claim
  <2>1. CASE Goto("submit")
    <3>1. status[J] = "pending" /\ status' = [status EXCEPT ![J] = "processing"]
      <4>1. worker'.pc = "submit"
        BY <2>1, GotoMoves
      <4>2. worker' # Idle
        BY <4>1, IdleMoves
      <4>3. ~Conclude(TRUE, FALSE)
        BY <4>1, ConcludeMoves
      <4> QED
        BY <1>1, <4>2, <4>3 DEF Claim
    <3>2. status'[J] = "processing" /\ sent'[J] = 0
      BY <1>1, <3>1 DEF Claim, RowInv, TypeOK, RowsOK, histVars
    <3>3. worker'.pc = "submit" /\ worker'.job = J
      BY <2>1, GotoMoves
    <3> QED
      BY <3>2, <3>3 DEF WorkerInv
  <2>2. CASE worker' = Idle \/ Conclude(TRUE, FALSE)
    BY <2>2, IdleMoves, ConcludeMoves, Elsewhere
  <2> QED
    BY <1>1, <2>1, <2>2 DEF Claim
<1>2. CASE Submit
  <2>1. worker'.pc \in {"publish", "reread"}
    BY <1>2, GotoMoves, ConcludeMoves DEF Submit
  <2> QED
    BY <2>1, Elsewhere
<1>3. CASE Publish
  <2>1. CASE Goto("republish") \/ Goto("poll") \/ Conclude(TRUE, FALSE)
    <3>1. worker'.pc \in {"republish", "poll", "reread"}
      BY <2>1, GotoMoves, ConcludeMoves
    <3> QED
      BY <3>1, Elsewhere
  <2>2. CASE TellDirectly(FALSE)
    BY <2>2, TellMoves, Elsewhere
  <2> QED
    BY <1>3, <2>1, <2>2 DEF Publish
<1>4. CASE Poll \/ Reread
  <2>1. CASE Goto("settle") \/ Conclude(TRUE, FALSE) \/ Conclude(FALSE, TRUE)
    <3>1. worker'.pc \in {"settle", "reread"}
      BY <2>1, GotoMoves, ConcludeMoves
    <3> QED
      BY <3>1, Elsewhere
  <2>2. CASE TellDirectly(worker.file)
    BY <2>2, TellMoves, Elsewhere
  <2> QED
    BY <1>4, <2>1, <2>2 DEF Poll, Reread
<1>5. CASE Settle
  <2>1. CASE Goto("deliver")
    <3>1. worker'.pc = "deliver" /\ worker'.job = J
      BY <2>1, GotoMoves
    <3>2. pending' = [pending EXCEPT ![J] = TRUE]
      BY <1>5, <3>1, IdleMoves, TellMoves DEF Settle
    <3>3. pending'[J]
      BY <1>5, <3>2 DEF Settle, TypeOK, RowsOK
    <3> QED
      BY <3>1, <3>3 DEF WorkerInv
  <2>2. CASE worker' = Idle
    BY <2>2, IdleMoves, Elsewhere
  <2>3. CASE TellDirectly(worker.file)
    BY <2>3, TellMoves, Elsewhere
  <2> QED
    BY <1>5, <2>1, <2>2, <2>3 DEF Settle
<1>6. CASE DeliverSettled
  <2>1. worker'.pc = "callback" /\ worker'.job = J /\ UNCHANGED pending /\ pending[J]
    BY <1>6, DeliverMoves DEF DeliverSettled, rowVars, WorkerInv
  <2> QED
    BY <2>1 DEF WorkerInv
<1>7. CASE CallbackReturns \/ CallbackFails
  <2>1. CASE worker.outbox
    <3>1. Goto("ack") /\ heard' = [heard EXCEPT ![J] = TRUE] /\ UNCHANGED pending
      BY <1>7, <2>1 DEF CallbackReturns, CallbackFails, CallbackEnds, Goto, rowVars
    <3>2. worker'.pc = "ack" /\ worker'.job = J /\ pending[J] /\ heard'[J]
      BY <1>7, <2>1, <3>1, GotoMoves DEF CallbackReturns, CallbackFails, CallbackEnds, WorkerInv, TypeOK, RowsOK
    <3> QED
      BY <3>1, <3>2 DEF WorkerInv
  <2>2. CASE ~worker.outbox
    BY <1>7, <2>2, IdleMoves, Elsewhere DEF CallbackReturns, CallbackFails, CallbackEnds
  <2> QED
    BY <2>1, <2>2
<1>8. CASE Ack \/ Crash
  BY <1>8, IdleMoves, Elsewhere DEF Ack, Crash
<1>9. ASSUME NEW j \in Jobs, DrainOutbox(j) \/ RecoverOutbox(j) PROVE WorkerInv'
  <2>1. worker'.pc = "callback" /\ worker'.job = j /\ UNCHANGED pending /\ pending[j]
    BY <1>9, DeliverMoves DEF DrainOutbox, RecoverOutbox, rowVars
  <2> QED
    BY <2>1 DEF WorkerInv
<1>10. ASSUME NEW j \in Jobs, Pick(j) PROVE WorkerInv'
  <2>1. worker'.pc \in {"claim", "poll"}
    BY <1>10, BeginMoves DEF Pick
  <2> QED
    BY <2>1, Elsewhere
<1>11. ASSUME NEW j \in Jobs, RecoverProcessing(j) PROVE WorkerInv'
  <2>1. worker'.pc = "deliver" /\ worker'.job = j
    BY <1>11, BeginMoves DEF RecoverProcessing
  <2>2. pending'[j]
    BY <1>11 DEF RecoverProcessing, TypeOK, RowsOK
  <2> QED
    BY <2>1, <2>2 DEF WorkerInv
<1>12. ASSUME UNCHANGED <<worker, pending, sent, heard>>, UNCHANGED status PROVE WorkerInv'
  BY <1>12 DEF WorkerInv
<1>13. CASE Start \/ RecoveryDone \/ GpuChanges
  BY <1>12, <1>13 DEF Start, RecoveryDone, GpuChanges, rowVars, histVars
<1>14. ASSUME NEW j \in Jobs, AddJob(j) PROVE WorkerInv'
  <2>1. UNCHANGED <<worker, pending, sent, heard>> /\ status' = [status EXCEPT ![j] = "pending"]
    BY <1>14 DEF AddJob, histVars
  <2>2. worker.pc = "submit" => J # j
    BY <1>14 DEF AddJob, WorkerInv
  <2> QED
    BY <2>1, <2>2 DEF WorkerInv, TypeOK, RowsOK
<1>15. CASE \E j \in Jobs : RemoteStep(j)
  BY <1>12, <1>15 DEF RemoteStep, rowVars, histVars
<1>16. ASSUME NEW r \in Requests, CancelWrite(r) PROVE WorkerInv'
  <2>1. /\ UNCHANGED <<worker, pending, sent, heard>>
        /\ status' = [status EXCEPT ![cancels[r]] = "cancelled"]
    BY <1>16 DEF CancelWrite, histVars
  <2> QED
    BY <2>1 DEF WorkerInv, TypeOK, RowsOK
<1>17. CASE \E r \in Requests, j \in Jobs : CancelRead(r, j)
  BY <1>12, <1>17 DEF CancelRead, rowVars, histVars
<1>18. CASE UNCHANGED queueVars
  BY <1>12, <1>18 DEF queueVars
<1> QED
  BY <1>1, <1>2, <1>3, <1>4, <1>5, <1>6, <1>7, <1>8, <1>9, <1>10, <1>11, <1>13,
     <1>14, <1>15, <1>16, <1>17, <1>18 DEF QueueNext, WorkerRuns, Recovery, Surroundings

LEMMA RowInvStep ==
  ASSUME TypeOK, WorkerInv, RowInv, CancelInv, [QueueNext]_queueVars
  PROVE  RowInv'
<1>0. worker.pc # "idle" => J \in Jobs
  BY DEF TypeOK, WorkerOK, J
<1> USE <1>0 DEF TypeOK, RowsOK, RowInv, Terminal, At
<1>1. CASE Claim
  BY <1>1 DEF Claim, histVars
<1>2. CASE Submit
  <2>1. status[J] \notin {"none", "pending"} /\ sent[J] = 0
    BY <1>2 DEF Submit, WorkerInv, J
  <2>2. UNCHANGED <<status, pending, heard>>
    BY <1>2 DEF Submit, rowVars
  <2>3. sent' = sent \/ sent' = [sent EXCEPT ![J] = sent[J] + 1]
    BY <1>2 DEF Submit
  <2> QED
    BY <2>1, <2>2, <2>3
<1>3. CASE Publish
  <2>1. \/ UNCHANGED status
        \/ /\ status[J] = "processing"
           /\ status' = [status EXCEPT ![J] = "sent_to_comfy"]
    BY <1>3 DEF Publish
  <2>2. UNCHANGED <<pending, sent, heard>>
    BY <1>3 DEF Publish, histVars
  <2> QED
    BY <2>1, <2>2
<1>4. CASE Settle
  <2>1. \/ UNCHANGED <<status, pending>>
        \/ /\ status[J] \in {"processing", "sent_to_comfy"}
           /\ status' = [status EXCEPT ![J] = IF worker.failed THEN "failed"
                                                               ELSE "completed"]
           /\ pending' = [pending EXCEPT ![J] = TRUE]
    BY <1>4 DEF Settle
  <2>2. UNCHANGED <<sent, heard>>
    BY <1>4 DEF Settle, histVars
  <2> QED
    BY <1>4, <2>1, <2>2 DEF Settle
<1>5. CASE CallbackReturns \/ CallbackFails
  <2>1. UNCHANGED <<status, pending, sent>>
    BY <1>5 DEF CallbackReturns, CallbackFails, CallbackEnds, rowVars
  <2>2. UNCHANGED heard \/ (worker.outbox /\ heard' = [heard EXCEPT ![J] = TRUE])
    BY <1>5 DEF CallbackReturns, CallbackFails, CallbackEnds
  <2>3. worker.outbox => pending[J]
    BY <1>5 DEF CallbackReturns, CallbackFails, CallbackEnds, WorkerInv, J
  <2> QED
    BY <1>5, <2>1, <2>2, <2>3 DEF CallbackReturns, CallbackFails, CallbackEnds
<1>6. CASE Ack
  <2>1. pending[J] /\ heard[J]
    BY <1>6 DEF Ack, WorkerInv, J
  <2> QED
    BY <1>6, <2>1 DEF Ack, histVars
<1>7. ASSUME UNCHANGED <<status, pending, sent, heard>> PROVE RowInv'
  BY <1>7
<1>8. CASE Poll \/ Reread \/ DeliverSettled \/ \E j \in Jobs : DrainOutbox(j) \/ Pick(j)
  BY <1>7, <1>8 DEF Poll, Reread, DeliverSettled, DrainOutbox, Pick, rowVars, histVars
<1>9. CASE Start \/ RecoveryDone \/ GpuChanges \/ Crash
  BY <1>7, <1>9 DEF Start, RecoveryDone, GpuChanges, Crash, rowVars, histVars
<1>10. CASE \E j \in Jobs : RecoverOutbox(j) \/ RemoteStep(j)
  BY <1>7, <1>10 DEF RecoverOutbox, RemoteStep, rowVars, histVars
<1>11. ASSUME NEW j \in Jobs, RecoverProcessing(j) PROVE RowInv'
  BY <1>11 DEF RecoverProcessing, histVars
<1>12. ASSUME NEW j \in Jobs, AddJob(j) PROVE RowInv'
  BY <1>12 DEF AddJob, histVars
<1>13. ASSUME NEW r \in Requests, CancelWrite(r) PROVE RowInv'
  <2>1. cancels[r] \in Jobs /\ status[cancels[r]] # "none"
    BY <1>13 DEF CancelWrite, CancelInv, ProcessOK
  <2> QED
    BY <1>13, <2>1 DEF CancelWrite, histVars
<1>14. CASE \E r \in Requests, j \in Jobs : CancelRead(r, j)
  BY <1>7, <1>14 DEF CancelRead, rowVars, histVars
<1>15. CASE UNCHANGED queueVars
  BY <1>7, <1>15 DEF queueVars
<1> QED
  BY <1>1, <1>2, <1>3, <1>4, <1>5, <1>6, <1>8, <1>9, <1>10, <1>11, <1>12, <1>13,
     <1>14, <1>15 DEF QueueNext, WorkerRuns, Recovery, Surroundings

LEMMA CancelInvStep ==
  ASSUME TypeOK, CancelInv, [QueueNext]_queueVars
  PROVE  CancelInv'
<1> USE DEF TypeOK, RowsOK, ProcessOK, CancelInv, rowVars
<1>1. ASSUME \A j \in Jobs : status[j] # "none" => status'[j] # "none", UNCHANGED cancels
      PROVE  CancelInv'
  BY <1>1
<1>2. CASE UNCHANGED <<status, cancels>>
  BY <1>2
<1>3. CASE Claim
  BY <1>1, <1>3 DEF Claim
<1>4. CASE Publish
  BY <1>1, <1>4 DEF Publish
<1>5. CASE Settle
  BY <1>1, <1>5 DEF Settle
<1>6. CASE Submit \/ Poll \/ Reread \/ DeliverSettled \/ CallbackReturns \/ CallbackFails \/ Ack
  BY <1>2, <1>6 DEF Submit, Poll, Reread, DeliverSettled, CallbackReturns, CallbackFails, CallbackEnds, Ack
<1>7. CASE \E j \in Jobs : DrainOutbox(j) \/ Pick(j) \/ RemoteStep(j)
  BY <1>2, <1>7 DEF DrainOutbox, Pick, RemoteStep
<1>8. CASE Start \/ RecoveryDone \/ GpuChanges \/ \E j \in Jobs : RecoverOutbox(j)
  BY <1>2, <1>8 DEF Start, RecoveryDone, GpuChanges, RecoverOutbox
<1>9. CASE \E j \in Jobs : RecoverProcessing(j)
  BY <1>1, <1>9 DEF RecoverProcessing
<1>10. CASE \E j \in Jobs : AddJob(j)
  BY <1>1, <1>10 DEF AddJob
<1>11. ASSUME NEW r \in Requests, CancelWrite(r) PROVE CancelInv'
  BY <1>11 DEF CancelWrite
<1>12. ASSUME NEW r \in Requests, NEW j \in Jobs, CancelRead(r, j) PROVE CancelInv'
  BY <1>12 DEF CancelRead, Live
<1>13. CASE Crash
  BY <1>13 DEF Crash
<1>14. CASE UNCHANGED queueVars
  BY <1>2, <1>14 DEF queueVars
<1> QED
  BY <1>3, <1>4, <1>5, <1>6, <1>7, <1>8, <1>9, <1>10, <1>11, <1>12, <1>13, <1>14
     DEF QueueNext, WorkerRuns, Recovery, Surroundings

LEMMA QueueInvInit == ASSUME QueueInit PROVE QueueInv
<1>1. TypeOK
  BY TypeInit
<1>2. WorkerInv /\ CancelInv
  BY DEF QueueInit, WorkerInv, CancelInv, Idle
<1>3. RowInv
  BY DEF QueueInit, RowInv
<1> QED
  BY <1>1, <1>2, <1>3 DEF QueueInv

LEMMA QueueInvStep == QueueInv /\ [QueueNext]_queueVars => QueueInv'
  BY RowsStep, WorkerStep, ProcessStep, WorkerInvStep, RowInvStep, CancelInvStep
     DEF QueueInv, TypeOK

(* The inductive invariant holds in every reachable state.                 *)
THEOREM QueueInvariant == QueueSpec => []QueueInv
  BY QueueInvInit, QueueInvStep, PTL DEF QueueSpec

(* ComfyUI accepts at most one prompt for a job, however often the process *)
(* dies and commits fail: job_queue._recover_stuck_jobs fails what it      *)
(* finds in `processing'.                                                  *)
THEOREM OnePromptPerJob == QueueSpec => []AtMostOnePrompt
<1>1. QueueInv => AtMostOnePrompt
  BY DEF QueueInv, RowInv, AtMostOnePrompt
<1> QED
  BY <1>1, QueueInvariant, PTL

(* A completed or failed job is in the outbox or was reported through it.  *)
THEOREM NoOutcomeIsLost == QueueSpec => []OutcomeIsOwedOrHeard
<1>1. QueueInv => OutcomeIsOwedOrHeard
  BY DEF QueueInv, RowInv, OutcomeIsOwedOrHeard
<1> QED
  BY <1>1, QueueInvariant, PTL

-----------------------------------------------------------------------------
(* All that a step can do to the columns the owner's view depends on.      *)
RowEffect ==
  \/ UNCHANGED <<status, pending, heard>>
  \/ \E j \in Jobs, s \in JobStatus :
       /\ status' = [status EXCEPT ![j] = s]
       /\ UNCHANGED <<pending, heard>>
       /\ \/ status[j] = "none" /\ s = "pending"
          \/ status[j] \in Live /\ s \in {"processing", "sent_to_comfy"}
          \/ status[j] # "none" /\ s = "cancelled"
  \/ \E j \in Jobs, s \in {"completed", "failed"} :
       /\ status[j] \in Live
       /\ status' = [status EXCEPT ![j] = s]
       /\ pending' = [pending EXCEPT ![j] = TRUE]
       /\ UNCHANGED heard
  \/ \E j \in Jobs :
       /\ pending[j]
       /\ heard' = [heard EXCEPT ![j] = TRUE]
       /\ UNCHANGED <<status, pending>>
  \/ \E j \in Jobs :
       /\ pending[j] /\ heard[j]
       /\ pending' = [pending EXCEPT ![j] = FALSE]
       /\ UNCHANGED <<status, heard>>

LEMMA StepEffect == ASSUME QueueInv, [QueueNext]_queueVars PROVE RowEffect
<1>0. worker.pc # "idle" => J \in Jobs
  BY DEF QueueInv, TypeOK, WorkerOK, J
<1> USE DEF At, rowVars, histVars
<1>1. CASE UNCHANGED <<status, pending, heard>>
  BY <1>1 DEF RowEffect
<1>2. CASE Claim
  BY <1>0, <1>2 DEF Claim, RowEffect, JobStatus, Live
<1>3. CASE Publish
  BY <1>0, <1>3 DEF Publish, RowEffect, JobStatus, Live
<1>4. CASE Settle
  <2> DEFINE s == IF worker.failed THEN "failed" ELSE "completed"
  <2>1. s \in {"completed", "failed"}
    OBVIOUS
  <2>2. UNCHANGED heard
    BY <1>4 DEF Settle
  <2>3. \/ UNCHANGED <<status, pending>>
        \/ /\ status[J] \in {"processing", "sent_to_comfy"}
           /\ status' = [status EXCEPT ![J] = s]
           /\ pending' = [pending EXCEPT ![J] = TRUE]
    BY <1>4 DEF Settle
  <2>4. J \in Jobs
    BY <1>0, <1>4 DEF Settle
  <2> HIDE DEF s
  <2> QED
    BY <2>1, <2>2, <2>3, <2>4 DEF RowEffect, Live
<1>5. CASE CallbackReturns \/ CallbackFails
  <2>1. UNCHANGED heard \/ (pending[J] /\ heard' = [heard EXCEPT ![J] = TRUE])
    BY <1>5 DEF CallbackReturns, CallbackFails, CallbackEnds, QueueInv, WorkerInv, J
  <2> QED
    BY <1>0, <1>5, <2>1 DEF CallbackReturns, CallbackFails, CallbackEnds, RowEffect
<1>6. CASE Ack
  <2>1. pending[J] /\ heard[J]
    BY <1>6 DEF Ack, QueueInv, WorkerInv, J
  <2> QED
    BY <1>0, <1>6, <2>1 DEF Ack, RowEffect
<1>7. CASE Submit \/ Poll \/ Reread \/ DeliverSettled
  BY <1>1, <1>7 DEF Submit, Poll, Reread, DeliverSettled
<1>8. CASE \E j \in Jobs : DrainOutbox(j) \/ Pick(j) \/ RemoteStep(j)
  BY <1>1, <1>8 DEF DrainOutbox, Pick, RemoteStep
<1>9. CASE Start \/ RecoveryDone \/ GpuChanges \/ \E j \in Jobs : RecoverOutbox(j)
  BY <1>1, <1>9 DEF Start, RecoveryDone, GpuChanges, RecoverOutbox
<1>10. ASSUME NEW j \in Jobs, RecoverProcessing(j) PROVE RowEffect
  BY <1>10 DEF RecoverProcessing, RowEffect, Live
<1>11. ASSUME NEW j \in Jobs, AddJob(j) PROVE RowEffect
  <2>1. status[j] = "none"
    BY <1>11 DEF AddJob
  <2> QED
    BY <1>11, <2>1 DEF AddJob, RowEffect, JobStatus, Live
<1>12. ASSUME NEW r \in Requests, CancelWrite(r) PROVE RowEffect
  <2>1. cancels[r] \in Jobs /\ status[cancels[r]] # "none"
    BY <1>12 DEF CancelWrite, QueueInv, CancelInv, TypeOK, ProcessOK
  <2> QED
    BY <1>12, <2>1 DEF CancelWrite, RowEffect, JobStatus, Terminal
<1>13. CASE Crash \/ \E r \in Requests, j \in Jobs : CancelRead(r, j)
  BY <1>1, <1>13 DEF Crash, CancelRead
<1>14. CASE UNCHANGED queueVars
  BY <1>1, <1>14 DEF queueVars
<1> QED
  BY <1>2, <1>3, <1>4, <1>5, <1>6, <1>7, <1>8, <1>9, <1>10, <1>11, <1>12, <1>13,
     <1>14 DEF QueueNext, WorkerRuns, Recovery, Surroundings

(* A job that ended never runs again; only a cancel overwrites its outcome.*)
THEOREM EndedStaysEnded == QueueSpec => TerminalIsFinal
<1>1. ASSUME QueueInv, [QueueNext]_queueVars
      PROVE  \A j \in Jobs : status[j] \in Terminal => status'[j] \in {status[j], "cancelled"}
  <2>1. RowEffect
    BY <1>1, StepEffect
  <2> QED
    BY <1>1, <2>1 DEF RowEffect, QueueInv, TypeOK, RowsOK, Live, Terminal
<1> QED
  BY <1>1, QueueInvariant, PTL DEF QueueSpec, TerminalIsFinal

(* The queue implements the abstract outbox: every step is a step of it or *)
(* leaves it unchanged.                                                    *)
THEOREM QueueImplementsOutbox == QueueSpec => KeepsThePromise
<1> DEFINE L == [j \in Jobs |-> IF status[j] = "none" THEN "new"
                               ELSE IF status[j] \in Live THEN "live" ELSE "ended"]
<1>1. QueueInit => Promise!Init
  BY DEF QueueInit, Promise!Init
<1>2. ASSUME QueueInv, [QueueNext]_queueVars PROVE [Promise!Next]_(Promise!vars)
  <2>0. RowEffect /\ status \in [Jobs -> JobStatus] /\ RowInv
    BY <1>2, StepEffect DEF QueueInv, TypeOK, RowsOK
  <2>1. CASE UNCHANGED <<status, pending, heard>>
    BY <2>1 DEF Promise!vars
  <2>2. ASSUME NEW j \in Jobs, NEW s \in JobStatus,
               status' = [status EXCEPT ![j] = s], UNCHANGED <<pending, heard>>,
               \/ status[j] = "none" /\ s = "pending"
               \/ status[j] \in Live /\ s \in {"processing", "sent_to_comfy"}
               \/ status[j] # "none" /\ s = "cancelled"
        PROVE  [Promise!Next]_(Promise!vars)
    <3>1. CASE status[j] = "none" /\ s = "pending"
      <4>1. L[j] = "new" /\ L' = [L EXCEPT ![j] = "live"]
        BY <2>0, <2>2, <3>1 DEF Live
      <4> QED
        BY <2>2, <4>1 DEF Promise!Next, Promise!Create
    <3>2. CASE status[j] \in Live /\ s \in {"processing", "sent_to_comfy"}
      <4>1. L' = L
        BY <2>0, <2>2, <3>2 DEF Live
      <4> QED
        BY <2>2, <4>1 DEF Promise!vars
    <3>3. CASE status[j] \in Live /\ s = "cancelled"
      <4>1. L[j] = "live" /\ L' = [L EXCEPT ![j] = "ended"]
        BY <2>0, <2>2, <3>3 DEF Live
      <4> QED
        BY <2>2, <4>1 DEF Promise!Next, Promise!Abandon
    <3>4. CASE status[j] \notin Live /\ status[j] # "none" /\ s = "cancelled"
      <4>1. L' = L
        BY <2>0, <2>2, <3>4 DEF Live
      <4> QED
        BY <2>2, <4>1 DEF Promise!vars
    <3> QED
      BY <2>2, <3>1, <3>2, <3>3, <3>4
  <2>3. ASSUME NEW j \in Jobs, NEW s \in {"completed", "failed"},
               status[j] \in Live, status' = [status EXCEPT ![j] = s],
               pending' = [pending EXCEPT ![j] = TRUE], UNCHANGED heard
        PROVE  [Promise!Next]_(Promise!vars)
    <3>1. L[j] = "live" /\ L' = [L EXCEPT ![j] = "ended"]
      BY <2>0, <2>3 DEF Live
    <3> QED
      BY <2>3, <3>1 DEF Promise!Next, Promise!Finish
  <2>4. ASSUME NEW j \in Jobs, pending[j], heard' = [heard EXCEPT ![j] = TRUE],
               UNCHANGED <<status, pending>>
        PROVE  [Promise!Next]_(Promise!vars)
    BY <2>4 DEF Promise!Next, Promise!Report
  <2>5. ASSUME NEW j \in Jobs, pending[j], heard[j],
               pending' = [pending EXCEPT ![j] = FALSE], UNCHANGED <<status, heard>>
        PROVE  [Promise!Next]_(Promise!vars)
    BY <2>5 DEF Promise!Next, Promise!Retire
  <2> QED
    BY <2>0, <2>1, <2>2, <2>3, <2>4, <2>5 DEF RowEffect
<1> QED
  BY <1>1, <1>2, QueueInvariant, PTL DEF QueueSpec, KeepsThePromise, Promise!Spec

-----------------------------------------------------------------------------
(* Studio runs.                                                            *)

USE StudioAssumption DEF StudioAssumption

(* The types of a row, a launch and a cancellation.                        *)
CellType == [status : CellStatus, job : 0 .. MaxJobs, file : 0 .. MaxJobs]
LaunchType == [pc : {"idle", "row", "enqueue"}, rows : SUBSET Cells,
               cell : Cells \cup {NoCell}, resume : BOOLEAN]
CancelType == [pc : {"idle", "cell", "job", "row"}, rows : SUBSET Cells,
               cell : Cells \cup {NoCell}]

(* What the places of a launch and of a cancellation hold.                 *)
LaunchInv ==
  /\ launcher.pc = "enqueue" => launcher.cell \in Cells /\ nextJob - 1 \in Jobs
  /\ launcher.pc # "enqueue" => launcher.cell = NoCell
CancellerInv ==
  /\ canceller.pc \in {"job", "row"} => canceller.cell \in Cells
  /\ canceller.pc \in {"idle", "cell"} => canceller.cell = NoCell
RequestInv == LaunchInv /\ CancellerInv

-----------------------------------------------------------------------------
(* Types.                                                                  *)

LEMMA TypeParts ==
  StudioTypeOK <=> /\ cells \in [Cells -> CellType] /\ nextJob \in 1 .. MaxJobs + 1
                   /\ launcher \in LaunchType /\ canceller \in CancelType
                   /\ linking \in Cells \cup {NoCell}
                   /\ owner \in [Jobs -> Cells \cup {NoCell}] /\ interrupted \subseteq Cells
  BY DEF StudioTypeOK, CellType, LaunchType, CancelType

LEMMA TypePartsNext ==
  (/\ cells' \in [Cells -> CellType] /\ nextJob' \in 1 .. MaxJobs + 1
   /\ launcher' \in LaunchType /\ canceller' \in CancelType
   /\ linking' \in Cells \cup {NoCell}
   /\ owner' \in [Jobs -> Cells \cup {NoCell}] /\ interrupted' \subseteq Cells)
  => StudioTypeOK'
  BY DEF StudioTypeOK, CellType, LaunchType, CancelType

(* A row stays a row when one of its columns is written.                   *)
LEMMA StatusWritten ==
  ASSUME NEW rows \in [Cells -> CellType], NEW c \in Cells, NEW s \in CellStatus
  PROVE  [rows EXCEPT ![c].status = s] \in [Cells -> CellType]
  BY DEF CellType

LEMMA JobWritten ==
  ASSUME NEW rows \in [Cells -> CellType], NEW c \in Cells, NEW j \in 0 .. MaxJobs
  PROVE  [rows EXCEPT ![c].job = j] \in [Cells -> CellType]
  BY DEF CellType

LEMMA FileWritten ==
  ASSUME NEW rows \in [Cells -> CellType], NEW c \in Cells, NEW j \in 0 .. MaxJobs
  PROVE  [rows EXCEPT ![c].file = j] \in [Cells -> CellType]
  BY DEF CellType

LEMMA StudioTypeInit == ASSUME StudioInit PROVE StudioTypeOK /\ RequestInv
<1>1. cells \in [Cells -> CellType]
  BY DEF StudioInit, CellType, CellStatus
<1>2. launcher \in LaunchType /\ canceller \in CancelType /\ RequestInv
  BY DEF StudioInit, LaunchType, CancelType, NoLaunch, NoCancel, RequestInv,
         LaunchInv, CancellerInv
<1> QED
  BY <1>1, <1>2, TypeParts DEF StudioInit

LEMMA NextRowType ==
  ASSUME launcher \in LaunchType, NEW rows \in SUBSET Cells, NextRow(rows)
  PROVE  launcher' \in LaunchType /\ launcher'.pc # "enqueue" /\ launcher'.cell = NoCell
<1>1. CASE rows = {}
  BY <1>1 DEF NextRow, LaunchType, NoLaunch
<1>2. CASE rows # {}
  BY <1>2 DEF NextRow, LaunchType
<1> QED
  BY <1>1, <1>2

LEMMA LaunchTypes ==
  ASSUME StudioTypeOK, RequestInv, LaunchStep
  PROVE  StudioTypeOK' /\ RequestInv'
<1>0. /\ cells \in [Cells -> CellType] /\ nextJob \in 1 .. MaxJobs + 1
      /\ launcher \in LaunchType /\ canceller \in CancelType
      /\ linking \in Cells \cup {NoCell}
      /\ owner \in [Jobs -> Cells \cup {NoCell}] /\ interrupted \subseteq Cells
  BY TypeParts
<1>1. ASSUME NEW c \in Cells, LaunchRow(c) PROVE StudioTypeOK' /\ RequestInv'
  <2>1. cells' \in [Cells -> CellType]
    BY <1>0, <1>1 DEF LaunchRow, CellType, CellStatus
  <2>2. launcher' = [launcher EXCEPT !.pc = "enqueue", !.cell = c]
    BY <1>1 DEF LaunchRow
  <2>3. launcher' \in LaunchType /\ launcher'.pc = "enqueue" /\ launcher'.cell = c
    BY <1>0, <2>2 DEF LaunchType
  <2>4. nextJob' \in 1 .. MaxJobs + 1 /\ nextJob' - 1 \in Jobs
    BY <1>0, <1>1 DEF LaunchRow
  <2>5. owner' \in [Jobs -> Cells \cup {NoCell}] /\ interrupted' \subseteq Cells
    BY <1>0, <1>1 DEF LaunchRow
  <2>6. UNCHANGED <<canceller, linking>>
    BY <1>1 DEF LaunchRow
  <2> QED
    BY <1>0, <2>1, <2>3, <2>4, <2>5, <2>6, TypePartsNext
       DEF RequestInv, LaunchInv, CancellerInv
<1>2. ASSUME cells' \in [Cells -> CellType], NEW rows \in SUBSET Cells, NextRow(rows),
             UNCHANGED <<nextJob, canceller, linking, owner, interrupted>>
      PROVE  StudioTypeOK' /\ RequestInv'
  BY <1>0, <1>2, NextRowType, TypePartsNext DEF RequestInv, LaunchInv, CancellerInv
<1>3. CASE Enqueue
  <2>1. launcher.rows \ {launcher.cell} \in SUBSET Cells
    BY <1>0 DEF LaunchType
  <2> QED
    BY <1>0, <1>2, <1>3, <2>1 DEF Enqueue
<1>4. CASE EnqueueFails
  <2>1. cells' \in [Cells -> CellType]
    BY <1>0, <1>4 DEF EnqueueFails, CellType, CellStatus
  <2>2. (IF launcher.resume THEN launcher.rows \ {launcher.cell} ELSE {}) \in SUBSET Cells
    BY <1>0 DEF LaunchType
  <2> QED
    BY <1>2, <1>4, <2>1, <2>2 DEF EnqueueFails
<1> QED
  BY <1>1, <1>3, <1>4 DEF LaunchStep

LEMMA CancelTypes ==
  ASSUME StudioTypeOK, RequestInv, CancelStep \/ CancelRun
  PROVE  StudioTypeOK' /\ RequestInv'
<1>0. /\ cells \in [Cells -> CellType] /\ nextJob \in 1 .. MaxJobs + 1
      /\ launcher \in LaunchType /\ canceller \in CancelType
      /\ linking \in Cells \cup {NoCell}
      /\ owner \in [Jobs -> Cells \cup {NoCell}] /\ interrupted \subseteq Cells
  BY TypeParts
<1>a. ASSUME canceller' \in CancelType, CancellerInv', cells' \in [Cells -> CellType],
             UNCHANGED <<nextJob, launcher, linking, owner>>, interrupted' \subseteq Cells
      PROVE  StudioTypeOK' /\ RequestInv'
  BY <1>0, <1>a, TypePartsNext DEF RequestInv, LaunchInv
<1>1. CASE CancelRun
  <2>1. canceller' = [pc |-> "cell", rows |-> Active, cell |-> NoCell]
    BY <1>1 DEF CancelRun
  <2>2. canceller' \in CancelType /\ CancellerInv'
    BY <2>1 DEF Active, CancelType, CancellerInv
  <2> QED
    BY <1>0, <1>1, <1>a, <2>2 DEF CancelRun
<1>2. CASE CancelCellJob
  <2>1. canceller.cell \in Cells
    BY <1>2 DEF CancelCellJob, RequestInv, CancellerInv
  <2>2. canceller' = [canceller EXCEPT !.pc = "row"]
    BY <1>2 DEF CancelCellJob
  <2>3. canceller' \in CancelType /\ CancellerInv'
    BY <1>0, <2>1, <2>2 DEF CancelType, CancellerInv
  <2> QED
    BY <1>0, <1>2, <1>a, <2>3 DEF CancelCellJob
<1>3. CASE CancelRow
  <2>1. cells' \in [Cells -> CellType]
    <3>1. canceller.cell \in Cells
      BY <1>3 DEF CancelRow, RequestInv, CancellerInv
    <3>2. PICK rows \in [Cells -> CellType] :
            rows = [cells EXCEPT ![canceller.cell].status = "cancelled"]
      BY <1>0, <3>1, StatusWritten DEF CellStatus
    <3>3. cells' = [rows EXCEPT ![canceller.cell].job = NoJob]
      BY <1>3, <3>2 DEF CancelRow
    <3> QED
      BY <3>1, <3>3, JobWritten
  <2>2. \/ canceller' = NoCancel
        \/ canceller' = [pc |-> "cell", rows |-> canceller.rows \ {canceller.cell},
                         cell |-> NoCell]
    BY <1>3 DEF CancelRow
  <2>3. canceller' \in CancelType /\ CancellerInv'
    BY <1>0, <2>2 DEF NoCancel, CancelType, CancellerInv
  <2> QED
    BY <1>0, <1>3, <1>a, <2>1, <2>3 DEF CancelRow
<1>4. ASSUME NEW c \in Cells, CancelCell(c) PROVE StudioTypeOK' /\ RequestInv'
  <2>1. \E pc \in {"job", "row"} : canceller' = [canceller EXCEPT !.pc = pc, !.cell = c]
    BY <1>4 DEF CancelCell
  <2>2. canceller' \in CancelType /\ CancellerInv'
    BY <1>0, <2>1 DEF CancelType, CancellerInv
  <2> QED
    BY <1>0, <1>4, <1>a, <2>2 DEF CancelCell
<1> QED
  BY <1>1, <1>2, <1>3, <1>4 DEF CancelStep

LEMMA LinkTypes ==
  ASSUME WorkerOK, StudioTypeOK, RequestInv, Link
  PROVE  StudioTypeOK' /\ RequestInv'
<1>0. /\ cells \in [Cells -> CellType] /\ nextJob \in 1 .. MaxJobs + 1
      /\ launcher \in LaunchType /\ canceller \in CancelType
      /\ linking \in Cells \cup {NoCell}
      /\ owner \in [Jobs -> Cells \cup {NoCell}] /\ interrupted \subseteq Cells
  BY TypeParts
<1>a. ASSUME cells' \in [Cells -> CellType], linking' \in Cells \cup {NoCell},
             UNCHANGED <<nextJob, launcher, canceller, owner, interrupted>>
      PROVE  StudioTypeOK' /\ RequestInv'
  BY <1>0, <1>a, TypePartsNext DEF RequestInv, LaunchInv, CancellerInv
<1>1. CASE LinkIgnores
  BY <1>0, <1>1, <1>a DEF LinkIgnores, studioVars
<1>2. CASE LinkWrites
  <2>1. J \in Jobs
    BY <1>2, OnJob DEF LinkWrites, CallbackReturns, CallbackEnds, WorkerPC
  <2>2. cells' \in [Cells -> CellType]
    <3>1. linking \in Cells
      BY <1>0, <1>2 DEF LinkWrites
    <3>2. PICK s \in CellStatus, f \in 0 .. MaxJobs :
            \/ cells' = [cells EXCEPT ![linking].status = s]
            \/ cells' = [cells EXCEPT ![linking].status = s, ![linking].file = f]
      BY <1>2, <2>1 DEF LinkWrites, CellStatus
    <3>3. PICK rows \in [Cells -> CellType] : rows = [cells EXCEPT ![linking].status = s]
      BY <1>0, <3>1, StatusWritten
    <3>4. cells' = rows \/ cells' = [rows EXCEPT ![linking].file = f]
      BY <3>2, <3>3
    <3> QED
      BY <3>1, <3>4, FileWritten
  <2> QED
    BY <1>2, <1>a, <2>2 DEF LinkWrites
<1>3. CASE LinkFaults
  <2>1. cells' \in [Cells -> CellType]
    <3>1. ASSUME NEW c \in Cells PROVE [cells[c] EXCEPT !.status = "failed"] \in CellType
      BY <1>0 DEF CellType, CellStatus
    <3>2. ASSUME NEW c \in Cells
          PROVE  (IF c \in Linked THEN [cells[c] EXCEPT !.status = "failed"] ELSE cells[c])
                   \in CellType
      BY <1>0, <3>1
    <3> QED
      BY <1>3, <3>2 DEF LinkFaults
  <2> QED
    BY <1>3, <1>a, <2>1 DEF LinkFaults
<1>4. ASSUME NEW c \in Cells, LinkReads(c) PROVE StudioTypeOK' /\ RequestInv'
  BY <1>0, <1>4, <1>a DEF LinkReads
<1> QED
  BY <1>1, <1>2, <1>3, <1>4 DEF Link

LEMMA StudioTypeStep ==
  ASSUME WorkerOK, StudioTypeOK, RequestInv, [StudioNext]_allVars
  PROVE  StudioTypeOK' /\ RequestInv'
<1>1. CASE Link
  BY <1>1, LinkTypes
<1>2. CASE LaunchStep
  BY <1>2, LaunchTypes
<1>3. CASE CancelStep \/ CancelRun
  BY <1>3, CancelTypes
<1>4. ASSUME NEW S \in SUBSET Cells, NEW resume \in BOOLEAN, Launch(S, resume)
      PROVE  StudioTypeOK' /\ RequestInv'
  <2>1. launcher' = [pc |-> "row", rows |-> S, cell |-> NoCell, resume |-> resume]
    BY <1>4 DEF Launch
  <2>2. launcher' \in LaunchType /\ LaunchInv'
    BY <2>1 DEF LaunchType, LaunchInv
  <2> QED
    BY <1>4, <2>2, TypeParts, TypePartsNext DEF Launch, RequestInv, CancellerInv
<1>5. CASE StudioCrash
  <2>1. launcher' \in LaunchType /\ canceller' \in CancelType /\ RequestInv'
    BY <1>5 DEF StudioCrash, RequestInv, NoLaunch, NoCancel, LaunchType, CancelType,
                LaunchInv, CancellerInv
  <2>2. launcher.cell \in Cells \cup {NoCell} /\ canceller.cell \in Cells \cup {NoCell}
    BY TypeParts DEF LaunchType, CancelType
  <2> QED
    BY <1>5, <2>1, <2>2, TypeParts, TypePartsNext DEF StudioCrash
<1>6. CASE UNCHANGED studioVars
  BY <1>6 DEF studioVars, StudioTypeOK, RequestInv, LaunchInv, CancellerInv
<1> QED
  BY <1>1, <1>2, <1>3, <1>4, <1>5, <1>6 DEF StudioNext, allVars

-----------------------------------------------------------------------------
(* Every step is one of the queue, or none.                                *)
LEMMA QueueStep ==
  ASSUME StudioTypeOK, RequestInv, [StudioNext]_allVars
  PROVE  [QueueNext]_queueVars
<1>1. CASE QueueAlone
  BY <1>1 DEF QueueAlone, QueueNext
<1>2. CASE Link
  BY <1>2 DEF Link, LinkIgnores, LinkWrites, LinkFaults, LinkReads, QueueNext
<1>3. CASE Enqueue
  BY <1>3 DEF Enqueue, RequestInv, LaunchInv, QueueNext
<1>4. CASE EnqueueFails \/ \E c \in Cells : LaunchRow(c)
  BY <1>4 DEF EnqueueFails, LaunchRow
<1>5. ASSUME NEW c \in Cells, CancelCell(c) PROVE [QueueNext]_queueVars
  <2>1. cells[c].job # NoJob => cells[c].job \in Jobs
    BY DEF StudioTypeOK
  <2>2. CASE UNCHANGED queueVars
    BY <2>2
  <2>3. ASSUME NEW r \in Requests, cells[c].job # NoJob, CancelRead(r, cells[c].job)
        PROVE  [QueueNext]_queueVars
    BY <2>1, <2>3 DEF QueueNext
  <2> QED
    BY <1>5, <2>2, <2>3 DEF CancelCell
<1>6. CASE CancelCellJob
  BY <1>6 DEF CancelCellJob, QueueNext
<1>7. CASE CancelRow \/ CancelRun
  BY <1>7 DEF CancelRow, CancelRun
<1>8. CASE \E S \in SUBSET Cells, resume \in BOOLEAN : Launch(S, resume)
  BY <1>8 DEF Launch
<1>9. CASE StudioCrash
  BY <1>9 DEF StudioCrash, QueueNext
<1>10. CASE UNCHANGED allVars
  BY <1>10 DEF allVars
<1> QED
  BY <1>1, <1>2, <1>3, <1>4, <1>5, <1>6, <1>7, <1>8, <1>9, <1>10
     DEF StudioNext, LaunchStep, CancelStep

Base == QueueInv /\ StudioTypeOK /\ RequestInv

LEMMA BaseInit == StudioInit => Base
  BY StudioTypeInit, QueueInvInit DEF StudioInit, Base

LEMMA BaseStep == Base /\ [StudioNext]_allVars => Base'
  BY StudioTypeStep, QueueStep, QueueInvStep DEF Base, QueueInv, TypeOK

(* Every variable of a Studio run keeps its type, whatever the queue does. *)
THEOREM StudioTyped == StudioSpec => []StudioTypeOK
  BY BaseInit, BaseStep, PTL DEF StudioSpec, Base

(* A Studio run uses the queue as JobQueue allows: launch, cancellation    *)
(* and callback never do to a job what no action of the queue does.        *)
THEOREM StudioImplementsQueue == StudioSpec => QueueSpec
<1>1. StudioInit => QueueInit
  BY DEF StudioInit
<1>2. Base /\ [StudioNext]_allVars => [QueueNext]_queueVars
  BY QueueStep DEF Base
<1> QED
  BY <1>1, <1>2, BaseInit, BaseStep, PTL DEF StudioSpec, QueueSpec

-----------------------------------------------------------------------------
(* What the queue knows of an output.                                      *)

(* The worker only ever holds a row that exists.                           *)
WorkerKnows == worker.pc # "idle" => status[worker.job] # "none"

(* A success stands for an output ComfyUI made, from the poll that found   *)
(* it to the row and the callback that report it.                          *)
Reports ==
  /\ worker.pc \in {"reread", "settle"} /\ ~worker.failed => remote[worker.job] = "done"
  /\ worker.pc = "callback" /\ ~worker.failed =>
       remote[worker.job] = "done" /\ status[worker.job] \in {"completed", "cancelled"}
DoneInv ==
  /\ \A j \in Jobs : /\ status[j] = "completed" => remote[j] = "done"
                     /\ remote[j] # "absent" => sent[j] > 0
  /\ Reports

RowsStay == \A j \in Jobs : status[j] # "none" => status'[j] # "none"

LEMMA RowsRemain == ASSUME QueueInv, [QueueNext]_queueVars PROVE RowsStay
<1>1. RowEffect
  BY StepEffect
<1> QED
  BY <1>1 DEF RowEffect, RowsStay, QueueInv, TypeOK, RowsOK, Live

LEMMA SameJob ==
  ASSUME WorkerOK, NEW pc, NEW failed, NEW file,
         Goto(pc) \/ Conclude(failed, file) \/ TellDirectly(file)
  PROVE  worker'.job = worker.job
  BY DEF WorkerOK, WorkerState, Goto, Conclude, TellDirectly

(* Where a step takes the worker: it stays, rests, goes on with its job or *)
(* begins with a row it has just read.                                     *)
LEMMA WorkerMoves ==
  ASSUME QueueInv, [QueueNext]_queueVars
  PROVE  \/ worker'.pc = "idle"
         \/ worker.pc # "idle" /\ worker'.job = worker.job
         \/ worker'.job \in Jobs /\ status[worker'.job] # "none"
<1> USE DEF QueueInv, TypeOK
<1>1. CASE Claim \/ Submit \/ Publish \/ Poll \/ Reread \/ Settle
  <2>1. worker.pc # "idle"
    BY <1>1 DEF Claim, Submit, Publish, Poll, Reread, Settle, At
  <2>2. \/ worker' = Idle
        \/ \E pc, failed, file : Goto(pc) \/ Conclude(failed, file) \/ TellDirectly(file)
    BY <1>1 DEF Claim, Submit, Publish, Poll, Reread, Settle
  <2> QED
    BY <2>1, <2>2, SameJob, IdleMoves
<1>2. CASE CallbackReturns \/ CallbackFails \/ Ack \/ Crash
  BY <1>2 DEF CallbackReturns, CallbackFails, CallbackEnds, Ack, Crash, At, Idle,
              WorkerOK, WorkerState
<1>3. CASE DeliverSettled
  BY <1>3 DEF DeliverSettled, Deliver, At, J
<1>4. ASSUME NEW j \in Jobs, DrainOutbox(j) \/ RecoverOutbox(j)
      PROVE  worker'.job \in Jobs /\ status[worker'.job] # "none"
  <2>1. pending[j] /\ worker'.job = j
    BY <1>4 DEF DrainOutbox, RecoverOutbox, Deliver
  <2> QED
    BY <2>1 DEF RowInv, Terminal
<1>5. ASSUME NEW j \in Jobs, Pick(j) \/ RecoverProcessing(j)
      PROVE  worker'.job \in Jobs /\ status[worker'.job] # "none"
  BY <1>5 DEF Pick, RecoverProcessing, Begin, First, Ready
<1>6. CASE UNCHANGED worker
  BY <1>6 DEF WorkerOK, WorkerState
<1>7. CASE Start \/ RecoveryDone \/ GpuChanges \/ UNCHANGED queueVars
  BY <1>6, <1>7 DEF Start, RecoveryDone, GpuChanges, queueVars
<1>8. CASE \E j \in Jobs : AddJob(j) \/ RemoteStep(j)
  BY <1>6, <1>8 DEF AddJob, RemoteStep
<1>9. CASE \E r \in Requests : CancelWrite(r) \/ \E j \in Jobs : CancelRead(r, j)
  BY <1>6, <1>9 DEF CancelWrite, CancelRead
<1> QED
  BY <1>1, <1>2, <1>3, <1>4, <1>5, <1>7, <1>8, <1>9
     DEF QueueNext, WorkerRuns, Recovery, Surroundings

LEMMA WorkerKnowsStep ==
  ASSUME QueueInv, WorkerKnows, [QueueNext]_queueVars PROVE WorkerKnows'
  BY WorkerMoves, RowsRemain DEF WorkerKnows, RowsStay, QueueInv, TypeOK, WorkerOK

(* An output that exists stays: its job is not submitted a second time.    *)
LEMMA OutputStays ==
  ASSUME QueueInv, DoneInv, [QueueNext]_queueVars
  PROVE  \A j \in Jobs : /\ remote[j] = "done" => remote'[j] = "done"
                         /\ remote'[j] # "absent" => sent'[j] > 0
<1> USE DEF QueueInv, TypeOK, RowsOK
<1>1. CASE UNCHANGED <<remote, sent>>
  BY <1>1 DEF DoneInv
<1>2. CASE Submit
  <2>1. J \in Jobs /\ sent[J] = 0
    BY <1>2 DEF Submit, At, J, WorkerInv, WorkerOK
  <2>2. \/ UNCHANGED <<remote, sent>>
        \/ /\ remote' = [remote EXCEPT ![J] = "queued"]
           /\ sent' = [sent EXCEPT ![J] = sent[J] + 1]
    BY <1>2 DEF Submit
  <2>3. remote[J] = "absent"
    BY <2>1 DEF DoneInv
  <2>4. CASE remote' = [remote EXCEPT ![J] = "queued"]
    BY <2>1, <2>2, <2>3, <2>4 DEF DoneInv
  <2> QED
    BY <1>1, <2>2, <2>4
<1>3. ASSUME NEW k \in Jobs, RemoteStep(k)
      PROVE  \A j \in Jobs : /\ remote[j] = "done" => remote'[j] = "done"
                             /\ remote'[j] # "absent" => sent'[j] > 0
  BY <1>3 DEF RemoteStep, DoneInv, histVars
<1>4. CASE Claim \/ Publish \/ Poll \/ Reread \/ Settle \/ DeliverSettled \/ Ack
  BY <1>1, <1>4 DEF Claim, Publish, Poll, Reread, Settle, DeliverSettled, Ack, histVars
<1>5. CASE CallbackReturns \/ CallbackFails
  BY <1>1, <1>5 DEF CallbackReturns, CallbackFails, CallbackEnds
<1>6. CASE \E j \in Jobs : DrainOutbox(j) \/ Pick(j) \/ AddJob(j)
  BY <1>1, <1>6 DEF DrainOutbox, Pick, AddJob, histVars
<1>7. CASE Recovery
  BY <1>1, <1>7 DEF Recovery, Start, RecoveryDone, RecoverOutbox, RecoverProcessing, histVars
<1>8. CASE GpuChanges \/ Crash \/ UNCHANGED queueVars
  BY <1>1, <1>8 DEF GpuChanges, Crash, queueVars, histVars
<1>9. CASE \E r \in Requests : CancelWrite(r) \/ \E j \in Jobs : CancelRead(r, j)
  BY <1>1, <1>9 DEF CancelWrite, CancelRead, histVars
<1> QED
  BY <1>2, <1>3, <1>4, <1>5, <1>6, <1>7, <1>8, <1>9
     DEF QueueNext, WorkerRuns, Surroundings

LEMMA EndedStays ==
  ASSUME QueueInv, [QueueNext]_queueVars
  PROVE  \A j \in Jobs : status[j] \in Terminal => status'[j] \in {status[j], "cancelled"}
<1>1. RowEffect
  BY StepEffect
<1> QED
  BY <1>1 DEF RowEffect, QueueInv, TypeOK, RowsOK, Live, Terminal

(* Only the terminal commit of a success writes `completed'.               *)
LEMMA OnlySettleCompletes ==
  ASSUME QueueInv, DoneInv, [QueueNext]_queueVars
  PROVE  \A j \in Jobs : status'[j] = "completed" => remote[j] = "done"
<1> USE DEF QueueInv, TypeOK, RowsOK, DoneInv, Reports
<1>1. CASE UNCHANGED status
  BY <1>1
<1>2. CASE Settle
  <2>1. J \in Jobs /\ At("settle")
    BY <1>2 DEF Settle, At, J, WorkerOK
  <2>2. \/ UNCHANGED status
        \/ status' = [status EXCEPT ![J] = IF worker.failed THEN "failed" ELSE "completed"]
    BY <1>2 DEF Settle
  <2>3. worker.failed \in BOOLEAN
    BY DEF WorkerOK, WorkerState
  <2>4. ~worker.failed => remote[J] = "done"
    BY <2>1 DEF At, J
  <2> QED
    BY <1>1, <2>1, <2>2, <2>3, <2>4
<1>3. CASE Claim \/ Publish
  BY <1>3 DEF Claim, Publish
<1>4. CASE Submit \/ Poll \/ Reread \/ DeliverSettled \/ Ack
  BY <1>1, <1>4 DEF Submit, Poll, Reread, DeliverSettled, Ack, rowVars
<1>5. CASE CallbackReturns \/ CallbackFails
  BY <1>1, <1>5 DEF CallbackReturns, CallbackFails, CallbackEnds, rowVars
<1>6. CASE \E j \in Jobs : DrainOutbox(j) \/ Pick(j) \/ RemoteStep(j)
  BY <1>1, <1>6 DEF DrainOutbox, Pick, RemoteStep, rowVars
<1>7. ASSUME NEW k \in Jobs, AddJob(k) \/ RecoverProcessing(k)
      PROVE  \A j \in Jobs : status'[j] = "completed" => remote[j] = "done"
  BY <1>7 DEF AddJob, RecoverProcessing
<1>8. CASE Start \/ RecoveryDone \/ \E j \in Jobs : RecoverOutbox(j)
  BY <1>1, <1>8 DEF Start, RecoveryDone, RecoverOutbox, rowVars
<1>9. CASE GpuChanges \/ Crash \/ UNCHANGED queueVars
  BY <1>1, <1>9 DEF GpuChanges, Crash, queueVars, rowVars
<1>10. ASSUME NEW r \in Requests, CancelWrite(r) \/ \E j \in Jobs : CancelRead(r, j)
       PROVE  \A j \in Jobs : status'[j] = "completed" => remote[j] = "done"
  BY <1>10 DEF CancelWrite, CancelRead, rowVars
<1> QED
  BY <1>2, <1>3, <1>4, <1>5, <1>6, <1>7, <1>8, <1>9, <1>10
     DEF QueueNext, WorkerRuns, Recovery, Surroundings

(* The worker reports a success only of an output it has seen.             *)
LEMMA ReportStep ==
  ASSUME QueueInv, WorkerKnows, DoneInv, [QueueNext]_queueVars
  PROVE  Reports'
<1> USE DEF Reports
<1>0. /\ \A j \in Jobs : remote[j] = "done" => remote'[j] = "done"
      /\ \A j \in Jobs : status[j] \in {"completed", "cancelled"} =>
                           status'[j] \in {"completed", "cancelled"}
      /\ WorkerOK /\ (worker.pc # "idle" => J \in Jobs)
  BY OutputStays, EndedStays DEF Terminal, QueueInv, TypeOK, WorkerOK, J
<1>1. ASSUME worker'.failed \/ worker'.pc \notin {"reread", "settle", "callback"}
      PROVE  Reports'
  BY <1>1
<1>2. ASSUME UNCHANGED worker PROVE Reports'
  BY <1>0, <1>2 DEF DoneInv, J
<1>3. ASSUME NEW j \in Jobs, Deliver(j), UNCHANGED <<status, remote>> PROVE Reports'
  <2>1. /\ worker'.pc = "callback" /\ worker'.job = j
        /\ ~worker'.failed => status[j] = "completed"
    BY <1>3 DEF Deliver
  <2> QED
    BY <1>3, <2>1 DEF DoneInv
<1>4. ASSUME NEW file, Conclude(TRUE, file) \/ TellDirectly(file) PROVE Reports'
  <2>1. worker'.failed
    BY <1>0, <1>4 DEF Conclude, TellDirectly, WorkerOK, WorkerState
  <2> QED
    BY <1>1, <2>1
<1>5. ASSUME NEW pc \in {"submit", "publish", "republish", "poll", "deliver"}, Goto(pc)
      PROVE  Reports'
  BY <1>0, <1>1, <1>5, GotoMoves
<1>6. ASSUME worker' = Idle PROVE Reports'
  BY <1>1, <1>6, IdleMoves
<1>7. CASE Poll
  <2>1. CASE remote[J] = "done" /\ Conclude(FALSE, TRUE)
    <3>1. worker'.pc = "reread" /\ worker'.job = J
      BY <1>0, <2>1 DEF Conclude, WorkerOK, WorkerState, J
    <3>2. J \in Jobs
      BY <1>0, <1>7 DEF Poll, At
    <3> QED
      BY <1>0, <2>1, <3>1, <3>2
  <2> QED
    BY <1>4, <1>7, <2>1 DEF Poll
<1>8. CASE Reread
  <2>1. CASE Goto("settle")
    <3>1. worker'.pc = "settle" /\ worker'.job = J /\ worker'.failed = worker.failed
      BY <1>0, <2>1 DEF Goto, WorkerOK, WorkerState, J
    <3>2. J \in Jobs /\ worker.pc = "reread"
      BY <1>0, <1>8 DEF Reread, At
    <3> QED
      BY <1>0, <3>1, <3>2 DEF DoneInv, J
  <2> QED
    BY <1>4, <1>8, <2>1 DEF Reread
<1>9. CASE Claim \/ Submit \/ Publish \/ Settle
  BY <1>4, <1>5, <1>6, <1>9 DEF Claim, Submit, Publish, Settle
<1>10. CASE CallbackReturns \/ CallbackFails
  <2>1. worker' = [worker EXCEPT !.pc = "ack"] \/ worker' = Idle
    BY <1>10 DEF CallbackReturns, CallbackFails, CallbackEnds
  <2>2. worker' = [worker EXCEPT !.pc = "ack"] => worker'.pc = "ack"
    BY <1>0 DEF WorkerOK, WorkerState
  <2> QED
    BY <1>1, <1>6, <2>1, <2>2
<1>11. CASE Ack \/ Crash
  BY <1>6, <1>11 DEF Ack, Crash
<1>12. CASE DeliverSettled
  BY <1>0, <1>3, <1>12 DEF DeliverSettled, At, rowVars
<1>13. ASSUME NEW j \in Jobs, DrainOutbox(j) \/ RecoverOutbox(j) PROVE Reports'
  BY <1>3, <1>13 DEF DrainOutbox, RecoverOutbox, rowVars
<1>14. ASSUME NEW j \in Jobs, Pick(j) \/ RecoverProcessing(j) PROVE Reports'
  <2>1. worker'.pc \in {"claim", "poll", "deliver"}
    BY <1>14 DEF Pick, RecoverProcessing, Begin
  <2> QED
    BY <1>1, <2>1
<1>15. CASE Start \/ RecoveryDone \/ GpuChanges \/ UNCHANGED queueVars
  BY <1>2, <1>15 DEF Start, RecoveryDone, GpuChanges, queueVars
<1>16. CASE \E j \in Jobs : AddJob(j) \/ RemoteStep(j)
  BY <1>2, <1>16 DEF AddJob, RemoteStep
<1>17. CASE \E r \in Requests : CancelWrite(r) \/ \E j \in Jobs : CancelRead(r, j)
  BY <1>2, <1>17 DEF CancelWrite, CancelRead
<1> HIDE DEF Reports
<1> QED
  BY <1>7, <1>8, <1>9, <1>10, <1>11, <1>12, <1>13, <1>14, <1>15, <1>16, <1>17
     DEF QueueNext, WorkerRuns, Recovery, Surroundings

LEMMA DoneStep ==
  ASSUME QueueInv, WorkerKnows, DoneInv, [QueueNext]_queueVars PROVE DoneInv'
  BY OutputStays, OnlySettleCompletes, ReportStep DEF DoneInv

-----------------------------------------------------------------------------
(* The cells.                                                              *)

Exempt == interrupted \cup {launcher.cell, canceller.cell}

(* A job belongs to one cell for ever; a pending cell that no request      *)
(* works on waits for a job whose outcome was not told yet; a shown image  *)
(* is an output of a job of its own.                                       *)
CellOK(c) ==
  /\ cells[c].job # NoJob => cells[c].job < nextJob /\ owner[cells[c].job] = c
  /\ cells[c].status = "pending" =>
       /\ cells[c].job # NoJob /\ ~heard[cells[c].job]
       /\ c \notin Exempt => status[cells[c].job] \in Live \/ pending[cells[c].job]
  /\ cells[c].file # NoJob =>
       /\ owner[cells[c].file] = c /\ remote[cells[c].file] = "done"
       /\ status[cells[c].file] \in {"completed", "cancelled"}

CellInv == \A c \in Cells : CellOK(c)
FreshInv == \A j \in Jobs : status[j] # "none" => j < nextJob

(* What a launch, a cancellation and the callback hold between two commits.*)
LaunchHolds ==
  launcher.pc = "enqueue" /\ cells[launcher.cell].status = "pending" =>
    cells[launcher.cell].job = nextJob - 1
CancelHolds ==
  \A r \in Requests : cancels[r] # NoJob =>
    canceller.pc = "job" /\ owner[cancels[r]] = canceller.cell
LinkHolds ==
  linking # NoCell => worker.pc = "callback" /\ owner[worker.job] = linking

CellsInv == FreshInv /\ CellInv /\ LaunchHolds /\ CancelHolds /\ LinkHolds
StudioInv == Base /\ WorkerKnows /\ DoneInv /\ CellsInv

LEMMA FilesKept ==
  ASSUME QueueInv, DoneInv, [QueueNext]_queueVars
  PROVE  \A j \in Jobs : remote[j] = "done" /\ status[j] \in {"completed", "cancelled"} =>
           remote'[j] = "done" /\ status'[j] \in {"completed", "cancelled"}
  BY OutputStays, EndedStays DEF Terminal

(* A row that is not written stays right when what it waits for does.      *)
LEMMA CellKept ==
  ASSUME StudioInv, [StudioNext]_allVars, NEW c \in Cells, cells'[c] = cells[c],
         nextJob' \in {nextJob, nextJob + 1},
         \A j \in Jobs : j < nextJob => owner'[j] = owner[j],
         cells[c].status = "pending" =>
           /\ ~heard'[cells[c].job]
           /\ c \notin Exempt' =>
                status'[cells[c].job] \in Live \/ pending'[cells[c].job]
  PROVE  CellOK(c)'
<1>1. /\ cells[c].job \in 0 .. MaxJobs /\ cells[c].file \in 0 .. MaxJobs
      /\ nextJob \in 1 .. MaxJobs + 1 /\ CellOK(c)
  BY DEF StudioInv, CellsInv, CellInv, Base, StudioTypeOK
<1>2. cells[c].file # NoJob => cells[c].file < nextJob
  BY <1>1 DEF StudioInv, CellsInv, FreshInv, CellOK
<1>3. QueueInv /\ DoneInv /\ [QueueNext]_queueVars
  BY QueueStep DEF StudioInv, Base
<1>4. cells[c].file # NoJob =>
        /\ remote'[cells[c].file] = "done"
        /\ status'[cells[c].file] \in {"completed", "cancelled"}
  BY <1>1, <1>3, FilesKept DEF CellOK
<1> QED
  BY <1>1, <1>2, <1>4 DEF CellOK

LEMMA QueueBase ==
  ASSUME StudioInv, [StudioNext]_allVars
  PROVE  /\ QueueInv /\ [QueueNext]_queueVars /\ StudioTypeOK /\ RequestInv
         /\ WorkerKnows' /\ DoneInv' /\ Base'
  BY QueueStep, WorkerKnowsStep, DoneStep, BaseStep DEF StudioInv, Base

(* What the queue does by itself to what a cell waits for.                 *)
LEMMA AloneEffect ==
  ASSUME QueueInv, QueueAlone
  PROVE  /\ UNCHANGED <<heard, cancels>>
         /\ worker.pc = "callback" => worker' = worker
         /\ \A j \in Jobs :
              /\ status[j] = "none" => status'[j] = "none"
              /\ status'[j] = "cancelled" => status[j] = "cancelled"
<1> USE DEF QueueInv, TypeOK, RowsOK, rowVars, histVars, At
<1>1. CASE Claim \/ Publish
  BY <1>1 DEF Claim, Publish
<1>2. CASE Settle
  BY <1>2 DEF Settle
<1>3. CASE Submit \/ Poll \/ Reread \/ DeliverSettled \/ Ack
  BY <1>3 DEF Submit, Poll, Reread, DeliverSettled, Ack
<1>4. CASE \E j \in Jobs : DrainOutbox(j) \/ Pick(j) \/ RemoteStep(j)
  BY <1>4 DEF DrainOutbox, Pick, RemoteStep
<1>5. CASE Start \/ RecoveryDone \/ GpuChanges \/ \E j \in Jobs : RecoverOutbox(j)
  BY <1>5 DEF Start, RecoveryDone, GpuChanges, RecoverOutbox
<1>6. ASSUME NEW k \in Jobs, RecoverProcessing(k)
      PROVE  /\ UNCHANGED <<heard, cancels>>
             /\ worker.pc = "callback" => worker' = worker
             /\ \A j \in Jobs :
                  /\ status[j] = "none" => status'[j] = "none"
                  /\ status'[j] = "cancelled" => status[j] = "cancelled"
  BY <1>6 DEF RecoverProcessing
<1> QED
  BY <1>1, <1>2, <1>3, <1>4, <1>5, <1>6
     DEF QueueAlone, WorkerRuns, Recovery, Surroundings

LEMMA AloneStep ==
  ASSUME StudioInv, QueueAlone, UNCHANGED studioVars
  PROVE  CellsInv'
<1>0. [StudioNext]_allVars
  BY DEF StudioNext
<1>1. /\ QueueInv /\ StudioTypeOK /\ RowEffect /\ CellsInv
      /\ status \in [Jobs -> JobStatus]
  BY <1>0, QueueBase, StepEffect DEF StudioInv, QueueInv, TypeOK, RowsOK
<1>2. \A j \in Jobs : status[j] \in Live \/ pending[j] =>
        status'[j] \in Live \/ pending'[j] \/ heard[j]
  BY <1>1, AloneEffect DEF RowEffect, Live, JobStatus, Terminal, QueueInv, TypeOK, RowsOK
<1>3. FreshInv'
  BY <1>1, AloneEffect DEF CellsInv, FreshInv, studioVars
<1>4. ASSUME NEW c \in Cells PROVE CellOK(c)'
  <2>1. CellOK(c) /\ cells[c].job \in 0 .. MaxJobs
    BY <1>1 DEF CellsInv, CellInv, StudioTypeOK
  <2>2. UNCHANGED <<cells, nextJob, owner, Exempt, heard>>
    BY AloneEffect, <1>1 DEF studioVars, Exempt
  <2> QED
    BY <1>0, <1>2, <2>1, <2>2, CellKept DEF CellOK
<1>5. LaunchHolds' /\ CancelHolds' /\ LinkHolds'
  BY <1>1, AloneEffect DEF CellsInv, LaunchHolds, CancelHolds, LinkHolds, studioVars
<1> QED
  BY <1>3, <1>4, <1>5 DEF CellsInv, CellInv

(* The end of the callback: the outcome counts as told.                    *)
LEMMA CallbackEffect ==
  ASSUME QueueInv, CallbackReturns \/ CallbackFails
  PROVE  /\ worker.pc = "callback" /\ worker.job \in Jobs
         /\ UNCHANGED <<status, pending, remote, cancels>>
         /\ \A j \in Jobs : heard'[j] => heard[j] \/ j = worker.job
<1> USE DEF QueueInv, TypeOK, RowsOK, WorkerOK, rowVars, At, J
<1>1. CallbackEnds
  BY DEF CallbackReturns, CallbackFails
<1>2. heard' = heard \/ heard' = [heard EXCEPT ![worker.job] = TRUE]
  BY <1>1 DEF CallbackEnds
<1> QED
  BY <1>1, <1>2 DEF CallbackEnds

(* A row that the callback did not find pending with its job.              *)
LEMMA LinkKeeps ==
  ASSUME StudioInv, Link, CallbackReturns \/ CallbackFails, NEW c \in Cells,
         cells'[c] = cells[c],
         UNCHANGED <<nextJob, launcher, canceller, owner, interrupted>>,
         ~(cells[c].status = "pending" /\ cells[c].job = worker.job)
  PROVE  CellOK(c)'
<1>0. [StudioNext]_allVars
  BY DEF StudioNext
<1>1. CellOK(c) /\ cells[c].job \in 0 .. MaxJobs /\ QueueInv
  BY <1>0, QueueBase DEF StudioInv, CellsInv, CellInv, StudioTypeOK
<1>2. UNCHANGED <<status, pending, Exempt>>
  BY <1>1, CallbackEffect DEF Exempt
<1>3. cells[c].status = "pending" => ~heard'[cells[c].job]
  BY <1>1, CallbackEffect DEF CellOK
<1> QED
  BY <1>0, <1>1, <1>2, <1>3, CellKept DEF CellOK

LEMMA LinkStep ==
  ASSUME StudioInv, Link
  PROVE  CellsInv'
<1>0. [StudioNext]_allVars
  BY DEF StudioNext
<1>1. /\ QueueInv /\ StudioTypeOK /\ RequestInv /\ CellsInv /\ DoneInv
      /\ WorkerKnows /\ WorkerOK
  BY <1>0, QueueBase DEF StudioInv, QueueInv, TypeOK
<1>2. cells \in [Cells -> CellType] /\ nextJob \in 1 .. MaxJobs + 1
  BY <1>1, TypeParts
<1>a. ASSUME UNCHANGED <<nextJob, launcher, canceller, owner, interrupted>>,
             UNCHANGED <<status, cancels>>, linking' = NoCell,
             \A c \in Cells : cells'[c].status = "pending" => cells'[c] = cells[c]
      PROVE  FreshInv' /\ LaunchHolds' /\ CancelHolds' /\ LinkHolds'
  BY <1>1, <1>a DEF CellsInv, FreshInv, LaunchHolds, CancelHolds, LinkHolds,
                    RequestInv, LaunchInv
<1>3. CASE LinkIgnores
  <2>1. \A c \in Cells : ~(cells[c].status = "pending" /\ cells[c].job = worker.job)
    BY <1>3 DEF LinkIgnores, Linked, J
  <2>2. UNCHANGED studioVars /\ CallbackReturns /\ linking = NoCell
    BY <1>3 DEF LinkIgnores
  <2>3. CellInv'
    BY <2>1, <2>2, LinkKeeps DEF CellInv, studioVars
  <2> QED
    BY <1>1, <1>a, <2>2, <2>3, CallbackEffect DEF CellsInv, studioVars
<1>4. ASSUME linking # NoCell, linking' = NoCell, CallbackReturns \/ CallbackFails,
             UNCHANGED <<nextJob, launcher, canceller, owner, interrupted>>,
             \A c \in Cells : \/ cells'[c] = cells[c] /\ (c = linking => cells[c].job # worker.job)
                              \/ /\ cells'[c].status # "pending"
                                 /\ cells'[c].job = cells[c].job
                                 /\ \/ cells'[c].file \in {cells[c].file, NoJob}
                                    \/ /\ ~worker.failed /\ c = linking
                                       /\ cells'[c].file = worker.job
      PROVE  CellsInv'
  <2>1. /\ worker.pc = "callback" /\ worker.job \in Jobs /\ owner[worker.job] = linking
        /\ UNCHANGED <<status, pending, remote, cancels>>
    BY <1>1, <1>4, CallbackEffect DEF CellsInv, LinkHolds
  <2>2. ASSUME NEW c \in Cells, cells'[c] = cells[c],
               c = linking => cells[c].job # worker.job
        PROVE  CellOK(c)'
    <3>1. cells[c].job # worker.job
      BY <1>1, <2>1, <2>2 DEF CellsInv, CellInv, CellOK
    <3> QED
      BY <1>4, <2>2, <3>1, LinkKeeps
  <2>3. ASSUME NEW c \in Cells, cells'[c].status # "pending",
               cells'[c].job = cells[c].job, cells'[c].file \in {cells[c].file, NoJob}
        PROVE  CellOK(c)'
    BY <1>1, <1>4, <2>1, <2>3 DEF CellsInv, CellInv, CellOK
  <2>4. ASSUME NEW c \in Cells, c = linking, cells'[c].status # "pending",
               cells'[c].job = cells[c].job, ~worker.failed, cells'[c].file = worker.job
        PROVE  CellOK(c)'
    <3>1. remote[worker.job] = "done" /\ status[worker.job] \in {"completed", "cancelled"}
      BY <1>1, <2>1, <2>4 DEF DoneInv, Reports
    <3> QED
      BY <1>1, <1>4, <2>1, <2>4, <3>1 DEF CellsInv, CellInv, CellOK
  <2>5. CellInv'
    BY <1>4, <2>2, <2>3, <2>4 DEF CellInv
  <2>6. FreshInv' /\ LaunchHolds' /\ CancelHolds' /\ LinkHolds'
    BY <1>4, <1>a, <2>1
  <2> QED
    BY <2>5, <2>6 DEF CellsInv
<1>5. CASE LinkWrites
  <2>1. linking \in Cells
    BY <1>1, <1>5 DEF LinkWrites, StudioTypeOK
  <2>2. \A c \in Cells : \/ cells'[c] = cells[c] /\ (c = linking => cells[c].job # worker.job)
                         \/ /\ cells'[c].status # "pending"
                            /\ cells'[c].job = cells[c].job
                            /\ \/ cells'[c].file \in {cells[c].file, NoJob}
                               \/ /\ ~worker.failed /\ c = linking
                                  /\ cells'[c].file = worker.job
    BY <1>2, <1>5, <2>1 DEF LinkWrites, CellType, J
  <2> QED
    BY <1>4, <1>5, <2>2 DEF LinkWrites
<1>6. CASE LinkFaults
  <2>1. ASSUME NEW c \in Cells
        PROVE  \/ cells'[c] = cells[c] /\ (c = linking => cells[c].job # worker.job)
               \/ /\ cells'[c].status # "pending"
                  /\ cells'[c].job = cells[c].job
                  /\ cells'[c].file = cells[c].file
    <3>1. cells[c] \in CellType
      BY <1>2
    <3>2. CASE c \in Linked
      <4>1. cells'[c] = [cells[c] EXCEPT !.status = "failed"]
        BY <1>6, <3>2 DEF LinkFaults
      <4> QED
        BY <3>1, <4>1 DEF CellType
    <3>3. CASE c \notin Linked
      BY <1>6, <3>3 DEF LinkFaults, Linked, J
    <3> QED
      BY <3>2, <3>3
  <2> QED
    BY <1>4, <1>6, <2>1 DEF LinkFaults
<1>7. ASSUME NEW c \in Cells, LinkReads(c) PROVE CellsInv'
  <2>1. /\ UNCHANGED <<queueVars, cells, nextJob, launcher, canceller, owner, interrupted>>
        /\ worker.pc = "callback" /\ cells[c].job = worker.job /\ linking' = c
    BY <1>7 DEF LinkReads, At, Linked, J
  <2>2. worker.job \in Jobs
    BY <1>1, <2>1 DEF WorkerOK
  <2>3. owner[worker.job] = c
    BY <1>1, <2>1, <2>2 DEF CellsInv, CellInv, CellOK
  <2>4. CellInv' /\ FreshInv'
    BY <1>1, <2>1 DEF CellsInv, CellInv, CellOK, FreshInv, Exempt, queueVars
  <2> QED
    BY <1>1, <2>1, <2>3, <2>4
       DEF CellsInv, LaunchHolds, CancelHolds, LinkHolds, queueVars
<1> QED
  BY <1>3, <1>5, <1>6, <1>7 DEF Link

(* A new row: its job id was never used.                                   *)
LEMMA LaunchRowStep ==
  ASSUME StudioInv, NEW c \in Cells, LaunchRow(c)
  PROVE  CellsInv'
<1>0. [StudioNext]_allVars
  BY DEF StudioNext, LaunchStep
<1>1. /\ QueueInv /\ StudioTypeOK /\ RequestInv /\ CellsInv /\ WorkerKnows
      /\ cells \in [Cells -> CellType] /\ owner \in [Jobs -> Cells \cup {NoCell}]
      /\ nextJob \in Jobs
  BY <1>0, QueueBase, TypeParts DEF StudioInv, LaunchRow
<1>2. /\ cells' = [cells EXCEPT ![c] = [status |-> "pending", job |-> nextJob, file |-> NoJob]]
      /\ owner' = [owner EXCEPT ![nextJob] = c] /\ nextJob' = nextJob + 1
      /\ launcher.pc = "row" /\ interrupted' = interrupted \ {c}
      /\ UNCHANGED <<queueVars, canceller, linking>>
  BY DEF LaunchRow
<1>3. launcher.cell = NoCell /\ launcher'.cell = c /\ launcher'.pc = "enqueue"
  <2>1. launcher \in LaunchType /\ launcher' = [launcher EXCEPT !.pc = "enqueue", !.cell = c]
    BY <1>1, TypeParts DEF LaunchRow
  <2> QED
    BY <1>1, <1>2, <2>1 DEF RequestInv, LaunchInv, LaunchType
<1>4. \A j \in Jobs : j < nextJob => owner'[j] = owner[j]
  BY <1>1, <1>2
<1>5. CellOK(c)'
  <2>1. cells'[c] = [status |-> "pending", job |-> nextJob, file |-> NoJob]
    BY <1>1, <1>2
  <2>2. ~heard[nextJob]
    BY <1>1 DEF QueueInv, RowInv, CellsInv, FreshInv, Terminal
  <2> QED
    BY <1>1, <1>2, <1>3, <2>1, <2>2 DEF CellOK, Exempt, queueVars
<1>6. ASSUME NEW d \in Cells, d # c PROVE CellOK(d)'
  <2>1. cells'[d] = cells[d] /\ CellOK(d)
    BY <1>1, <1>2, <1>6 DEF CellsInv, CellInv
  <2>2. d \notin Exempt' => d \notin Exempt
    BY <1>1, <1>2, <1>3, <1>6 DEF Exempt
  <2> QED
    BY <1>0, <1>2, <1>4, <2>1, <2>2, CellKept DEF CellOK, queueVars
<1>7. FreshInv'
  BY <1>1, <1>2 DEF CellsInv, FreshInv, queueVars
<1>8. LaunchHolds'
  BY <1>1, <1>2, <1>3 DEF LaunchHolds
<1>9. CancelHolds'
  <2>1. \A r \in Requests : cancels[r] # NoJob => cancels[r] \in Jobs /\ cancels[r] < nextJob
    BY <1>1 DEF QueueInv, TypeOK, ProcessOK, CancelInv, CellsInv, FreshInv
  <2> QED
    BY <1>1, <1>2, <1>4, <2>1 DEF CellsInv, CancelHolds, queueVars
<1>10. LinkHolds'
  <2>1. worker.pc = "callback" => worker.job \in Jobs /\ worker.job < nextJob
    BY <1>1 DEF QueueInv, TypeOK, WorkerOK, WorkerKnows, CellsInv, FreshInv
  <2> QED
    BY <1>1, <1>2, <1>4, <2>1 DEF CellsInv, LinkHolds, queueVars
<1> QED
  BY <1>5, <1>6, <1>7, <1>8, <1>9, <1>10 DEF CellsInv, CellInv

LEMMA EnqueueStep ==
  ASSUME StudioInv, Enqueue
  PROVE  CellsInv'
<1>0. [StudioNext]_allVars
  BY DEF StudioNext, LaunchStep
<1>1. /\ QueueInv /\ StudioTypeOK /\ RequestInv /\ CellsInv
      /\ launcher \in LaunchType /\ status \in [Jobs -> JobStatus]
      /\ nextJob \in 1 .. MaxJobs + 1
  BY <1>0, QueueBase, TypeParts DEF StudioInv, QueueInv, TypeOK, RowsOK
<1>2. /\ launcher.pc = "enqueue" /\ launcher.cell \in Cells /\ nextJob - 1 \in Jobs
      /\ status' = [status EXCEPT ![nextJob - 1] = "pending"]
      /\ status[nextJob - 1] = "none"
      /\ UNCHANGED <<pending, heard, remote, cancels, worker>>
      /\ UNCHANGED <<cells, nextJob, canceller, linking, owner, interrupted>>
  BY <1>1 DEF Enqueue, AddJob, RequestInv, LaunchInv, histVars
<1>3. launcher'.pc # "enqueue" /\ launcher'.cell = NoCell
  <2>1. launcher.rows \ {launcher.cell} \in SUBSET Cells
    BY <1>1 DEF LaunchType
  <2> QED
    BY <1>1, <2>1, NextRowType DEF Enqueue
<1>4. ASSUME NEW c \in Cells PROVE CellOK(c)'
  <2>1. CellOK(c) /\ cells[c].job \in 0 .. MaxJobs
    BY <1>1 DEF CellsInv, CellInv, StudioTypeOK
  <2>2. cells[c].status = "pending" /\ c \notin Exempt' =>
          status'[cells[c].job] \in Live \/ pending'[cells[c].job]
    <3>1. CASE c = launcher.cell
      BY <1>1, <1>2, <2>1, <3>1 DEF CellsInv, LaunchHolds, Live
    <3>2. CASE c # launcher.cell
      <4>1. c \notin Exempt' => c \notin Exempt
        BY <1>2, <1>3, <3>2 DEF Exempt
      <4> QED
        BY <1>1, <1>2, <2>1, <4>1 DEF CellOK, Live
    <3> QED
      BY <3>1, <3>2
  <2> QED
    BY <1>0, <1>2, <2>1, <2>2, CellKept DEF CellOK
<1>5. FreshInv'
  BY <1>1, <1>2 DEF CellsInv, FreshInv
<1> QED
  BY <1>1, <1>2, <1>3, <1>4, <1>5
     DEF CellsInv, CellInv, LaunchHolds, CancelHolds, LinkHolds

LEMMA EnqueueFailsStep ==
  ASSUME StudioInv, EnqueueFails
  PROVE  CellsInv'
<1>0. [StudioNext]_allVars
  BY DEF StudioNext, LaunchStep
<1>1. /\ QueueInv /\ StudioTypeOK /\ RequestInv /\ CellsInv
      /\ launcher \in LaunchType /\ cells \in [Cells -> CellType]
  BY <1>0, QueueBase, TypeParts DEF StudioInv
<1>2. /\ launcher.pc = "enqueue" /\ launcher.cell \in Cells
      /\ cells' = [cells EXCEPT ![launcher.cell].status = "failed"]
      /\ UNCHANGED <<queueVars, nextJob, canceller, linking, owner, interrupted>>
  BY <1>1 DEF EnqueueFails, RequestInv, LaunchInv
<1>3. launcher'.pc # "enqueue" /\ launcher'.cell = NoCell
  <2>1. (IF launcher.resume THEN launcher.rows \ {launcher.cell} ELSE {}) \in SUBSET Cells
    BY <1>1 DEF LaunchType
  <2> QED
    BY <1>1, <2>1, NextRowType DEF EnqueueFails
<1>4. ASSUME NEW c \in Cells, c # launcher.cell PROVE CellOK(c)'
  <2>1. CellOK(c) /\ cells'[c] = cells[c]
    BY <1>1, <1>2, <1>4 DEF CellsInv, CellInv
  <2>2. c \notin Exempt' => c \notin Exempt
    BY <1>2, <1>3, <1>4 DEF Exempt
  <2> QED
    BY <1>0, <1>2, <2>1, <2>2, CellKept DEF CellOK, queueVars
<1>5. ASSUME NEW c \in Cells, c = launcher.cell PROVE CellOK(c)'
  <2>1. /\ cells'[c].status = "failed"
        /\ cells'[c].job = cells[c].job /\ cells'[c].file = cells[c].file
    BY <1>1, <1>2, <1>5 DEF CellType
  <2> QED
    BY <1>1, <1>2, <2>1 DEF CellsInv, CellInv, CellOK, queueVars
<1> QED
  BY <1>1, <1>2, <1>3, <1>4, <1>5
     DEF CellsInv, CellInv, FreshInv, LaunchHolds, CancelHolds, LinkHolds, queueVars

(* A step that writes no row, takes no cell out of a request's hands and   *)
(* leaves the queue's rows alone.                                          *)
LEMMA CellsKept ==
  ASSUME StudioInv, [StudioNext]_allVars, Exempt \ {NoCell} \subseteq Exempt',
         UNCHANGED <<cells, nextJob, owner, status, pending, heard>>
  PROVE  CellInv' /\ FreshInv'
<1>1. ASSUME NEW c \in Cells PROVE CellOK(c)'
  <2>1. CellOK(c) /\ c # NoCell
    BY DEF StudioInv, CellsInv, CellInv
  <2> QED
    BY <2>1, CellKept DEF CellOK
<1> QED
  BY <1>1 DEF CellInv, FreshInv, StudioInv, CellsInv

LEMMA LaunchBegins ==
  ASSUME StudioInv, NEW S \in SUBSET Cells, NEW resume \in BOOLEAN, Launch(S, resume)
  PROVE  CellsInv'
<1>0. [StudioNext]_allVars
  BY DEF StudioNext
<1>1. RequestInv /\ CellsInv
  BY DEF StudioInv, Base
<1>2. /\ launcher.cell = NoCell /\ launcher'.pc = "row" /\ launcher'.cell = NoCell
      /\ UNCHANGED <<queueVars, cells, nextJob, canceller, linking, owner, interrupted>>
  BY <1>1 DEF Launch, RequestInv, LaunchInv
<1> QED
  BY <1>0, <1>1, <1>2, CellsKept
     DEF CellsInv, LaunchHolds, CancelHolds, LinkHolds, Exempt, queueVars

LEMMA CancelRunStep ==
  ASSUME StudioInv, CancelRun
  PROVE  CellsInv'
<1>0. [StudioNext]_allVars
  BY DEF StudioNext
<1>1. RequestInv /\ CellsInv
  BY DEF StudioInv, Base
<1>2. /\ canceller.pc = "idle" /\ canceller.cell = NoCell /\ canceller'.cell = NoCell
      /\ UNCHANGED <<queueVars, cells, nextJob, launcher, linking, owner, interrupted>>
  BY <1>1 DEF CancelRun, RequestInv, CancellerInv
<1> QED
  BY <1>0, <1>1, <1>2, CellsKept
     DEF CellsInv, LaunchHolds, CancelHolds, LinkHolds, Exempt, queueVars

LEMMA CancelCellStep ==
  ASSUME StudioInv, NEW c \in Cells, CancelCell(c)
  PROVE  CellsInv'
<1>0. [StudioNext]_allVars
  BY DEF StudioNext, CancelStep
<1>1. /\ QueueInv /\ StudioTypeOK /\ RequestInv /\ CellsInv
      /\ canceller \in CancelType /\ cancels \in [Requests -> 0 .. MaxJobs]
  BY <1>0, QueueBase, TypeParts DEF StudioInv, QueueInv, TypeOK, ProcessOK
<1>2. /\ canceller.pc = "cell" /\ canceller.cell = NoCell /\ canceller'.cell = c
      /\ UNCHANGED <<status, pending, heard, worker>>
      /\ UNCHANGED <<cells, nextJob, launcher, linking, owner, interrupted>>
  BY <1>1 DEF CancelCell, CancelRead, RequestInv, CancellerInv, CancelType, queueVars,
              rowVars, histVars
<1>3. CancelHolds'
  <2>1. \A r \in Requests : cancels[r] = NoJob
    BY <1>1, <1>2 DEF CellsInv, CancelHolds
  <2>2. CASE UNCHANGED cancels
    BY <2>1, <2>2 DEF CancelHolds
  <2>3. ASSUME NEW r \in Requests, cells[c].job # NoJob, CancelRead(r, cells[c].job),
               canceller' = [canceller EXCEPT !.pc = "job", !.cell = c]
        PROVE  CancelHolds'
    <3>1. owner[cells[c].job] = c
      BY <1>1, <2>3 DEF CellsInv, CellInv, CellOK
    <3>2. cancels' = [cancels EXCEPT ![r] = cells[c].job]
      BY <2>3 DEF CancelRead
    <3>3. canceller'.pc = "job"
      BY <1>1, <2>3 DEF CancelType
    <3> QED
      BY <1>1, <1>2, <2>1, <3>1, <3>2, <3>3 DEF CancelHolds
  <2> QED
    BY <2>2, <2>3 DEF CancelCell, queueVars
<1> QED
  BY <1>0, <1>1, <1>2, <1>3, CellsKept
     DEF CellsInv, LaunchHolds, LinkHolds, Exempt

(* The job the request cancels belongs to the cell it is at.               *)
LEMMA CancelCellJobStep ==
  ASSUME StudioInv, CancelCellJob
  PROVE  CellsInv'
<1>0. [StudioNext]_allVars
  BY DEF StudioNext, CancelStep
<1>1. /\ QueueInv /\ StudioTypeOK /\ RequestInv /\ CellsInv
      /\ canceller \in CancelType /\ cancels \in [Requests -> 0 .. MaxJobs]
      /\ status \in [Jobs -> JobStatus]
  BY <1>0, QueueBase, TypeParts DEF StudioInv, QueueInv, TypeOK, ProcessOK, RowsOK
<1>2. PICK r \in Requests : CancelWrite(r)
  BY DEF CancelCellJob
<1>3. /\ cancels[r] \in Jobs /\ owner[cancels[r]] = canceller.cell
      /\ status[cancels[r]] # "none"
      /\ status' = [status EXCEPT ![cancels[r]] = "cancelled"]
      /\ cancels' = [cancels EXCEPT ![r] = NoJob]
      /\ UNCHANGED <<pending, heard, remote, worker>>
  BY <1>1, <1>2 DEF CancelWrite, CellsInv, CancelHolds, QueueInv, CancelInv, histVars
<1>4. /\ canceller'.cell = canceller.cell
      /\ UNCHANGED <<cells, nextJob, launcher, linking, owner, interrupted>>
  BY <1>1 DEF CancelCellJob, CancelType
<1>5. ASSUME NEW c \in Cells PROVE CellOK(c)'
  <2>1. CellOK(c) /\ cells[c].job \in 0 .. MaxJobs /\ UNCHANGED Exempt
    BY <1>1, <1>4 DEF CellsInv, CellInv, StudioTypeOK, Exempt
  <2>2. cells[c].status = "pending" /\ c \notin Exempt' =>
          status'[cells[c].job] = status[cells[c].job]
    BY <1>1, <1>3, <2>1 DEF CellOK, Exempt
  <2> QED
    BY <1>0, <1>3, <1>4, <2>1, <2>2, CellKept DEF CellOK
<1>6. CancelHolds'
  <2>1. \A q \in Requests : q = r
    BY <1>2
  <2> QED
    BY <1>1, <1>3, <2>1 DEF CancelHolds
<1> QED
  BY <1>1, <1>3, <1>4, <1>5, <1>6
     DEF CellsInv, CellInv, FreshInv, LaunchHolds, LinkHolds

LEMMA CancelRowStep ==
  ASSUME StudioInv, CancelRow
  PROVE  CellsInv'
<1>0. [StudioNext]_allVars
  BY DEF StudioNext, CancelStep
<1>1. /\ QueueInv /\ StudioTypeOK /\ RequestInv /\ CellsInv
      /\ cells \in [Cells -> CellType]
  BY <1>0, QueueBase, TypeParts DEF StudioInv
<1>2. /\ canceller.pc = "row" /\ canceller.cell \in Cells
      /\ cells' = [cells EXCEPT ![canceller.cell].status = "cancelled",
                                ![canceller.cell].job = NoJob]
      /\ interrupted' = interrupted \ {canceller.cell}
      /\ canceller'.pc \in {"idle", "cell"} /\ canceller'.cell = NoCell
      /\ UNCHANGED <<queueVars, nextJob, launcher, linking, owner>>
  BY <1>1 DEF CancelRow, RequestInv, CancellerInv, NoCancel
<1>3. ASSUME NEW c \in Cells, c # canceller.cell PROVE CellOK(c)'
  <2>1. CellOK(c) /\ cells'[c] = cells[c]
    BY <1>1, <1>2, <1>3 DEF CellsInv, CellInv
  <2>2. c \notin Exempt' => c \notin Exempt
    BY <1>2, <1>3 DEF Exempt
  <2> QED
    BY <1>0, <1>2, <2>1, <2>2, CellKept DEF CellOK, queueVars
<1>4. /\ cells'[canceller.cell].status = "cancelled"
      /\ cells'[canceller.cell].job = NoJob
      /\ cells'[canceller.cell].file = cells[canceller.cell].file
  BY <1>1, <1>2 DEF CellType
<1>5. ASSUME NEW c \in Cells, c = canceller.cell PROVE CellOK(c)'
  BY <1>1, <1>2, <1>4, <1>5 DEF CellsInv, CellInv, CellOK, queueVars
<1>6. LaunchHolds'
  <2>1. CASE launcher.cell = canceller.cell
    BY <1>2, <1>4, <2>1 DEF LaunchHolds
  <2>2. CASE launcher.cell # canceller.cell
    BY <1>1, <1>2, <2>2 DEF LaunchHolds, CellsInv, RequestInv, LaunchInv
  <2> QED
    BY <2>1, <2>2
<1> QED
  BY <1>1, <1>2, <1>3, <1>5, <1>6
     DEF CellsInv, CellInv, FreshInv, CancelHolds, LinkHolds, queueVars

(* What a crash interrupts between two commits is set apart.               *)
LEMMA CrashStep ==
  ASSUME StudioInv, StudioCrash
  PROVE  CellsInv'
<1>0. [StudioNext]_allVars
  BY DEF StudioNext
<1>1. CellsInv
  BY DEF StudioInv
<1>2. /\ launcher'.pc = "idle" /\ linking' = NoCell
      /\ \A r \in Requests : cancels'[r] = NoJob
      /\ UNCHANGED <<status, pending, heard, cells, nextJob, owner>>
      /\ interrupted' = interrupted \cup ({launcher.cell, canceller.cell} \ {NoCell})
  BY DEF StudioCrash, Crash, NoLaunch, rowVars, histVars
<1>3. Exempt \ {NoCell} \subseteq Exempt'
  BY <1>2 DEF Exempt
<1> QED
  BY <1>0, <1>1, <1>2, <1>3, CellsKept
     DEF CellsInv, LaunchHolds, CancelHolds, LinkHolds

LEMMA StudioInvInit == StudioInit => StudioInv
<1>1. ASSUME StudioInit PROVE WorkerKnows /\ DoneInv
  BY <1>1 DEF StudioInit, QueueInit, WorkerKnows, DoneInv, Reports, Idle
<1>2. ASSUME StudioInit PROVE CellsInv
  BY <1>2 DEF StudioInit, QueueInit, CellsInv, FreshInv, CellInv, CellOK, LaunchHolds,
              CancelHolds, LinkHolds, NoLaunch
<1> QED
  BY <1>1, <1>2, BaseInit DEF StudioInv

LEMMA StudioInvStep == StudioInv /\ [StudioNext]_allVars => StudioInv'
<1> SUFFICES ASSUME StudioInv, [StudioNext]_allVars PROVE StudioInv'
  OBVIOUS
<1>1. ASSUME UNCHANGED allVars PROVE CellsInv'
  <2>1. CellInv' /\ FreshInv'
    BY <1>1, CellsKept DEF allVars, queueVars, studioVars, Exempt
  <2> QED
    BY <1>1, <2>1 DEF allVars, queueVars, studioVars, StudioInv, CellsInv, LaunchHolds,
                      CancelHolds, LinkHolds
<1>2. ASSUME StudioNext PROVE CellsInv'
  <2>1. CASE LaunchStep \/ \E S \in SUBSET Cells, resume \in BOOLEAN : Launch(S, resume)
    BY <2>1, LaunchRowStep, EnqueueStep, EnqueueFailsStep, LaunchBegins DEF LaunchStep
  <2>2. CASE CancelStep \/ CancelRun
    BY <2>2, CancelRunStep, CancelCellStep, CancelCellJobStep, CancelRowStep DEF CancelStep
  <2> QED
    BY <1>2, <2>1, <2>2, AloneStep, LinkStep, CrashStep DEF StudioNext
<1> QED
  BY <1>1, <1>2, QueueBase DEF StudioInv

(* The inductive invariant: what the worker, the requests and the callback *)
(* hold agrees with the rows, and a job id belongs to one cell for ever.   *)
THEOREM StudioInvariant == StudioSpec => []StudioInv
  BY StudioInvInit, StudioInvStep, PTL DEF StudioSpec

(* A cell that reads as generating has a job that will end it, a request   *)
(* at work on it, or was left by a crash between two commits: launch,      *)
(* cancellation, the callback and its failures strand no other.            *)
THEOREM CellsAreNotStranded == StudioSpec => []NoStrandedCell
<1>1. StudioInv => NoStrandedCell
  BY DEF StudioInv, CellsInv, CellInv, CellOK, Exempt, NoStrandedCell
<1> QED
  BY <1>1, StudioInvariant, PTL

(* A cell shows only an image that ComfyUI made for a job of this cell and *)
(* that the queue had committed, whatever cancelled or resumed it since.   *)
THEOREM ShownImagesAreCommitted == StudioSpec => []ShownOnlyAfterCommit
<1>1. StudioInv => ShownOnlyAfterCommit
  BY DEF StudioInv, CellsInv, CellInv, CellOK, ShownOnlyAfterCommit
<1> QED
  BY <1>1, StudioInvariant, PTL
=============================================================================
