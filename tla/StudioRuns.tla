------------------------------ MODULE StudioRuns ------------------------------
(***************************************************************************)
(* Test Studio runs over the image queue: the rows of LoraTestImage (one   *)
(* cell of a test grid each), the launch and resume of a run               *)
(* (create_run, resume_run), its cancellation (cancel_run) and the         *)
(* callback that links a finished job to its cell                          *)
(* (link_completed_test_image), which runs in the queue's worker.          *)
(*                                                                         *)
(* A launch and a cancel commit once per row and once per job, the         *)
(* callback reads the cell, copies the image, and commits: all three       *)
(* interleave with each other and with the queue.                          *)
(***************************************************************************)
EXTENDS JobQueue

CONSTANTS Cells, NoCell

ASSUME StudioAssumption == NoCell \notin Cells /\ \E r \in Requests : Requests = {r}

VARIABLES
  cells,        \* the rows: status, job_id, and the job whose output it shows
  nextJob,      \* the next fresh job id
  launcher,     \* the launch that holds _STUDIO_LAUNCH_LOCK
  canceller,    \* the cancel_run in progress
  linking,      \* the cell the callback has read and not yet written
  owner,        \* history: the cell a job id was made for
  interrupted   \* history: cells a crash left between two commits of a request

studioVars == <<cells, nextJob, launcher, canceller, linking, owner, interrupted>>
allVars == <<queueVars, studioVars>>

CellStatus == {"none", "pending", "done", "failed", "cancelled"}
NoLaunch == [pc |-> "idle", rows |-> {}, cell |-> NoCell, resume |-> FALSE]
NoCancel == [pc |-> "idle", rows |-> {}, cell |-> NoCell]

StudioTypeOK ==
  /\ cells \in [Cells -> [status : CellStatus, job : 0 .. MaxJobs, file : 0 .. MaxJobs]]
  /\ nextJob \in 1 .. MaxJobs + 1
  /\ launcher \in [pc : {"idle", "row", "enqueue"}, rows : SUBSET Cells,
                   cell : Cells \cup {NoCell}, resume : BOOLEAN]
  /\ canceller \in [pc : {"idle", "cell", "job", "row"}, rows : SUBSET Cells,
                    cell : Cells \cup {NoCell}]
  /\ linking \in Cells \cup {NoCell}
  /\ owner \in [Jobs -> Cells \cup {NoCell}]
  /\ interrupted \subseteq Cells

StudioInit ==
  /\ QueueInit
  /\ cells = [c \in Cells |-> [status |-> "none", job |-> NoJob, file |-> NoJob]]
  /\ nextJob = 1
  /\ launcher = NoLaunch
  /\ canceller = NoCancel
  /\ linking = NoCell
  /\ owner = [j \in Jobs |-> NoCell]
  /\ interrupted = {}

Active == {c \in Cells : cells[c].status = "pending"}

-----------------------------------------------------------------------------
(* create_run takes cells that do not exist yet, resume_run all those that *)
(* were cancelled or failed; both refuse while the GPU is busy or a cell   *)
(* is in flight.                                                           *)
Launch(S, resume) ==
  /\ process = "up" /\ launcher.pc = "idle"
  /\ ~gpuBusy /\ Active = {}
  /\ S # {}
  /\ IF resume
       THEN S = {c \in Cells : cells[c].status \in {"cancelled", "failed"}}
       ELSE S \subseteq {c \in Cells : cells[c].status = "none"}
  /\ launcher' = [pc |-> "row", rows |-> S, cell |-> NoCell, resume |-> resume]
  /\ UNCHANGED <<queueVars, cells, nextJob, canceller, linking, owner, interrupted>>

NextRow(rows) ==
  launcher' = IF rows = {} THEN NoLaunch
              ELSE [launcher EXCEPT !.pc = "row", !.rows = rows, !.cell = NoCell]

(* _launch_effective_cell: the row with its new job id is committed first. *)
LaunchRow(c) ==
  /\ launcher.pc = "row" /\ c \in launcher.rows
  /\ nextJob <= MaxJobs
  /\ cells' = [cells EXCEPT ![c] = [status |-> "pending", job |-> nextJob, file |-> NoJob]]
  /\ owner' = [owner EXCEPT ![nextJob] = c]
  /\ nextJob' = nextJob + 1
  /\ launcher' = [launcher EXCEPT !.pc = "enqueue", !.cell = c]
  /\ interrupted' = interrupted \ {c}
  /\ UNCHANGED <<queueVars, canceller, linking>>

Enqueue ==
  /\ launcher.pc = "enqueue"
  /\ AddJob(nextJob - 1)
  /\ NextRow(launcher.rows \ {launcher.cell})
  /\ UNCHANGED <<cells, nextJob, canceller, linking, owner, interrupted>>

(* Workflow build, preflight or insert raised: the row fails; a resume     *)
(* goes on with the next row, a new run stops.                             *)
EnqueueFails ==
  /\ launcher.pc = "enqueue"
  /\ cells' = [cells EXCEPT ![launcher.cell].status = "failed"]
  /\ NextRow(IF launcher.resume THEN launcher.rows \ {launcher.cell} ELSE {})
  /\ UNCHANGED <<queueVars, nextJob, canceller, linking, owner, interrupted>>

-----------------------------------------------------------------------------
(* cancel_run.                                                             *)

CancelRun ==
  /\ process = "up" /\ canceller.pc = "idle" /\ Active # {}
  /\ canceller' = [pc |-> "cell", rows |-> Active, cell |-> NoCell]
  /\ UNCHANGED <<queueVars, cells, nextJob, launcher, linking, owner, interrupted>>

(* The job id of the next selected row, and cancel_job's read of that job. *)
CancelCell(c) ==
  /\ canceller.pc = "cell" /\ c \in canceller.rows
  /\ LET j == cells[c].job IN
       IF j # NoJob /\ status[j] \in Live
         THEN /\ \E r \in Requests : CancelRead(r, j)
              /\ canceller' = [canceller EXCEPT !.pc = "job", !.cell = c]
         ELSE /\ canceller' = [canceller EXCEPT !.pc = "row", !.cell = c]
              /\ UNCHANGED queueVars
  /\ UNCHANGED <<cells, nextJob, launcher, linking, owner, interrupted>>

(* Defect: the cancelled job's row is deleted.                             *)
CancelDeletesJob ==
  /\ canceller.pc = "job"
  /\ \E r \in Requests :
       /\ cancels[r] # NoJob
       /\ status' = [status EXCEPT ![cancels[r]] = "none"]
       /\ cancels' = [cancels EXCEPT ![r] = NoJob]
  /\ canceller' = [canceller EXCEPT !.pc = "row"]
  /\ UNCHANGED <<pending, prompt, result, histVars, boundVars, remote, worker, process,
                 gpuBusy, cells, nextJob, launcher, linking, owner, interrupted>>

CancelCellJob ==
  /\ canceller.pc = "job"
  /\ \E r \in Requests : CancelWrite(r)
  /\ canceller' = [canceller EXCEPT !.pc = "row"]
  /\ UNCHANGED <<cells, nextJob, launcher, linking, owner, interrupted>>

(* The selected row is written by primary key, whatever it became since.   *)
CancelRow ==
  /\ canceller.pc = "row"
  /\ LET c == canceller.cell  rest == canceller.rows \ {c} IN
       /\ cells' = [cells EXCEPT ![c].status = "cancelled", ![c].job = NoJob]
       /\ interrupted' = interrupted \ {c}
       /\ canceller' = IF rest = {} THEN NoCancel
                       ELSE [pc |-> "cell", rows |-> rest, cell |-> NoCell]
  /\ UNCHANGED <<queueVars, nextJob, launcher, linking, owner>>

-----------------------------------------------------------------------------
(* link_completed_test_image, called by the worker with worker.job.        *)

Linked == {c \in Cells : cells[c].job = J}

LinkReads(c) ==
  /\ At("callback") /\ linking = NoCell
  /\ c \in Linked /\ (worker.failed \/ cells[c].status = "pending")
  /\ linking' = c
  /\ UNCHANGED <<queueVars, cells, nextJob, launcher, canceller, owner, interrupted>>

(* No row carries the job, or a success finds its row no longer pending:   *)
(* the output goes to the trash.                                           *)
LinkIgnores ==
  /\ At("callback") /\ linking = NoCell
  /\ \A c \in Linked : ~worker.failed /\ cells[c].status # "pending"
  /\ CallbackReturns
  /\ UNCHANGED studioVars

(* Defect: the callback takes any report for a success.                    *)
LinkTrustsReport ==
  /\ linking # NoCell
  /\ cells' = [cells EXCEPT ![linking].status = "done", ![linking].file = J]
  /\ linking' = NoCell
  /\ CallbackReturns
  /\ UNCHANGED <<nextJob, launcher, canceller, owner, interrupted>>

(* Defect: the image is attached and the status left as it was.            *)
LinkForgetsStatus ==
  /\ linking # NoCell
  /\ cells' = [cells EXCEPT ![linking].file = J]
  /\ linking' = NoCell
  /\ CallbackReturns
  /\ UNCHANGED <<nextJob, launcher, canceller, owner, interrupted>>

(* The commit: only the columns the callback changed are written.  The     *)
(* output of a success may have vanished from ComfyUI.                     *)
LinkWrites ==
  /\ linking # NoCell
  /\ \/ /\ worker.failed
        /\ cells' = [cells EXCEPT ![linking].status = "failed"]
     \/ /\ ~worker.failed
        /\ cells' = [cells EXCEPT ![linking].status = "done", ![linking].file = J]
     \/ /\ ~worker.failed
        /\ cells' = [cells EXCEPT ![linking].status = "failed", ![linking].file = NoJob]
  /\ linking' = NoCell
  /\ CallbackReturns
  /\ UNCHANGED <<nextJob, launcher, canceller, owner, interrupted>>

(* Defect: the worker swallows the failed commit.                          *)
LinkFaultSwallowed ==
  /\ linking # NoCell
  /\ CallbackFails
  /\ linking' = NoCell
  /\ UNCHANGED <<cells, nextJob, launcher, canceller, owner, interrupted>>

(* The commit fails: _dispatch_completion looks the row up again by its    *)
(* job id and marks it failed.                                             *)
LinkFaults ==
  /\ linking # NoCell
  /\ CallbackFails
  /\ cells' = [c \in Cells |-> IF c \in Linked THEN [cells[c] EXCEPT !.status = "failed"]
                                               ELSE cells[c]]
  /\ linking' = NoCell
  /\ UNCHANGED <<nextJob, launcher, canceller, owner, interrupted>>

-----------------------------------------------------------------------------
StudioCrash ==
  /\ Crash
  /\ interrupted' = interrupted \cup ({launcher.cell, canceller.cell} \ {NoCell})
  /\ launcher' = NoLaunch /\ canceller' = NoCancel /\ linking' = NoCell
  /\ UNCHANGED <<cells, nextJob, owner>>

QueueAlone == WorkerRuns \/ Recovery \/ Surroundings

Link == LinkIgnores \/ LinkWrites \/ LinkFaults \/ \E c \in Cells : LinkReads(c)
LaunchStep == Enqueue \/ EnqueueFails \/ \E c \in Cells : LaunchRow(c)
CancelStep == CancelCellJob \/ CancelRow \/ \E c \in Cells : CancelCell(c)

StudioNext ==
  \/ QueueAlone /\ UNCHANGED studioVars
  \/ Link \/ LaunchStep \/ CancelStep \/ CancelRun
  \/ \E S \in SUBSET Cells, resume \in BOOLEAN : Launch(S, resume)
  \/ StudioCrash

StudioSpec == StudioInit /\ [][StudioNext]_allVars

(* As for the queue; a request that was admitted runs to its end.          *)
FairStudioSpec ==
  /\ StudioSpec
  /\ WF_allVars((WorkerRuns /\ UNCHANGED studioVars) \/ Link)
  /\ WF_allVars(Recovery /\ UNCHANGED studioVars)
  /\ WF_allVars(LaunchStep)
  /\ WF_allVars(CancelStep)

-----------------------------------------------------------------------------
(* Properties.                                                             *)

(* A cell that reads as still generating has something that will end it:   *)
(* a request still working on it, a job that lives, an outcome owed to it  *)
(* or the worker on its way to report; only a crash between two commits of *)
(* a request leaves one without.                                           *)
NoStrandedCell ==
  \A c \in Cells \ (interrupted \cup {launcher.cell, canceller.cell}) :
    cells[c].status = "pending" =>
      LET j == cells[c].job IN
        /\ j # NoJob
        /\ status[j] \in Live \/ pending[j] \/ worker.job = j

(* A cell shows an image only after ComfyUI made it and the queue          *)
(* committed the success (which a late cancel may have overwritten).       *)
ShownOnlyAfterCommit ==
  \A c \in Cells : cells[c].file # NoJob =>
    LET f == cells[c].file IN
      owner[f] = c /\ remote[f] = "done" /\ status[f] \in {"completed", "cancelled"}

(* When the others leave the GPU alone, no cell stays `pending' for ever,  *)
(* except one a crash left between two commits of a request, and one whose *)
(* job waits for the next start.                                           *)
EveryCellSettles ==
  <>[](~gpuBusy) =>
    \A c \in Cells : cells[c].status = "pending" ~>
      \/ cells[c].status # "pending"
      \/ c \in interrupted
      \/ Unsettled(cells[c].job)

(* studio_storage.py:103: the late completion of a job whose row was       *)
(* cancelled or resumed must not overwrite the new run: a finished cell    *)
(* that a job was attached to shows the output of that job.                *)
DoneShowsOwnJob ==
  \A c \in Cells :
    cells[c].status = "done" /\ cells[c].job # NoJob => cells[c].file = cells[c].job
=============================================================================
