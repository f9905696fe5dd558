------------------------------ MODULE CloudRun ------------------------------
(***************************************************************************)
(* Cloud training (services/cloud_training.py): launches, the monitor      *)
(* thread of each run, stop requests, the sweep that destroys machines no  *)
(* run owns, and the recovery of runs whose monitor is gone.               *)
(*                                                                         *)
(* A step is one provider or pod call, or one commit.  The provider, the   *)
(* trainer on the machine and the passing of time are environment.         *)
(* Recovery's test for a live monitor and the start of a new one are one   *)
(* step: only a few bytecodes lie between them.                            *)
(***************************************************************************)
EXTENDS Naturals, FiniteSets

CONSTANTS Runs,            \* the runs; each names its row and its machine
          Recoverers,      \* the threads that recover runs
          Limit,           \* cloud.max_concurrent_runs
          MaxCrashes,      \* crashes of the server
          MaxFaults        \* failing provider calls and commits

ASSUME CloudAssumption == /\ IsFiniteSet(Runs)
                          /\ Recoverers \subseteq {"tick", "boot"}
                          /\ Runs \cap {"tick", "boot", "nobody"} = {}
                          /\ Limit \in Nat \ {0}
                          /\ MaxCrashes \in Nat /\ MaxFaults \in Nat

VARIABLES
  row,      \* CloudTrainingRun: status, registered machine, meter, phase, target
  pod,      \* the rented machine: "none", "up", "gone"
  remote,   \* the job on the machine and what was asked for it
  mon,      \* where the monitor thread of a run is, "off" without one
  closing,  \* progress of _finish, by the monitor or by a stop request
  stop,     \* runs whose stop event is set
  launch,   \* where the launch request of a run is
  sweep,    \* the reconciliation under way (there is one: _RECONCILE_LOCK)
  rec,      \* where the recovering threads are, and the rows they listed
  capped,   \* runs older than max_runtime_minutes
  expired,  \* kept machines past their recovery window
  rentals,  \* times a machine was created for the run
  crashes, faults

cloudVars == <<row, pod, remote, mon, closing, stop, launch, sweep, rec,
               capped, expired, rentals, crashes, faults>>
volatile == <<mon, closing, stop, launch, sweep, rec>>

Active == {"preparing", "provisioning", "uploading", "training",
           "downloading", "terminating"}
Ended == {"done", "stopped", "error", "error_pod_kept"}
Phases == {"none", "created", "seeded", "job_queued", "queue_starting", "started"}
RemoteStarted == {"running", "completed", "stopped", "failed"}
Goals == {"done", "stopped", "error"}
Closers == {"monitor", "request"}
NotClosing == [at |-> "no", goal |-> "error"]
NoSweep == [by |-> "nobody", at |-> "idle", seen |-> {}, pods |-> {},
            rows |-> {}, hit |-> {}, view |-> [r \in {} |-> "none"], fresh |-> FALSE]

ActiveRuns == {r \in Runs : row[r].status \in Active}
\* Mutant of LockFree: the lock is given back before the registration.
LockedBySweepOnly == sweep.by = "nobody"

\* _RECONCILE_LOCK: held by the sweep, and by a monitor from the rental of a
\* machine to its registration.
LockFree == sweep.by = "nobody" /\ \A r \in Runs : mon[r] # "rented"

CloudInit ==
  /\ row = [r \in Runs |-> [status |-> "none", iid |-> FALSE, meter |-> "none",
                            phase |-> "none", target |-> "none"]]
  /\ pod = [r \in Runs |-> "none"]
  /\ remote = [r \in Runs |-> [job |-> "none", creates |-> 0, starts |-> 0,
                               seeded |-> FALSE]]
  /\ mon = [r \in Runs |-> "off"]
  /\ closing = [c \in Closers \X Runs |-> NotClosing]
  /\ stop = {} /\ capped = {} /\ expired = {}
  /\ launch = [r \in Runs |-> "no"]
  /\ sweep = NoSweep
  /\ rec = [p \in Recoverers |-> [at |-> "sweep", rows |-> {}]]
  /\ rentals = [r \in Runs |-> 0]
  /\ crashes = 0 /\ faults = 0

CanFail == faults < MaxFaults /\ faults' = faults + 1

\* cloud_training._set
SetRow(r, new) == row' = [row EXCEPT ![r] = new]
Mon(r, at) == mon' = [mon EXCEPT ![r] = at]
External == <<pod, remote, rentals, capped, expired>>
Bounds == <<crashes, faults>>

------------------------------------------------------------------------------
(* Launch *)

LaunchRequest(r) ==
  /\ launch[r] = "no" /\ row[r].status = "none"
  /\ launch' = [launch EXCEPT ![r] = "sweep"]
  /\ UNCHANGED <<row, mon, closing, stop, sweep, rec, External, Bounds>>

\* Under _LAUNCH_LOCK: the count of the active runs and the new row.
Admit(r) ==
  /\ launch[r] = "admit"
  /\ IF Cardinality(ActiveRuns) < Limit
       THEN /\ SetRow(r, [row[r] EXCEPT !.status = "preparing"])
            /\ launch' = [launch EXCEPT ![r] = "copy"]
       ELSE /\ launch' = [launch EXCEPT ![r] = "no"]
            /\ UNCHANGED row
  /\ UNCHANGED <<mon, closing, stop, sweep, rec, External, Bounds>>

\* The snapshot is copied, the recipe stored, and the monitor started.  The
\* row's status is not looked at again.
LaunchStarts(r) ==
  /\ launch[r] = "copy"
  /\ launch' = [launch EXCEPT ![r] = "over"]
  /\ stop' = stop \ {r}
  /\ Mon(r, "stage")
  /\ UNCHANGED <<row, closing, sweep, rec, External, Bounds>>

LaunchFails(r) ==
  /\ launch[r] = "copy"
  /\ launch' = [launch EXCEPT ![r] = "over"]
  /\ SetRow(r, [row[r] EXCEPT !.status = "error"])
  /\ UNCHANGED <<mon, closing, stop, sweep, rec, External, Bounds>>

------------------------------------------------------------------------------
(* Ending a run: _finish destroys the machine, then commits the outcome. *)

Begins(c, r, goal) ==
  closing' = [closing EXCEPT ![<<c, r>>] = [at |-> "destroy", goal |-> goal]]

\* _complete_cleanup
Completed(old, goal) ==
  [old EXCEPT !.status = goal, !.target = "none",
              !.meter = IF @ = "none" THEN "none" ELSE "closed"]
\* Mutant of Pending: the meter is stopped.
PendingStopsMeter(old, goal) ==
  [old EXCEPT !.status = "terminating", !.target = goal,
              !.meter = IF @ = "none" THEN "none" ELSE "closed"]

\* _mark_cleanup_pending
Pending(old, goal) ==
  [old EXCEPT !.status = "terminating", !.target = goal,
              !.meter = IF @ = "none" THEN "none" ELSE "open"]

Destroy(r) == pod' = [pod EXCEPT ![r] = IF @ = "up" THEN "gone" ELSE @]

FinishDestroys(c, r) ==
  /\ closing[<<c, r>>].at = "destroy"
  /\ closing' = [closing EXCEPT ![<<c, r>>] = [@ EXCEPT !.at = "destroyed"]]
  /\ IF row[r].iid THEN Destroy(r) ELSE UNCHANGED pod
  /\ UNCHANGED <<row, remote, mon, stop, launch, sweep, rec, capped, expired,
                 rentals, Bounds>>

FinishCannotDestroy(c, r) ==
  /\ closing[<<c, r>>].at = "destroy" /\ row[r].iid
  /\ CanFail
  /\ closing' = [closing EXCEPT ![<<c, r>>] = [@ EXCEPT !.at = "refused"]]
  /\ UNCHANGED <<row, mon, stop, launch, sweep, rec, External, crashes>>

\* The monitor ends with its commit and drops its stop event.
FinishRecords(c, r) ==
  /\ closing[<<c, r>>].at \in {"destroyed", "refused"}
  /\ SetRow(r, IF closing[<<c, r>>].at = "destroyed"
                 THEN Completed(row[r], closing[<<c, r>>].goal)
                 ELSE Pending(row[r], closing[<<c, r>>].goal))
  /\ closing' = [closing EXCEPT ![<<c, r>>] = NotClosing]
  /\ IF c = "monitor" THEN Mon(r, "off") /\ stop' = stop \ {r}
                      ELSE UNCHANGED <<mon, stop>>
  /\ UNCHANGED <<launch, sweep, rec, External, Bounds>>

RequestStop(r) ==
  /\ closing[<<"request", r>>] = NotClosing
  /\ CASE row[r].status = "error_pod_kept" ->
            Begins("request", r, "stopped") /\ UNCHANGED stop
       [] row[r].status = "terminating" ->
            Begins("request", r, row[r].target) /\ UNCHANGED stop
       [] row[r].status \in Active \ {"terminating"} ->
            stop' = stop \cup {r} /\ UNCHANGED closing
       [] OTHER -> FALSE
  /\ UNCHANGED <<row, mon, launch, sweep, rec, External, Bounds>>

\* request_stop without a run
StopAll ==
  /\ stop' = stop \cup ActiveRuns
  /\ UNCHANGED <<row, mon, closing, launch, sweep, rec, External, Bounds>>

------------------------------------------------------------------------------
(* The monitor of a run.  An exception anywhere ends the run in error. *)

Ends(r, goal) == Mon(r, "closing") /\ Begins("monitor", r, goal)

MonitorFails(r) ==
  /\ mon[r] \notin {"off", "rented", "closing"}
  /\ Ends(r, "error")
  /\ UNCHANGED <<row, stop, launch, sweep, rec, External, Bounds>>

\* _prepare_staging; a run with a machine goes straight to the boot wait.
Stage(r) ==
  /\ mon[r] = "stage"
  /\ Mon(r, IF row[r].iid THEN "boot" ELSE "provision")
  /\ UNCHANGED <<row, closing, stop, launch, sweep, rec, External, Bounds>>

Created(r) == /\ pod' = [pod EXCEPT ![r] = "up"]
              /\ rentals' = [rentals EXCEPT ![r] = @ + 1]

\* _provision_locked: create_instance, under _RECONCILE_LOCK until Register
Rent(r) ==
  /\ mon[r] = "provision" /\ LockFree
  /\ Created(r)
  /\ Mon(r, "rented")
  /\ UNCHANGED <<row, remote, closing, stop, launch, sweep, rec, capped, expired, Bounds>>

\* The machine is created and the answer lost: no id, nothing to destroy.
RentAnswerLost(r) ==
  /\ mon[r] = "provision" /\ LockFree
  /\ CanFail
  /\ Created(r)
  /\ Ends(r, "error")
  /\ UNCHANGED <<row, remote, stop, launch, sweep, rec, capped, expired, crashes>>

\* _register_instance
Register(r) ==
  /\ mon[r] = "rented"
  /\ SetRow(r, [row[r] EXCEPT !.iid = TRUE, !.meter = "open",
                              !.status = "provisioning"])
  /\ Mon(r, "boot")
  /\ UNCHANGED <<closing, stop, launch, sweep, rec, External, Bounds>>

\* The id cannot be stored: the machine is destroyed, which may fail as well.
\* The session may be unusable for the commit that would end the run.
RegisterFails(r) ==
  /\ mon[r] = "rented"
  /\ CanFail
  /\ Destroy(r) \/ UNCHANGED pod
  /\ \/ Ends(r, "error") /\ UNCHANGED stop
     \/ Mon(r, "off") /\ stop' = stop \ {r} /\ UNCHANGED closing
  /\ UNCHANGED <<row, remote, launch, sweep, rec, capped, expired, rentals, crashes>>

BootReady(r) ==
  /\ mon[r] = "boot" /\ pod[r] = "up"
  /\ Mon(r, "ready")
  /\ UNCHANGED <<row, closing, stop, launch, sweep, rec, External, Bounds>>

BootStopped(r) ==
  /\ mon[r] = "boot" /\ r \in stop
  /\ stop' = stop \ {r}
  /\ Ends(r, "stopped")
  /\ UNCHANGED <<row, launch, sweep, rec, External, Bounds>>

\* A run whose job was started is followed; otherwise the dataset is
\* uploaded and the submission resumed at its recorded phase.
Ready(r) ==
  /\ mon[r] = "ready"
  /\ IF row[r].phase = "started"
       THEN Mon(r, "poll") /\ UNCHANGED row
       ELSE /\ SetRow(r, [row[r] EXCEPT !.status = "uploading"])
            /\ Mon(r, IF row[r].phase \in {"none", "created"}
                        THEN "submit" ELSE "resubmit")
  /\ UNCHANGED <<closing, stop, launch, sweep, rec, External, Bounds>>

(* _submit_remote_job: each call to the machine, then the commit of its    *)
(* phase.  A job of the run's name is adopted rather than created again.   *)

Calls(r, new, at) ==
  /\ pod[r] = "up"
  /\ remote' = [remote EXCEPT ![r] = new]
  /\ Mon(r, at)
  /\ UNCHANGED <<row, closing, stop, launch, sweep, rec, pod, rentals, capped,
                 expired, Bounds>>

\* Mutant of CreateJob: no look for a job of the run's name.
CreateJobBlindly(r) ==
  /\ mon[r] = "submit" /\ row[r].phase = "none"
  /\ Calls(r, [remote[r] EXCEPT !.job = "created", !.creates = @ + 1], "jobmade")

CreateJob(r) ==
  /\ mon[r] = "submit" /\ row[r].phase = "none"
  /\ Calls(r, IF remote[r].job = "none"
                THEN [remote[r] EXCEPT !.job = "created", !.creates = @ + 1]
                ELSE remote[r], "jobmade")

SeedCheckpoint(r) ==
  /\ mon[r] = "submit" /\ row[r].phase = "created"
  /\ Calls(r, [remote[r] EXCEPT !.seeded = TRUE], "seeding")

QueueJob(r) ==
  /\ \/ mon[r] = "submit"
     \/ mon[r] = "resubmit" /\ remote[r].job = "created"
  /\ row[r].phase = "seeded"
  /\ Calls(r, [remote[r] EXCEPT !.job = IF @ = "created" THEN "queued" ELSE @],
           "queueing")

StartQueue(r) ==
  /\ mon[r] = "starting"
  /\ Calls(r, [remote[r] EXCEPT !.starts = @ + 1], "started")

SubmitRecords(r) ==
  /\ mon[r] \in {"jobmade", "seeding", "queueing"}
  /\ SetRow(r, [row[r] EXCEPT !.phase = CASE mon[r] = "jobmade" -> "created"
                                          [] mon[r] = "seeding" -> "seeded"
                                          [] OTHER -> "job_queued"])
  /\ Mon(r, "submit")
  /\ UNCHANGED <<closing, stop, launch, sweep, rec, External, Bounds>>

\* Committed before the queue is started, so that it is never started twice.
MarkStarting(r) ==
  /\ \/ mon[r] = "submit" /\ row[r].phase = "job_queued"
     \/ /\ mon[r] = "resubmit" /\ pod[r] = "up"
        /\ row[r].phase \in {"seeded", "job_queued"} /\ remote[r].job = "queued"
  /\ SetRow(r, [row[r] EXCEPT !.phase = "queue_starting"])
  /\ Mon(r, "starting")
  /\ UNCHANGED <<closing, stop, launch, sweep, rec, External, Bounds>>

RecordStarted(r) ==
  /\ \/ mon[r] = "started"
     \/ mon[r] = "resubmit" /\ pod[r] = "up" /\ remote[r].job \in RemoteStarted
  /\ SetRow(r, [row[r] EXCEPT !.phase = "started", !.status = "training"])
  /\ Mon(r, "poll")
  /\ UNCHANGED <<closing, stop, launch, sweep, rec, External, Bounds>>

\* An interrupted start is not repeated: the run waits for the job to run.
AwaitStart(r) ==
  /\ mon[r] = "resubmit" /\ row[r].phase = "queue_starting"
  /\ pod[r] = "up" /\ remote[r].job \notin RemoteStarted
  /\ SetRow(r, [row[r] EXCEPT !.status = "training"])
  /\ Mon(r, "poll")
  /\ UNCHANGED <<closing, stop, launch, sweep, rec, External, Bounds>>

PollNotesStart(r) ==
  /\ mon[r] = "poll" /\ pod[r] = "up" /\ row[r].phase = "queue_starting"
  /\ remote[r].job \notin {"queued", "stopped"}
  /\ SetRow(r, [row[r] EXCEPT !.phase = "started"])
  /\ UNCHANGED <<mon, closing, stop, launch, sweep, rec, External, Bounds>>

\* A checkpoint that is fetched on the way out is committed with the status.
Fetched(r) == \/ SetRow(r, [row[r] EXCEPT !.status = "downloading"])
              \/ UNCHANGED row

EndsJob(r, goal) ==
  /\ remote' = [remote EXCEPT ![r].job =
                  IF pod[r] = "up" /\ @ \in {"queued", "running"} THEN "stopped" ELSE @]
  /\ Fetched(r)
  /\ Ends(r, goal)
  /\ UNCHANGED <<launch, sweep, rec, pod, rentals, capped, expired, Bounds>>

PollStops(r) ==
  /\ mon[r] = "poll" /\ r \in stop \cup capped
  /\ stop' = IF r \in capped THEN stop ELSE stop \ {r}
  /\ EndsJob(r, "stopped")

\* The watchdog of a job whose steps do not advance.
PollStalls(r) ==
  /\ mon[r] = "poll" /\ pod[r] = "up" /\ remote[r].job = "running"
  /\ EndsJob(r, "error")
  /\ UNCHANGED stop

PollCompleted(r) ==
  /\ mon[r] = "poll" /\ pod[r] = "up"
  /\ remote[r].job = "completed" /\ row[r].phase = "started"
  /\ SetRow(r, [row[r] EXCEPT !.status = "downloading"])
  /\ Ends(r, "done")
  /\ UNCHANGED <<stop, launch, sweep, rec, External, Bounds>>

\* The result cannot be fetched: the machine is kept for the user.
PollKeepsPod(r) ==
  /\ mon[r] = "poll" /\ pod[r] = "up"
  /\ remote[r].job = "completed" /\ row[r].phase = "started"
  /\ SetRow(r, [row[r] EXCEPT !.status = "error_pod_kept"])
  /\ Mon(r, "off")
  /\ stop' = stop \ {r}
  /\ UNCHANGED <<closing, launch, sweep, rec, External, Bounds>>

PollEnded(r) ==
  /\ mon[r] = "poll" /\ pod[r] = "up" /\ remote[r].job \in {"failed", "stopped"}
  /\ Fetched(r)
  /\ Ends(r, IF remote[r].job = "failed" THEN "error" ELSE "stopped")
  /\ UNCHANGED <<stop, launch, sweep, rec, External, Bounds>>

------------------------------------------------------------------------------
(* reconcile_orphans: lists the machines, then reads the rows, then        *)
(* destroys every machine whose row does not keep it.                      *)

Wants(p) == IF p \in Recoverers THEN rec[p].at = "sweep" ELSE launch[p] = "sweep"

\* After its sweep a launch is admitted and a recovering thread goes on.
SweptBy(p) ==
  IF p \in Recoverers
    THEN rec' = [rec EXCEPT ![p].at = "list"] /\ UNCHANGED launch
    ELSE launch' = [launch EXCEPT ![p] = "admit"] /\ UNCHANGED rec

\* The periodic thread does not wait for the lock; the others do.
SweepSkipped ==
  /\ "tick" \in Recoverers /\ Wants("tick") /\ ~LockFree
  /\ SweptBy("tick")
  /\ UNCHANGED <<row, mon, closing, stop, sweep, External, Bounds>>

SweepLists(p) ==
  /\ Wants(p) /\ LockFree
  /\ sweep' = [NoSweep EXCEPT !.by = p, !.at = "read",
                              !.seen = {r \in Runs : pod[r] = "up"}]
  /\ IF p \in Recoverers THEN rec' = [rec EXCEPT ![p].at = "sweeping"] /\ UNCHANGED launch
                         ELSE launch' = [launch EXCEPT ![p] = "sweeping"] /\ UNCHANGED rec
  /\ UNCHANGED <<row, mon, closing, stop, External, Bounds>>

SweepCannotList(p) ==
  /\ Wants(p) /\ LockFree
  /\ CanFail
  /\ SweptBy(p)
  /\ UNCHANGED <<row, mon, closing, stop, sweep, External, crashes>>

Seen(r) == [status |-> row[r].status, target |-> row[r].target,
            meter |-> row[r].meter]

\* Mutant of SweepReads: the machines of ended rows are kept as well.
SweepKeepsOwned ==
  /\ sweep.at = "read"
  /\ LET owned == {r \in Runs : row[r].iid}
     IN sweep' = [sweep EXCEPT !.at = "work", !.seen = {},
                               !.pods = sweep.seen \ owned,
                               !.rows = owned \ sweep.seen,
                               !.view = [r \in owned |-> Seen(r)]]
  /\ UNCHANGED <<row, mon, closing, stop, launch, rec, External, Bounds>>

SweepReads ==
  /\ sweep.at = "read"
  /\ LET owned == {r \in Runs : row[r].iid}
         keep == {r \in owned : row[r].status \in Active \ {"terminating"}}
     IN sweep' = [sweep EXCEPT !.at = "work", !.seen = {},
                               !.pods = sweep.seen \ keep,
                               !.rows = owned \ sweep.seen,
                               !.view = [r \in owned |-> Seen(r)]]
  /\ UNCHANGED <<row, mon, closing, stop, launch, rec, External, Bounds>>

\* A row as the session of the sweep sees it: read once, and again after the
\* first commit of the sweep expired it.
View(r) == IF sweep.fresh THEN Seen(r) ELSE sweep.view[r]
Spared(r) == /\ r \in DOMAIN sweep.view
             /\ View(r).status = "error_pod_kept" /\ r \notin expired

SweepSpares(r) ==
  /\ sweep.at = "work" /\ sweep.hit = {} /\ r \in sweep.pods
  /\ Spared(r)
  /\ sweep' = [sweep EXCEPT !.pods = @ \ {r}]
  /\ UNCHANGED <<row, mon, closing, stop, launch, rec, External, Bounds>>

SweepDestroys(r) ==
  /\ sweep.at = "work" /\ sweep.hit = {} /\ r \in sweep.pods
  /\ ~Spared(r)
  /\ Destroy(r)
  /\ sweep' = [sweep EXCEPT !.pods = @ \ {r}, !.hit = {r},
                 !.view = IF r \in DOMAIN @ THEN [@ EXCEPT ![r] = View(r)] ELSE @]
  /\ UNCHANGED <<row, remote, mon, closing, stop, launch, rec, capped, expired,
                 rentals, Bounds>>

SweepCannotDestroy(r) ==
  /\ sweep.at = "work" /\ sweep.hit = {} /\ r \in sweep.pods
  /\ ~Spared(r)
  /\ CanFail
  /\ sweep' = [sweep EXCEPT !.pods = @ \ {r}]
  /\ UNCHANGED <<row, mon, closing, stop, launch, rec, External, crashes>>

\* The row of a machine that is gone: a pending clean-up gets its recorded
\* outcome, any other row has its meter closed.
Settled(old, seen) ==
  IF seen.status = "terminating" THEN Completed(old, seen.target)
  ELSE [old EXCEPT !.meter = "closed"]

SweepRecords(r) ==
  /\ sweep.at = "work" /\ r \in sweep.hit
  /\ LET writes == /\ r \in DOMAIN sweep.view
                   /\ \/ sweep.view[r].status \in {"terminating", "error_pod_kept"}
                      \/ sweep.view[r].meter # "closed"
     IN /\ IF writes THEN SetRow(r, Settled(row[r], sweep.view[r])) ELSE UNCHANGED row
        /\ sweep' = [sweep EXCEPT !.hit = {}, !.fresh = @ \/ writes]
  /\ UNCHANGED <<mon, closing, stop, launch, rec, External, Bounds>>

\* A row whose machine the provider no longer lists.
SweepUnlisted(r) ==
  /\ sweep.at = "work" /\ sweep.hit = {} /\ sweep.pods = {} /\ r \in sweep.rows
  /\ LET writes == View(r).meter # "closed"
     IN /\ IF writes THEN SetRow(r, Settled(row[r], View(r))) ELSE UNCHANGED row
        /\ sweep' = [sweep EXCEPT !.rows = @ \ {r}, !.fresh = @ \/ writes]
  /\ UNCHANGED <<mon, closing, stop, launch, rec, External, Bounds>>

SweepEnds ==
  /\ sweep.at = "work" /\ sweep.hit = {} /\ sweep.pods = {} /\ sweep.rows = {}
  /\ SweptBy(sweep.by)
  /\ sweep' = NoSweep
  /\ UNCHANGED <<row, mon, closing, stop, External, Bounds>>

------------------------------------------------------------------------------
(* _recover_active_runs, under no lock, after every sweep of "tick" (every *)
(* minute) and once after that of "boot".                                  *)

RecoverLists(p) ==
  /\ rec[p].at = "list"
  /\ rec' = [rec EXCEPT ![p] = [at |-> "recover", rows |-> ActiveRuns]]
  /\ UNCHANGED <<row, mon, closing, stop, launch, sweep, External, Bounds>>

\* Mutant of RecoverRow: rows without a machine are left alone.
RecoverRentedRow(p, r) ==
  /\ rec[p].at = "recover" /\ r \in rec[p].rows
  /\ rec' = [rec EXCEPT ![p].rows = @ \ {r}]
  /\ IF mon[r] = "off" /\ row[r].iid THEN Mon(r, "stage") ELSE UNCHANGED mon
  /\ UNCHANGED <<row, closing, stop, launch, sweep, External, Bounds>>

\* The row's status is that of the listing: only its machine is looked at.
RecoverRow(p, r) ==
  /\ rec[p].at = "recover" /\ r \in rec[p].rows
  /\ rec' = [rec EXCEPT ![p].rows = @ \ {r}]
  /\ CASE mon[r] # "off" -> UNCHANGED <<row, mon>>
       [] mon[r] = "off" /\ row[r].iid -> Mon(r, "stage") /\ UNCHANGED row
       [] OTHER -> SetRow(r, [row[r] EXCEPT !.status = "error"]) /\ UNCHANGED mon
  /\ UNCHANGED <<closing, stop, launch, sweep, External, Bounds>>

RecoverEnds(p) ==
  /\ rec[p].at = "recover" /\ rec[p].rows = {}
  /\ rec' = [rec EXCEPT ![p].at = IF p = "tick" THEN "sweep" ELSE "over"]
  /\ UNCHANGED <<row, mon, closing, stop, launch, sweep, External, Bounds>>

------------------------------------------------------------------------------
(* Environment *)

\* The machine's queue, once started, takes the job when it gets to it.
JobRuns(r) ==
  /\ pod[r] = "up" /\ remote[r].job = "queued" /\ remote[r].starts > 0
  /\ remote' = [remote EXCEPT ![r].job = "running"]
  /\ UNCHANGED <<row, pod, volatile, rentals, capped, expired, Bounds>>

JobEnds(r) ==
  /\ pod[r] = "up" /\ remote[r].job = "running"
  /\ \E end \in {"completed", "failed"} : remote' = [remote EXCEPT ![r].job = end]
  /\ UNCHANGED <<row, pod, volatile, rentals, capped, expired, Bounds>>

\* The provider takes the machine back, or the user in the provider's console.
PodLost(r) ==
  /\ row[r].iid /\ pod[r] = "up"
  /\ CanFail
  /\ Destroy(r)
  /\ UNCHANGED <<row, remote, volatile, rentals, capped, expired, crashes>>

\* Only the poll looks at the age of the run.
CapPasses(r) ==
  /\ mon[r] = "poll" /\ r \notin capped
  /\ capped' = capped \cup {r}
  /\ UNCHANGED <<row, pod, remote, volatile, rentals, expired, Bounds>>

WindowPasses(r) ==
  /\ row[r].status = "error_pod_kept" /\ r \notin expired
  /\ expired' = expired \cup {r}
  /\ UNCHANGED <<row, pod, remote, volatile, rentals, capped, Bounds>>

\* Before the first run is admitted a crash leaves nothing behind.
Crash ==
  /\ crashes < MaxCrashes /\ \E r \in Runs : row[r].status # "none"
  /\ crashes' = crashes + 1
  /\ mon' = [r \in Runs |-> "off"]
  /\ closing' = [c \in Closers \X Runs |-> NotClosing]
  /\ stop' = {}
  /\ launch' = [r \in Runs |-> IF launch[r] \in {"copy", "over"} THEN "over" ELSE "no"]
  /\ sweep' = NoSweep
  /\ rec' = [p \in Recoverers |-> [at |-> "sweep", rows |-> {}]]
  /\ UNCHANGED <<row, External, faults>>

------------------------------------------------------------------------------
Submits(r) ==
  \/ CreateJob(r) \/ SeedCheckpoint(r) \/ QueueJob(r) \/ StartQueue(r)
  \/ SubmitRecords(r) \/ MarkStarting(r) \/ RecordStarted(r) \/ AwaitStart(r)
Polls(r) ==
  \/ PollNotesStart(r) \/ PollStops(r) \/ PollCompleted(r) \/ PollKeepsPod(r)
  \/ PollEnded(r)
Monitor(r) ==
  \/ Stage(r) \/ Rent(r) \/ RentAnswerLost(r) \/ Register(r) \/ RegisterFails(r)
  \/ BootReady(r) \/ BootStopped(r) \/ Ready(r) \/ Submits(r) \/ Polls(r)
  \/ PollStalls(r) \/ MonitorFails(r)
Finishes(c, r) ==
  FinishDestroys(c, r) \/ FinishCannotDestroy(c, r) \/ FinishRecords(c, r)
Launches(r) == LaunchRequest(r) \/ Admit(r)
LaunchEnds(r) == LaunchStarts(r) \/ LaunchFails(r)
SweepWorks ==
  \/ SweepReads \/ SweepEnds
  \/ \E r \in Runs : \/ SweepSpares(r) \/ SweepDestroys(r) \/ SweepCannotDestroy(r)
                     \/ SweepRecords(r) \/ SweepUnlisted(r)
Sweeps(p) == SweepLists(p) \/ SweepCannotList(p)
Recovers(p) == RecoverLists(p) \/ RecoverEnds(p) \/ \E r \in Runs : RecoverRow(p, r)
Environment(r) == JobRuns(r) \/ JobEnds(r) \/ PodLost(r) \/ CapPasses(r) \/ WindowPasses(r)

CloudWorks ==
  \/ \E r \in Runs : \/ Launches(r) \/ Monitor(r) \/ RequestStop(r)
                     \/ \E c \in Closers : Finishes(c, r)
                     \/ Environment(r)
  \/ StopAll \/ SweepSkipped \/ SweepWorks
  \/ \E p \in Recoverers \cup Runs : Sweeps(p)
  \/ \E p \in Recoverers : Recovers(p)

CloudNext == CloudWorks \/ Crash \/ \E r \in Runs : LaunchEnds(r)

CloudSpec == CloudInit /\ [][CloudNext]_cloudVars

\* Threads run on: a launch, the monitor, _finish, a sweep and recovery.  Waits
\* that a timeout bounds end; calls stop failing when MaxFaults is used up; the
\* lock is not always taken when a thread wants it.
MonitorGoesOn(r) ==
  \/ mon[r] \in {"boot", "ready"} /\ Monitor(r)
  \/ Submits(r) \/ Polls(r)
  \/ pod[r] # "up" /\ mon[r] \notin {"stage", "provision"} /\ MonitorFails(r)

CloudFairness ==
  /\ \A r \in Runs :
       /\ WF_cloudVars(Admit(r) \/ LaunchEnds(r))
       /\ SF_cloudVars(Stage(r) \/ Rent(r) \/ Register(r))
       /\ WF_cloudVars(MonitorGoesOn(r))
       /\ WF_cloudVars(\E c \in Closers : Finishes(c, r))
       /\ WF_cloudVars(CapPasses(r) \/ WindowPasses(r))
  /\ WF_cloudVars(SweepWorks)
  /\ \A p \in Recoverers : SF_cloudVars(Sweeps(p)) /\ WF_cloudVars(Recovers(p))

FairCloudSpec == CloudSpec /\ CloudFairness

------------------------------------------------------------------------------
(* Properties *)

Rows == [status : Active \cup Ended \cup {"none"}, iid : BOOLEAN,
         meter : {"none", "open", "closed"}, phase : Phases, target : Goals \cup {"none"}]
RemoteJobs == [job : {"none", "created", "queued"} \cup RemoteStarted,
               creates : Nat, starts : Nat, seeded : BOOLEAN]
Places == {"off", "stage", "provision", "rented", "boot", "ready", "submit", "resubmit",
           "jobmade", "seeding", "queueing", "starting", "started", "poll", "closing"}
Closings == [at : {"no", "destroy", "destroyed", "refused"}, goal : Goals]
Recoveries == [at : {"sweep", "sweeping", "list", "recover", "over"}, rows : SUBSET Runs]
Views == [status : Active \cup Ended \cup {"none"}, target : Goals \cup {"none"},
          meter : {"none", "open", "closed"}]

SweepTypeOK ==
  /\ sweep \in [by : Recoverers \cup Runs \cup {"nobody"}, at : {"idle", "read", "work"},
                seen : SUBSET Runs, pods : SUBSET Runs, rows : SUBSET Runs,
                hit : SUBSET Runs, view : {sweep.view}, fresh : BOOLEAN]
  /\ DOMAIN sweep.view \subseteq Runs /\ sweep.view \in [DOMAIN sweep.view -> Views]

CloudTypeOK ==
  /\ row \in [Runs -> Rows] /\ pod \in [Runs -> {"none", "up", "gone"}]
  /\ remote \in [Runs -> RemoteJobs] /\ mon \in [Runs -> Places]
  /\ closing \in [Closers \X Runs -> Closings]
  /\ stop \subseteq Runs /\ capped \subseteq Runs /\ expired \subseteq Runs
  /\ launch \in [Runs -> {"no", "sweep", "sweeping", "admit", "copy", "over"}]
  /\ SweepTypeOK /\ rec \in [Recoverers -> Recoveries]
  /\ rentals \in [Runs -> Nat]
  /\ crashes \in 0..MaxCrashes /\ faults \in 0..MaxFaults

\* The meter of a registered machine runs as long as the machine does, across
\* failed clean-ups, sweeps, revivals and crashes, so that the budget counts it.
MeteredWhileUp ==
  \A r \in Runs : row[r].iid /\ pod[r] = "up" => row[r].meter = "open"

\* A job is created and started at most once on its machine, and not before its
\* checkpoint is there, wherever the submission was interrupted.
OneSeededJob ==
  \A r \in Runs : /\ remote[r].creates <= 1 /\ remote[r].starts <= 1
                  /\ remote[r].job \notin {"none", "created"} => remote[r].seeded

\* The machine a monitor has rented and is about to register is never destroyed
\* under it, whatever a sweep and the monitor read of each other before. One kept for the
\* user, and never given up to clean-up before, is destroyed only when its window
\* has passed, by a stop request, or by a monitor that was started for it again.
Kept(r) == /\ row[r].status = "error_pod_kept" /\ row[r].target = "none"
           /\ mon[r] = "off" /\ closing[<<"request", r>>].at = "no"
OwnedPodsAreSpared ==
  [][\A r \in Runs : pod[r] = "up" /\ pod'[r] = "gone" =>
       /\ mon'[r] # "rented"
       /\ Kept(r) => r \in expired \/ faults' # faults]_cloudVars

\* Two statements the code does not keep (README, 6).  Clean-up that is pending
\* keeps its recorded outcome.
CleanupKeepsItsTarget ==
  [][\A r \in Runs : row[r].status = "terminating"
                       => row'[r].status \in {"terminating", row[r].target}]_cloudVars

\* Admission keeps the number of active runs within the limit.
WithinLimit == Cardinality(ActiveRuns) <= Limit

\* Every run ends.
RunsEnd == \A r \in Runs : r \in ActiveRuns ~> row[r].status \in Ended

\* The run implements the rental of its machine.
Machine == INSTANCE Rental WITH machine <- pod, meter <- [r \in Runs |-> row[r].meter]
RentsOnce == Machine!RentalSpec
=============================================================================
