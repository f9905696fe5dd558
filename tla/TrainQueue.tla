------------------------------ MODULE TrainQueue ------------------------------
(***************************************************************************)
(* Local training: the persisted queue (lora_training_queue.py), the       *)
(* launch of a trainer process with its durable phases and the stop of it  *)
(* (lora_training_process.py), and the row of the GPU lease they use.      *)
(*                                                                         *)
(* Four parties interleave at database commits: the advance of the queue   *)
(* (scheduler tick or watcher, one at a time under _queue_lock), a launch  *)
(* requested over the web, a stop request (no lock), and the trainer,      *)
(* which outlives the server process.                                      *)
(*                                                                         *)
(* A run is one attempt to launch; its number stands for the launch token, *)
(* the lease token, the PID and the trainer's identity.  Which queued item *)
(* is due first is left open (clock and order of the list decide).         *)
(***************************************************************************)
EXTENDS Naturals, FiniteSets

CONSTANTS
  Items,        \* datasets that may wait in the queue
  MaxRuns,      \* bound: launch attempts
  MaxDirect,    \* bound: launches requested over the web
  MaxStops,     \* bound: stop requests
  MaxCrashes,   \* bound: deaths of the server process
  NoItem, Other \* no queue item; generation or vision as lease holder

ASSUME TrainAssumption ==
  /\ NoItem \notin Items
  /\ Other \notin Nat
  /\ MaxRuns \in Nat /\ MaxDirect \in Nat /\ MaxStops \in Nat /\ MaxCrashes \in Nat

Runs == 1 .. MaxRuns
NoRun == 0
Callers == {"queue", "direct"}

VARIABLES
  \* rows of SystemState
  queue,     \* lora_train_queue: the status of each item, "out" if absent
  launchId,  \* training_queue_launch_id
  launch,    \* training_launch: phase, run and the queue item it came from
  flag,      \* training_in_progress
  pid,       \* training_pid
  stored,    \* training_gpu_lease: the token the training remembers
  lease,     \* gpu_workload_lease: who holds it
  \* the world and the threads
  trainer,   \* the trainer process of each run
  lock,      \* who holds _TRAIN_LAUNCH_LOCK
  adv,       \* _advance_training_queue: where it stands and what it has read
  call,      \* _launch_training of each caller
  stopping,  \* stop_training: where it stands
  nextRun, directs, stops, crashes,
  \* history
  fate,      \* what happened to an item since it was last enqueued
  times      \* how many trainers were spawned for it since then

rows == <<queue, launchId, launch, flag, pid, stored, lease>>
threads == <<lock, adv, call, stopping>>
bounds == <<nextRun, directs, stops, crashes>>
hist == <<fate, times>>
vars == <<rows, trainer, threads, bounds, hist>>

QueueState == [Items -> {"out", "queued", "launching", "failed"}]
NoLaunch == [phase |-> "none", run |-> NoRun, item |-> NoItem]
Waiting == [pc |-> "lock", run |-> NoRun, item |-> NoItem, step |-> 1]
IdleCall == [Waiting EXCEPT !.pc = "idle"]
CallPC == {"idle", "lock", "check", "adopt", "prepare", "acquire", "store", "register",
           "raise", "spawn", "publish", "identify", "failed", "ok", "refused"}
AdvPC == {"idle", "look", "adopt", "drop", "dropId", "rearm", "rewrite", "renew", "remember",
          "dead", "clear", "finished", "pidless", "leaseless", "tokenless",
          "free", "prepared", "launch", "settled"}
Steps == 1 .. 5   \* the rows of _clear_failed_training_state

TrainTypeOK ==
  /\ queue \in QueueState
  /\ launchId \in Items \cup {NoItem}
  /\ launch \in [phase : {"none", "prepared", "spawning", "running"},
                 run : Runs \cup {NoRun}, item : Items \cup {NoItem}]
  /\ flag \in BOOLEAN
  /\ pid \in Runs \cup {NoRun} /\ stored \in Runs \cup {NoRun}
  /\ lease \in Runs \cup {NoRun, Other}
  /\ trainer \in [Runs -> {"none", "alive", "ended"}]
  /\ lock \in Callers \cup {"free"}
  /\ adv \in [pc : AdvPC, snap : QueueState, pid : Runs \cup {NoRun}, vision : BOOLEAN,
              run : Runs \cup {NoRun}, item : Items \cup {NoItem}, step : Steps]
  /\ call \in [Callers -> [pc : CallPC, run : Runs \cup {NoRun},
                           item : Items \cup {NoItem}, step : Steps]]
  /\ stopping \in [pc : {"idle", "adopt", "kill", "empty", "clear"},
                   run : Runs \cup {NoRun}, found : Runs \cup {NoRun}, step : Steps]
  /\ nextRun \in 1 .. MaxRuns + 1
  /\ directs \in 0 .. MaxDirect /\ stops \in 0 .. MaxStops /\ crashes \in 0 .. MaxCrashes
  /\ fate \in [Items -> {"none", "asked", "ran", "removed"}]
  /\ times \in [Items -> 0 .. MaxRuns]

Empty == [i \in Items |-> "out"]
IdleAdv == [pc |-> "idle", snap |-> Empty, pid |-> NoRun, vision |-> FALSE,
            run |-> NoRun, item |-> NoItem, step |-> 1]
IdleStop == [pc |-> "idle", run |-> NoRun, found |-> NoRun, step |-> 1]

TrainInit ==
  /\ queue = Empty
  /\ launchId = NoItem /\ launch = NoLaunch
  /\ flag = FALSE /\ pid = NoRun /\ stored = NoRun /\ lease = NoRun
  /\ trainer = [r \in Runs |-> "none"]
  /\ lock = "free" /\ adv = IdleAdv /\ stopping = IdleStop
  /\ call = [c \in Callers |-> IdleCall]
  /\ nextRun = 1 /\ directs = 0 /\ stops = 0 /\ crashes = 0
  /\ fate = [i \in Items |-> "none"]
  /\ times = [i \in Items |-> 0]

-----------------------------------------------------------------------------
(* _owned_training_process_alive, with the PID it is given.                *)

Lives(r) == r # NoRun /\ trainer[r] = "alive"

(* Defect: the trainer of a launch that was cut short is not looked for.   *)
OwnedByPid(p) ==
  \/ launch.phase = "running" /\ p \in {NoRun, launch.run} /\ Lives(launch.run)
  \/ launch.phase = "none" /\ Lives(p)

Owned(p) ==
  \/ launch.phase = "running" /\ p \in {NoRun, launch.run} /\ Lives(launch.run)
  \/ launch.phase = "none" /\ Lives(p)
  \/ launch.phase = "spawning" /\ Lives(launch.run)   \* found by its config path

(* The last case adopts what it found: the launch record, then the PID.    *)
Found(p) == IF launch.phase = "none" THEN p ELSE launch.run
Adopting == launch.phase = "spawning"
AdoptLaunch == launch' = IF Adopting THEN [launch EXCEPT !.phase = "running"] ELSE launch

(* _clear_failed_training_state: the k-th of its commits.                  *)
Clear(k) ==
  /\ lease' = IF k = 1 /\ lease = stored THEN NoRun ELSE lease
  /\ flag' = (flag /\ k # 2)
  /\ pid' = IF k = 3 THEN NoRun ELSE pid
  /\ stored' = IF k = 4 THEN NoRun ELSE stored
  /\ launch' = IF k = 5 THEN NoLaunch ELSE launch

-----------------------------------------------------------------------------
(* The queue.                                                              *)

QueueLockFree == adv.pc = "idle"

Enqueue(i) ==
  /\ QueueLockFree /\ queue[i] = "out" /\ fate[i] = "none"
  /\ queue' = [queue EXCEPT ![i] = "queued"]
  /\ fate' = [fate EXCEPT ![i] = "asked"]
  /\ UNCHANGED <<launchId, launch, flag, pid, stored, lease, trainer, threads, bounds, times>>

Dequeue(i) ==
  /\ QueueLockFree /\ queue[i] # "out"
  /\ queue' = [queue EXCEPT ![i] = "out"]
  /\ fate' = [fate EXCEPT ![i] = IF @ = "ran" THEN @ ELSE "removed"]
  /\ UNCHANGED <<launchId, launch, flag, pid, stored, lease, trainer, threads, bounds, times>>

(* _advance_training_queue reads flag, PID, the flag of a vision window    *)
(* (up only while vision holds the lease) and the list.                    *)
aside == <<trainer, lock, call, stopping, bounds, hist>>
AdvTo(pc) == adv' = [adv EXCEPT !.pc = pc]

AdvanceReads ==
  /\ QueueLockFree
  /\ \E v \in IF lease = Other THEN BOOLEAN ELSE {FALSE} :
       adv' = [IdleAdv EXCEPT !.pc = IF flag THEN "look" ELSE "free", !.snap = queue,
                              !.pid = pid, !.vision = v]
  /\ UNCHANGED <<rows, aside>>

AdvanceLooks ==
  /\ adv.pc = "look"
  /\ IF Owned(adv.pid)
       THEN /\ AdoptLaunch
            /\ adv' = [adv EXCEPT !.pc = IF Adopting THEN "adopt" ELSE "drop",
                                  !.run = Found(adv.pid)]
       ELSE AdvTo("dead") /\ UNCHANGED launch
  /\ UNCHANGED <<queue, launchId, flag, pid, stored, lease, aside>>

AdvanceAdopts ==
  /\ adv.pc = "adopt"
  /\ pid' = adv.run
  /\ AdvTo("drop")
  /\ UNCHANGED <<queue, launchId, launch, flag, stored, lease, aside>>

(* The trainer lives: its item leaves the list, its rows are written again *)
(* (the PID as it was read) and its lease is renewed, or claimed if none   *)
(* is remembered.                                                          *)
AdvanceDrops ==
  /\ adv.pc = "drop"
  /\ LET i == launch.item IN
       /\ queue' = IF i # NoItem /\ adv.snap[i] # "out"
                     THEN [adv.snap EXCEPT ![i] = "out"] ELSE queue
       /\ AdvTo(IF i # NoItem THEN "dropId" ELSE "rearm")
  /\ UNCHANGED <<launchId, launch, flag, pid, stored, lease, aside>>

AdvanceDropsId ==
  /\ adv.pc = "dropId"
  /\ launchId' = NoItem
  /\ AdvTo("rearm")
  /\ UNCHANGED <<queue, launch, flag, pid, stored, lease, aside>>

AdvanceRearms ==
  /\ adv.pc = "rearm"
  /\ flag' = TRUE
  /\ AdvTo("rewrite")
  /\ UNCHANGED <<queue, launchId, launch, pid, stored, lease, aside>>

AdvanceRewrites ==
  /\ adv.pc = "rewrite"
  /\ pid' = adv.pid
  /\ AdvTo("renew")
  /\ UNCHANGED <<queue, launchId, launch, flag, stored, lease, aside>>

AdvanceRenews ==
  /\ adv.pc = "renew"
  /\ IF stored = NoRun /\ lease = NoRun
       THEN lease' = adv.run /\ AdvTo("remember")
       ELSE adv' = IdleAdv /\ UNCHANGED lease
  /\ UNCHANGED <<queue, launchId, launch, flag, pid, stored, aside>>

AdvanceRemembers ==
  /\ adv.pc = "remember"
  /\ stored' = adv.run
  /\ adv' = IdleAdv
  /\ UNCHANGED <<queue, launchId, launch, flag, pid, lease, aside>>

(* No trainer under a raised flag: a launch that never spawned one is      *)
(* rolled back (_compensate_unstarted_launch).                             *)
AdvanceCompensates ==
  /\ adv.pc = "dead"
  /\ AdvTo(IF launch.phase \in {"prepared", "spawning"} THEN "clear" ELSE "finished")
  /\ UNCHANGED <<rows, aside>>

AdvanceClears ==
  /\ adv.pc = "clear"
  /\ Clear(adv.step)
  /\ adv' = IF adv.step = 5 THEN [adv EXCEPT !.pc = "finished", !.step = 1]
            ELSE [adv EXCEPT !.step = @ + 1]
  /\ UNCHANGED <<queue, launchId, aside>>

DueItems == {i \in Items : adv.snap[i] \in {"queued", "launching"}}
NothingToLaunch == DueItems = {} \/ adv.vision

(* _prepare_queued_launch: list and launch id are persisted before         *)
(* anything is launched.                                                   *)
AdvancePrepares(i) ==
  /\ adv.pc \in {"finished", "free"} /\ i \in DueItems /\ ~adv.vision
  /\ LET q == [adv.snap EXCEPT ![i] = "launching"] IN
       /\ queue' = q
       /\ adv' = [adv EXCEPT !.pc = "prepared", !.snap = q, !.item = i]
  /\ UNCHANGED <<launchId, launch, flag, pid, stored, lease, aside>>

AdvanceLaunches ==
  /\ adv.pc = "prepared"
  /\ launchId' = adv.item
  /\ call' = [call EXCEPT !["queue"] = Waiting]
  /\ AdvTo("launch")
  /\ UNCHANGED <<queue, launch, flag, pid, stored, lease, trainer, lock, stopping, bounds, hist>>

(* Defect: the lease is given back and the flag left up.                   *)
ReleaseLeaseOnly ==
  /\ adv.pc = "finished" /\ NothingToLaunch
  /\ AdvTo("pidless")
  /\ UNCHANGED <<rows, aside>>

(* Nothing due, or a vision pass runs: the GPU of a finished training is   *)
(* released, row by row.                                                   *)
AdvanceReleases ==
  /\ adv.pc = "finished" /\ NothingToLaunch
  /\ flag' = FALSE
  /\ AdvTo("pidless")
  /\ UNCHANGED <<queue, launchId, launch, pid, stored, lease, aside>>

AdvanceForgetsPid ==
  /\ adv.pc = "pidless"
  /\ pid' = NoRun
  /\ AdvTo("leaseless")
  /\ UNCHANGED <<queue, launchId, launch, flag, stored, lease, aside>>

AdvanceReturnsLease ==
  /\ adv.pc = "leaseless"
  /\ lease' = IF lease = stored THEN NoRun ELSE lease
  /\ AdvTo("tokenless")
  /\ UNCHANGED <<queue, launchId, launch, flag, pid, stored, aside>>

AdvanceForgetsToken ==
  /\ adv.pc = "tokenless"
  /\ stored' = NoRun
  /\ adv' = IdleAdv
  /\ UNCHANGED <<queue, launchId, launch, flag, pid, lease, aside>>

AdvanceRests ==
  /\ adv.pc = "free" /\ NothingToLaunch
  /\ adv' = IdleAdv
  /\ UNCHANGED <<rows, aside>>

(* Defect: the launched item stays in the list.                            *)
AdvanceKeepsItem ==
  /\ adv.pc = "launch" /\ call["queue"].pc \in {"ok", "refused"}
  /\ queue' = IF call["queue"].pc = "ok" THEN adv.snap
              ELSE [adv.snap EXCEPT ![adv.item] = "failed"]
  /\ call' = [call EXCEPT !["queue"] = IdleCall]
  /\ AdvTo("settled")
  /\ UNCHANGED <<launchId, launch, flag, pid, stored, lease, trainer, lock, stopping, bounds, hist>>

(* Defect: an item that could not be launched is due again at once.        *)
AdvanceRetriesItem ==
  /\ adv.pc = "launch" /\ call["queue"].pc \in {"ok", "refused"}
  /\ queue' = [adv.snap EXCEPT ![adv.item] =
                 IF call["queue"].pc = "ok" THEN "out" ELSE "queued"]
  /\ call' = [call EXCEPT !["queue"] = IdleCall]
  /\ AdvTo("settled")
  /\ UNCHANGED <<launchId, launch, flag, pid, stored, lease, trainer, lock, stopping, bounds, hist>>

(* The list as it was read is written back without the launched item, or   *)
(* with the item marked failed; then the launch id is reset.               *)
AdvanceSettles ==
  /\ adv.pc = "launch" /\ call["queue"].pc \in {"ok", "refused"}
  /\ queue' = [adv.snap EXCEPT ![adv.item] =
                 IF call["queue"].pc = "ok" THEN "out" ELSE "failed"]
  /\ call' = [call EXCEPT !["queue"] = IdleCall]
  /\ AdvTo("settled")
  /\ UNCHANGED <<launchId, launch, flag, pid, stored, lease, trainer, lock, stopping, bounds, hist>>

AdvanceForgetsLaunch ==
  /\ adv.pc = "settled"
  /\ launchId' = NoItem
  /\ adv' = IdleAdv
  /\ UNCHANGED <<queue, launch, flag, pid, stored, lease, aside>>

-----------------------------------------------------------------------------
(* _launch_training, under _TRAIN_LAUNCH_LOCK, for either caller.          *)

CallAt(c, pc) == call[c].pc = pc
CallTo(c, pc) == call' = [call EXCEPT ![c].pc = pc]
RunOf(c) == call[c].run

DirectLaunch ==
  /\ call["direct"].pc = "idle" /\ directs < MaxDirect
  /\ directs' = directs + 1
  /\ call' = [call EXCEPT !["direct"] = Waiting]
  /\ UNCHANGED <<rows, trainer, lock, adv, stopping, nextRun, stops, crashes, hist>>

TakeLock(c) ==
  /\ CallAt(c, "lock") /\ lock = "free" /\ nextRun <= MaxRuns
  /\ lock' = c
  /\ call' = [call EXCEPT ![c].pc = "check", ![c].run = nextRun]
  /\ nextRun' = nextRun + 1
  /\ UNCHANGED <<rows, trainer, adv, stopping, directs, stops, crashes, hist>>

(* Refused while a trainer lives (which is adopted), or for its inputs:    *)
(* nothing was written.                                                    *)
Check(c) ==
  /\ CallAt(c, "check")
  /\ LET alive == flag /\ Owned(pid) IN
       \/ /\ alive /\ Adopting
          /\ AdoptLaunch
          /\ call' = [call EXCEPT ![c].pc = "adopt", ![c].run = launch.run]
          /\ UNCHANGED lock
       \/ /\ ~(alive /\ Adopting)
          /\ CallTo(c, "refused") /\ lock' = "free"
          /\ UNCHANGED launch
       \/ ~alive /\ CallTo(c, "prepare") /\ UNCHANGED <<lock, launch>>
  /\ UNCHANGED <<queue, launchId, flag, pid, stored, lease, trainer, adv, stopping, bounds, hist>>

CheckAdopts(c) ==
  /\ CallAt(c, "adopt")
  /\ pid' = RunOf(c)
  /\ CallTo(c, "refused") /\ lock' = "free"
  /\ UNCHANGED <<queue, launchId, launch, flag, stored, lease, trainer, adv, stopping, bounds,
                 hist>>

Prepare(c) ==
  /\ CallAt(c, "prepare")
  /\ launch' = [phase |-> "prepared", run |-> RunOf(c), item |-> launchId]
  /\ call' = [call EXCEPT ![c].pc = "acquire", ![c].item = launchId]
  /\ UNCHANGED <<queue, launchId, flag, pid, stored, lease, trainer, lock, adv, stopping,
                 bounds, hist>>

Acquire(c) ==
  /\ CallAt(c, "acquire")
  /\ IF lease = NoRun
       THEN lease' = RunOf(c) /\ CallTo(c, "store")
       ELSE UNCHANGED lease /\ CallTo(c, "failed")
  /\ UNCHANGED <<queue, launchId, launch, flag, pid, stored, trainer, lock, adv, stopping,
                 bounds, hist>>

Store(c) ==
  /\ CallAt(c, "store")
  /\ stored' = RunOf(c)
  /\ CallTo(c, "register")
  /\ UNCHANGED <<queue, launchId, launch, flag, pid, lease, trainer, lock, adv, stopping,
                 bounds, hist>>

(* launch_state is a local value: it is written whole, whatever the row    *)
(* became since.                                                           *)
LaunchState(c, phase) == [phase |-> phase, run |-> RunOf(c), item |-> call[c].item]

(* The run's provenance is registered, which may fail, then the phase is   *)
(* persisted.                                                              *)
Register(c) ==
  /\ CallAt(c, "register")
  /\ \/ /\ launch' = LaunchState(c, "spawning")
        /\ CallTo(c, "raise")
     \/ UNCHANGED launch /\ CallTo(c, "failed")
  /\ UNCHANGED <<queue, launchId, flag, pid, stored, lease, trainer, lock, adv, stopping,
                 bounds, hist>>

RaiseFlag(c) ==
  /\ CallAt(c, "raise")
  /\ flag' = TRUE
  /\ CallTo(c, "spawn")
  /\ UNCHANGED <<queue, launchId, launch, pid, stored, lease, trainer, lock, adv, stopping,
                 bounds, hist>>

(* Popen; adv.item is the item a call of the queue was made for.           *)
Spawn(c) ==
  /\ CallAt(c, "spawn")
  /\ \/ /\ trainer' = [trainer EXCEPT ![RunOf(c)] = "alive"]
        /\ CallTo(c, "publish")
        /\ IF c = "queue"
             THEN /\ fate' = [fate EXCEPT ![adv.item] = "ran"]
                  /\ times' = [times EXCEPT ![adv.item] = @ + 1]
             ELSE UNCHANGED hist
     \/ CallTo(c, "failed") /\ UNCHANGED <<trainer, hist>>
  /\ UNCHANGED <<rows, lock, adv, stopping, bounds>>

Publish(c) ==
  /\ CallAt(c, "publish")
  /\ pid' = RunOf(c)
  /\ CallTo(c, "identify")
  /\ UNCHANGED <<queue, launchId, launch, flag, stored, lease, trainer, lock, adv, stopping,
                 bounds, hist>>

Identify(c) ==
  /\ CallAt(c, "identify")
  /\ launch' = LaunchState(c, "running")
  /\ call' = [call EXCEPT ![c] = IF c = "queue" THEN [@ EXCEPT !.pc = "ok"] ELSE IdleCall]
  /\ lock' = "free"
  /\ UNCHANGED <<queue, launchId, flag, pid, stored, lease, trainer, adv, stopping, bounds, hist>>

FailLaunch(c) ==
  /\ CallAt(c, "failed")
  /\ Clear(call[c].step)
  /\ IF call[c].step = 5
       THEN call' = [call EXCEPT ![c].pc = "refused", ![c].step = 1] /\ lock' = "free"
       ELSE call' = [call EXCEPT ![c].step = @ + 1] /\ UNCHANGED lock
  /\ UNCHANGED <<queue, launchId, trainer, adv, stopping, bounds, hist>>

(* A refused web request returns its error.                                *)
DirectRefused ==
  /\ CallAt("direct", "refused")
  /\ call' = [call EXCEPT !["direct"] = IdleCall]
  /\ UNCHANGED <<rows, trainer, lock, adv, stopping, bounds, hist>>

-----------------------------------------------------------------------------
(* stop_training: terminate the process of the recorded PID, then clear.   *)

stopAside == <<launchId, lock, adv, call, nextRun, directs, crashes, times>>

StopLooks ==
  /\ stopping.pc = "idle" /\ stops < MaxStops
  /\ stops' = stops + 1
  /\ IF pid # NoRun /\ Owned(pid)
       THEN /\ AdoptLaunch
            /\ stopping' = [pc |-> IF Adopting THEN "adopt" ELSE "kill", run |-> pid,
                              found |-> Found(pid), step |-> 1]
       ELSE /\ stopping' = IF pid = NoRun THEN [IdleStop EXCEPT !.pc = "empty"] ELSE stopping
            /\ UNCHANGED launch                          \* not its process: refused
  /\ UNCHANGED <<queue, flag, pid, stored, lease, trainer, fate, stopAside>>

StopAdopts ==
  /\ stopping.pc = "adopt"
  /\ pid' = stopping.found
  /\ stopping' = [stopping EXCEPT !.pc = "kill"]
  /\ UNCHANGED <<queue, launch, flag, stored, lease, trainer, stops, fate, stopAside>>

(* The process ends, or survives and the request is refused.               *)
StopKills ==
  /\ stopping.pc = "kill"
  /\ \/ /\ trainer' = [trainer EXCEPT ![stopping.run] = "ended"]
        /\ stopping' = [IdleStop EXCEPT !.pc = "empty"]
     \/ Lives(stopping.run) /\ stopping' = IdleStop /\ UNCHANGED trainer
  /\ UNCHANGED <<queue, launch, flag, pid, stored, lease, stops, fate, stopAside>>

(* The list is emptied unless the caller keeps it.                         *)
StopEmpties ==
  /\ stopping.pc = "empty"
  /\ stopping' = [stopping EXCEPT !.pc = "clear"]
  /\ \/ /\ queue' = Empty
        /\ fate' = [i \in Items |-> IF fate[i] = "asked" THEN "removed" ELSE fate[i]]
     \/ UNCHANGED <<queue, fate>>
  /\ UNCHANGED <<launch, flag, pid, stored, lease, trainer, stops, stopAside>>

StopClears ==
  /\ stopping.pc = "clear"
  /\ Clear(stopping.step)
  /\ stopping' = IF stopping.step = 5 THEN IdleStop ELSE [stopping EXCEPT !.step = @ + 1]
  /\ UNCHANGED <<queue, trainer, stops, fate, stopAside>>

-----------------------------------------------------------------------------
(* The world.                                                              *)

TrainerEnds(r) ==
  /\ trainer[r] = "alive"
  /\ trainer' = [trainer EXCEPT ![r] = "ended"]
  /\ UNCHANGED <<rows, threads, bounds, hist>>

(* Generation and vision ask for the lease when the flag is down.          *)
OthersTake ==
  /\ lease = NoRun /\ ~flag
  /\ lease' = Other
  /\ UNCHANGED <<queue, launchId, launch, flag, pid, stored, trainer, threads, bounds, hist>>

OthersRelease ==
  /\ lease = Other
  /\ lease' = NoRun
  /\ UNCHANGED <<queue, launchId, launch, flag, pid, stored, trainer, threads, bounds, hist>>

(* A lease nobody renews: no trainer lives and no launch works under it.   *)
LeaseLapses ==
  /\ lease \in Runs /\ ~Lives(lease)
  /\ \A c \in Callers : call[c].run # lease
  /\ lease' = NoRun
  /\ UNCHANGED <<queue, launchId, launch, flag, pid, stored, trainer, threads, bounds, hist>>

(* Every thread dies; the lease may lapse before the next start.           *)
Crash ==
  /\ crashes < MaxCrashes
  /\ crashes' = crashes + 1
  /\ lock' = "free" /\ adv' = IdleAdv /\ stopping' = IdleStop
  /\ call' = [c \in Callers |-> IdleCall]
  /\ lease' \in {lease, NoRun}
  /\ UNCHANGED <<queue, launchId, launch, flag, pid, stored, trainer, nextRun, directs, stops,
                 hist>>

-----------------------------------------------------------------------------
Rearm ==
  \/ AdvanceAdopts \/ AdvanceDrops \/ AdvanceDropsId \/ AdvanceRearms \/ AdvanceRewrites
  \/ AdvanceRenews \/ AdvanceRemembers

HandBack ==
  AdvanceReleases \/ AdvanceForgetsPid \/ AdvanceReturnsLease \/ AdvanceForgetsToken

Advance ==
  \/ AdvanceReads \/ AdvanceLooks \/ Rearm
  \/ AdvanceCompensates \/ AdvanceClears \/ HandBack \/ AdvanceRests
  \/ (\E i \in Items : AdvancePrepares(i)) \/ AdvanceLaunches
  \/ AdvanceSettles \/ AdvanceForgetsLaunch

Launches(c) ==
  \/ TakeLock(c) \/ Check(c) \/ CheckAdopts(c) \/ Prepare(c) \/ Acquire(c) \/ Store(c)
  \/ Register(c) \/ RaiseFlag(c) \/ Spawn(c) \/ Publish(c) \/ Identify(c) \/ FailLaunch(c)

StopRequest == StopAdopts \/ StopKills \/ StopEmpties \/ StopClears

TrainNext ==
  \/ Advance
  \/ \E c \in Callers : Launches(c)
  \/ DirectLaunch \/ DirectRefused \/ StopLooks \/ StopRequest
  \/ \E i \in Items : Enqueue(i) \/ Dequeue(i)
  \/ \E r \in Runs : TrainerEnds(r)
  \/ OthersTake \/ OthersRelease \/ LeaseLapses
  \/ Crash

TrainSpec == TrainInit /\ [][TrainNext]_vars

(* The scheduler ticks, launches return, trainers and other users of the   *)
(* GPU end, and what nobody renews lapses.                                 *)
FairTrainSpec ==
  /\ TrainSpec
  /\ WF_vars(Advance)
  /\ \A c \in Callers : WF_vars(Launches(c))
  /\ \A r \in Runs : WF_vars(TrainerEnds(r))
  /\ WF_vars(StopRequest)

-----------------------------------------------------------------------------
(* Properties.                                                             *)

(* lora_training.py:56 and :63: two trainers never run at once.            *)
OneTrainer == Cardinality({r \in Runs : Lives(r)}) <= 1

(* The queue works undisturbed: no launch or stop over the web, and no     *)
(* crash once a training has ended (its PID may still be recorded, which   *)
(* misleads the adoption of a later trainer).                              *)
Undisturbed ==
  directs = 0 /\ stops = 0 /\ (crashes = 0 \/ \A r \in Runs : trainer[r] # "ended")

(* lora_training_process.py:481: a trainer that lives, whoever launched it *)
(* died or not, is behind a raised flag: no generation and no second       *)
(* training are admitted. Not kept (README, 6).                            *)
TrainerIsFlagged == \A r \in Runs : Lives(r) => flag

(* The undisturbed queue keeps to one trainer and never uncovers it, also  *)
(* when the server dies at any commit of a launch.                         *)
QueueKeepsItsTrainer == Undisturbed => OneTrainer /\ TrainerIsFlagged

(* One life of the server trains an item at most once: only a crash around *)
(* the launch can make the queue forget that it did.                       *)
TrainedOncePerLife == \A i \in Items : times[i] <= 1 + crashes

(* When the trainer ended, the flag that keeps generation out comes down   *)
(* or a new trainer takes over.                                            *)
GpuComesBack == (flag /\ \A r \in Runs : ~Lives(r)) ~> (~flag \/ \E r \in Runs : Lives(r))

(* When the others leave the GPU alone, no item waits for ever: it leaves  *)
(* the list by its own launch or by the user's hand (:370), or is marked   *)
(* failed.                                                                 *)
EveryItemIsTried ==
  <>[](lease # Other) =>
    \A i \in Items :
      queue[i] \in {"queued", "launching"}
        ~> (queue[i] = "out" /\ fate[i] # "asked") \/ queue[i] = "failed"

(* lora_training_queue.py:128: a queued item is launched at the end of the *)
(* current training, so the lease of a finished run never refuses it. Not  *)
(* kept (README, 6).                                                       *)
FinishedRunRefusesNobody ==
  [][\A c \in Callers : CallAt(c, "acquire") /\ call'[c].pc = "failed"
       => lease \notin Runs \/ Lives(lease)]_vars
=============================================================================
