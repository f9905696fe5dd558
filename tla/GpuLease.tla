------------------------------- MODULE GpuLease -------------------------------
(***************************************************************************)
(* The GPU arbitration of the backend: one lease row in SystemState        *)
(* (job_queue._acquire_gpu_lease and its companions) with an opaque token  *)
(* and a wall-clock expiry, the flags that generation, vision and training *)
(* set beside it, the renewal thread of a vision window (gpu_window.py)    *)
(* and what a restart clears.                                              *)
(*                                                                         *)
(* A hold is one use of the GPU: one claim of the image worker, one vision *)
(* window, one training.  It is its own token and is never reused.  Time   *)
(* is not counted: a lease or a flag may lapse at any moment, also because *)
(* the machine slept, and a renewal makes it fresh again.                  *)
(*                                                                         *)
(* A training is a process of its own, and its lease is not given back by  *)
(* it but by whoever clears the state of trainings: a tick that finds it   *)
(* over or rolls it back, a launch that fails, a stop.  Whether they find  *)
(* the trainer they clear for is a matter of launch record and PID, which  *)
(* TrainQueue has; here they may clear at any time.                        *)
(***************************************************************************)
EXTENDS Naturals

CONSTANTS Generations, Visions, Trainings, None,
          Clearers,    \* threads that clear the state of trainings
          MaxLapses,   \* bound: how often a lease or flag lapses
          MaxCrashes   \* bound: how often the process dies

Shared == Generations \cup Visions     \* they live in the server process
Holds == Shared \cup Trainings

ASSUME LeaseAssumption ==
  /\ None \notin Holds
  /\ Generations \cap Visions = {}
  /\ Trainings \cap Shared = {}
  /\ MaxLapses \in Nat /\ MaxCrashes \in Nat

VARIABLES
  lease,       \* the row gpu_workload_lease: token and whether it lapsed
  flag,        \* the row vision_in_progress, likewise
  training,    \* the row training_in_progress (it has no expiry)
  stored,      \* the row training_gpu_lease: the token the trainings remember
  active,      \* _gpu_active_token of this process
  mutex,       \* who is inside _gpu_lease_lock
  pc,          \* where each hold stands
  renewer,     \* the renewal thread of each vision window
  clearing,    \* the threads that clear the state of trainings
  lapsed,      \* history: holds whose lease lapsed once
  givenUp,     \* history: trainings whose lease somebody released
  late,        \* history: windows whose join of the renewal thread timed out
  up,          \* the process runs (its start is complete)
  lapses, crashes

rows == <<lease, flag, training, stored>>
past == <<lapsed, givenUp, late>>
life == <<up, lapses, crashes>>
vars == <<rows, active, mutex, pc, renewer, clearing, past, life>>

Row == [tok : Holds \cup {None}, stale : BOOLEAN]
Absent == [tok |-> None, stale |-> FALSE]
Fresh(h) == [tok |-> h, stale |-> FALSE]
PC == {"new", "wiping", "asking", "purging", "inserting", "held", "using", "joining",
       "reading", "lowering", "releasing", "forgetting", "over", "dead",
       "refused", "remembered", "raised"}   \* the last three of a training
Launching == {"asking", "purging", "inserting", "refused", "held", "remembered", "raised"}
Clearing == [pc : {"idle", "asking", "row", "token", "flag", "stored"},
             tok : Trainings \cup {None}, early : BOOLEAN]
Idle == [pc |-> "idle", tok |-> None, early |-> FALSE]

TypeOK ==
  /\ lease \in Row /\ flag \in Row
  /\ training \in BOOLEAN /\ up \in BOOLEAN
  /\ stored \in Trainings \cup {None}
  /\ active \in Holds \cup {None} /\ mutex \in Holds \cup {None}
  /\ pc \in [Holds -> PC]
  /\ renewer \in [Visions -> {"off", "waiting", "renewing"}]
  /\ clearing \in [Clearers -> Clearing]
  /\ \A c \in Clearers : clearing[c].pc = "row" => clearing[c].tok # None
  /\ lapsed \subseteq Holds /\ givenUp \subseteq Trainings /\ late \subseteq Visions
  /\ lapses \in 0 .. MaxLapses /\ crashes \in 0 .. MaxCrashes

Init ==
  /\ lease = Absent /\ flag = Absent
  /\ training = FALSE /\ stored = None
  /\ active = None /\ mutex = None
  /\ pc = [h \in Holds |-> "new"]
  /\ renewer = [v \in Visions |-> "off"]
  /\ clearing = [c \in Clearers |-> Idle]
  /\ lapsed = {} /\ givenUp = {} /\ late = {}
  /\ up = TRUE
  /\ lapses = 0 /\ crashes = 0

Move(h, to) == pc' = [pc EXCEPT ![h] = to]
FlagUp == flag.tok # None /\ ~flag.stale
Gone(h) == pc[h] \in {"over", "dead"}

-----------------------------------------------------------------------------
(* Admission.  Generation and vision look at both flags first; a launch is *)
(* serialised by _TRAIN_LAUNCH_LOCK, and a raised flag refuses it only     *)
(* with a recognised trainer beside it.  The read of a lapsed row deletes  *)
(* it by key, in a commit of its own, whatever it became since             *)
(* (_get_system_state).                                                    *)
Ask(h) ==
  /\ up /\ h \in Shared /\ pc[h] = "new"
  /\ ~training /\ ~FlagUp
  /\ Move(h, IF flag.stale THEN "wiping" ELSE "asking")
  /\ UNCHANGED <<rows, active, mutex, renewer, clearing, past, life>>

Launch(t) ==
  /\ up /\ t \in Trainings /\ pc[t] = "new"
  /\ \A u \in Trainings : pc[u] \notin Launching
  /\ Move(t, "asking")
  /\ UNCHANGED <<rows, active, mutex, renewer, clearing, past, life>>

Wipe(h) ==
  /\ pc[h] = "wiping"
  /\ flag' = Absent
  /\ Move(h, "asking")
  /\ UNCHANGED <<lease, training, stored, active, mutex, renewer, clearing, past, life>>

(* Inside the lock: what the process remembers is compared with the row; a *)
(* lapsed row is deleted as above before the insert.                       *)
Refused(h) == IF h \in Trainings THEN "refused" ELSE "over"

Compare(h) ==
  /\ pc[h] = "asking" /\ mutex = None
  /\ \/ /\ active # None /\ lease.tok # None /\ lease.stale
        /\ mutex' = h
        /\ Move(h, "purging")
        /\ UNCHANGED active
     \/ /\ active # None /\ lease.tok = active /\ ~lease.stale
        /\ Move(h, Refused(h))
        /\ UNCHANGED <<active, mutex>>
     \/ /\ active # None => lease.tok = None \/ (lease.tok # active /\ ~lease.stale)
        /\ active' = None
        /\ mutex' = h
        /\ Move(h, "inserting")
  /\ UNCHANGED <<rows, renewer, clearing, past, life>>

Purge(h) ==
  /\ pc[h] = "purging"
  /\ lease' = Absent
  /\ active' = None
  /\ Move(h, "inserting")
  /\ UNCHANGED <<flag, training, stored, mutex, renewer, clearing, past, life>>

(* The conditional upsert.                                                 *)
Insert(h) ==
  /\ pc[h] = "inserting"
  /\ mutex' = None
  /\ IF lease.tok = None \/ lease.stale
       THEN /\ lease' = Fresh(h)
            /\ active' = h
            /\ Move(h, "held")
       ELSE /\ Move(h, Refused(h))
            /\ UNCHANGED <<lease, active>>
  /\ UNCHANGED <<flag, training, stored, renewer, clearing, past, life>>

(* A window raises its flag and starts its renewal thread; the image       *)
(* worker goes to work.                                                    *)
Begin(h) ==
  /\ h \in Shared /\ pc[h] = "held"
  /\ Move(h, "using")
  /\ flag' = IF h \in Visions THEN Fresh(h) ELSE flag
  /\ renewer' = IF h \in Visions THEN [renewer EXCEPT ![h] = "waiting"] ELSE renewer
  /\ UNCHANGED <<lease, training, stored, active, mutex, clearing, past, life>>

(* A launch stores the token, raises the flag and spawns the trainer.  It  *)
(* never looks again whether lease and flag are still its own.             *)
Remember(t) ==
  /\ t \in Trainings /\ pc[t] = "held"
  /\ stored' = t
  /\ Move(t, "remembered")
  /\ UNCHANGED <<lease, flag, training, active, mutex, renewer, clearing, past, life>>

Raise(t) ==
  /\ pc[t] = "remembered"
  /\ training' = TRUE
  /\ Move(t, "raised")
  /\ UNCHANGED <<lease, flag, stored, active, mutex, renewer, clearing, past, life>>

Spawn(t) ==
  /\ pc[t] = "raised"
  /\ Move(t, "using")
  /\ UNCHANGED <<rows, active, mutex, renewer, clearing, past, life>>

-----------------------------------------------------------------------------
(* Renewal.                                                                *)

RenewRow(h) == IF lease.tok = h THEN lease' = Fresh(h) ELSE UNCHANGED lease

(* The thread of a window renews the lease, then the flag; it ends when    *)
(* the lease is no longer its own.                                         *)
RenewLease(v) ==
  /\ renewer[v] = "waiting" /\ pc[v] = "using"
  /\ RenewRow(v)
  /\ renewer' = [renewer EXCEPT ![v] = IF lease.tok = v THEN "renewing" ELSE "off"]
  /\ UNCHANGED <<flag, training, stored, active, mutex, pc, clearing, past, life>>

RenewFlag(v) ==
  /\ renewer[v] = "renewing"
  /\ flag' = Fresh(v)
  /\ renewer' = [renewer EXCEPT ![v] = IF pc[v] = "using" THEN "waiting" ELSE "off"]
  /\ UNCHANGED <<lease, training, stored, active, mutex, pc, clearing, past, life>>

(* Defect: the scheduler renews the stored lease, alive or not.            *)
RenewAnyTraining(t) ==
  /\ up /\ training /\ stored = t
  /\ RenewRow(t)
  /\ UNCHANGED <<flag, training, stored, active, mutex, pc, renewer, clearing, past, life>>

(* The scheduler finds the flag and a live trainer, and renews the lease   *)
(* it remembers.                                                           *)
RenewTraining(t) ==
  /\ up /\ training /\ stored = t /\ pc[t] = "using"
  /\ RenewRow(t)
  /\ UNCHANGED <<flag, training, stored, active, mutex, pc, renewer, clearing, past, life>>

-----------------------------------------------------------------------------
(* The end of a hold that lives in the server.                             *)

Stop(h) ==
  /\ up /\ h \in Shared /\ pc[h] = "using"
  /\ Move(h, IF h \in Visions THEN "joining" ELSE "releasing")
  /\ UNCHANGED <<rows, active, mutex, renewer, clearing, past, life>>

(* The thread has ended, or the join gives up on a renewal in flight.      *)
Join(v) ==
  /\ pc[v] = "joining"
  /\ renewer' = [renewer EXCEPT ![v] = IF @ = "waiting" THEN "off" ELSE @]
  /\ late' = IF renewer[v] = "renewing" THEN late \cup {v} ELSE late
  /\ Move(v, "reading")
  /\ UNCHANGED <<rows, active, mutex, clearing, lapsed, givenUp, life>>

(* The flag is read, and deleted by key if it is the window's own or has   *)
(* lapsed.                                                                 *)
ReadFlag(v) ==
  /\ pc[v] = "reading"
  /\ Move(v, IF flag.tok = v \/ flag.stale THEN "lowering" ELSE "releasing")
  /\ UNCHANGED <<rows, active, mutex, renewer, clearing, past, life>>

LowerFlag(v) ==
  /\ pc[v] = "lowering"
  /\ flag' = Absent
  /\ Move(v, "releasing")
  /\ UNCHANGED <<lease, training, stored, active, mutex, renewer, clearing, past, life>>

(* Defect: the release deletes the row whoever holds it.                   *)
ReleaseAny(h) ==
  /\ pc[h] = "releasing"
  /\ lease' = Absent
  /\ Move(h, "forgetting")
  /\ UNCHANGED <<flag, training, stored, active, mutex, renewer, clearing, past, life>>

Release(h) ==
  /\ pc[h] = "releasing"
  /\ lease' = IF lease.tok = h THEN Absent ELSE lease
  /\ Move(h, "forgetting")
  /\ UNCHANGED <<flag, training, stored, active, mutex, renewer, clearing, past, life>>

(* Inside the lock: the process forgets its token.                         *)
Forget(h) ==
  /\ pc[h] = "forgetting" /\ mutex = None
  /\ active' = IF active = h THEN None ELSE active
  /\ Move(h, "over")
  /\ UNCHANGED <<rows, mutex, renewer, clearing, past, life>>

-----------------------------------------------------------------------------
(* The end of a training.                                                  *)

(* The trainer exits or is killed, whether the server runs or not.         *)
Ends(t) ==
  /\ t \in Trainings /\ pc[t] = "using"
  /\ Move(t, "over")
  /\ UNCHANGED <<rows, active, mutex, renewer, clearing, past, life>>

At(c, to, tok, early) ==
  clearing' = [clearing EXCEPT ![c] = [pc |-> to, tok |-> tok, early |-> early]]
Step(c, to) == At(c, to, clearing[c].tok, clearing[c].early)

(* The token is read: a roll-back or a stop begins to clear, a tick that   *)
(* hands back (early) has lowered the flag before.                         *)
BeginsToClear(c, early) ==
  At(c, IF stored # None THEN "row" ELSE IF early THEN "stored" ELSE "flag", stored, early)

Clears(c) ==
  /\ up /\ clearing[c].pc = "idle"
  /\ BeginsToClear(c, FALSE)
  /\ UNCHANGED <<rows, active, mutex, pc, renewer, past, life>>

(* A launch fails, wherever it stands, and clears.                         *)
FailLaunch(t, c) ==
  /\ t \in Trainings /\ pc[t] \in {"asking", "refused", "held", "remembered", "raised"}
  /\ clearing[c].pc = "idle"
  /\ Move(t, "over")
  /\ BeginsToClear(c, FALSE)
  /\ UNCHANGED <<rows, active, mutex, renewer, past, life>>

(* A tick that finds no trainer and nothing due lowers the flag, and reads *)
(* the token then.                                                         *)
HandsBack(c) ==
  /\ up /\ clearing[c].pc = "idle" /\ training
  /\ training' = FALSE
  /\ At(c, "asking", None, TRUE)
  /\ UNCHANGED <<lease, flag, stored, active, mutex, pc, renewer, past, life>>

ReadsToken(c) ==
  /\ clearing[c].pc = "asking"
  /\ BeginsToClear(c, TRUE)
  /\ UNCHANGED <<rows, active, mutex, pc, renewer, past, life>>

(* The release of the token that was read: row and process memory.         *)
ClearRow(c) ==
  /\ clearing[c].pc = "row"
  /\ IF lease.tok = clearing[c].tok
       THEN lease' = Absent /\ givenUp' = givenUp \cup {clearing[c].tok}
       ELSE UNCHANGED <<lease, givenUp>>
  /\ Step(c, "token")
  /\ UNCHANGED <<flag, training, stored, active, mutex, pc, renewer, lapsed, late, life>>

ClearToken(c) ==
  /\ clearing[c].pc = "token" /\ mutex = None
  /\ active' = IF active = clearing[c].tok THEN None ELSE active
  /\ Step(c, IF clearing[c].early THEN "stored" ELSE "flag")
  /\ UNCHANGED <<rows, mutex, pc, renewer, past, life>>

(* The rows beside it, whoever wrote them since.                           *)
ClearFlag(c) ==
  /\ clearing[c].pc = "flag"
  /\ training' = FALSE
  /\ Step(c, "stored")
  /\ UNCHANGED <<lease, flag, stored, active, mutex, pc, renewer, past, life>>

ClearStored(c) ==
  /\ clearing[c].pc = "stored"
  /\ stored' = None
  /\ At(c, "idle", None, FALSE)
  /\ UNCHANGED <<lease, flag, training, active, mutex, pc, renewer, past, life>>

-----------------------------------------------------------------------------
(* Time, crash and start.                                                  *)

(* A row nobody cares for any more lapses outside the bound.               *)
Lapse(h) ==
  IF Gone(h) THEN UNCHANGED lapses
  ELSE lapses < MaxLapses /\ lapses' = lapses + 1

LapseLease ==
  /\ lease.tok # None /\ ~lease.stale
  /\ Lapse(lease.tok)
  /\ lease' = [lease EXCEPT !.stale = TRUE]
  /\ lapsed' = lapsed \cup {lease.tok}
  /\ UNCHANGED <<flag, training, stored, active, mutex, pc, renewer, clearing,
                 givenUp, late, up, crashes>>

LapseFlag ==
  /\ FlagUp
  /\ Lapse(flag.tok)
  /\ flag' = [flag EXCEPT !.stale = TRUE]
  /\ UNCHANGED <<lease, training, stored, active, mutex, pc, renewer, clearing,
                 past, up, crashes>>

(* Generation, vision and launches live in the process; a trainer outlives *)
(* it.                                                                     *)
Crash ==
  /\ up /\ crashes < MaxCrashes
  /\ crashes' = crashes + 1
  /\ up' = FALSE
  /\ active' = None /\ mutex' = None
  /\ pc' = [h \in Holds |-> IF pc[h] \in {"new", "over"} THEN pc[h]
                            ELSE IF h \in Trainings /\ pc[h] = "using" THEN "using"
                            ELSE "dead"]
  /\ renewer' = [v \in Visions |-> "off"]
  /\ clearing' = [c \in Clearers |-> Idle]
  /\ UNCHANGED <<rows, past, lapses>>

(* Defect: the start clears the flag and forgets the lease.                *)
RestartFlagOnly ==
  /\ ~up /\ up' = TRUE
  /\ flag' = Absent
  /\ UNCHANGED <<lease, training, stored, active, mutex, pc, renewer, clearing, past,
                 lapses, crashes>>

(* recover_stale_vision_window: only a vision lease is cleared.            *)
Restart ==
  /\ ~up /\ up' = TRUE
  /\ flag' = Absent
  /\ lease' = IF lease.tok \in Visions \/ lease.stale THEN Absent ELSE lease
  /\ UNCHANGED <<training, stored, active, mutex, pc, renewer, clearing, past,
                 lapses, crashes>>

-----------------------------------------------------------------------------
Admit(h) == Wipe(h) \/ Compare(h) \/ Purge(h) \/ Insert(h) \/ Begin(h)
CloseWindow(v) == Join(v) \/ ReadFlag(v) \/ LowerFlag(v)
GiveBack(h) == Release(h) \/ Forget(h)
Train(t) == Launch(t) \/ Remember(t) \/ Raise(t) \/ Spawn(t) \/ RenewTraining(t) \/ Ends(t)
Clear(c) ==
  Clears(c) \/ HandsBack(c) \/ ReadsToken(c) \/ ClearRow(c) \/ ClearToken(c)
    \/ ClearFlag(c) \/ ClearStored(c)

Next ==
  \/ \E h \in Holds : Ask(h) \/ Admit(h) \/ Stop(h) \/ GiveBack(h)
  \/ \E v \in Visions : RenewLease(v) \/ RenewFlag(v) \/ CloseWindow(v)
  \/ \E t \in Trainings : Train(t) \/ \E c \in Clearers : FailLaunch(t, c)
  \/ \E c \in Clearers : Clear(c)
  \/ LapseLease \/ LapseFlag \/ Crash \/ Restart

Spec == Init /\ [][Next]_vars

-----------------------------------------------------------------------------
(* Properties.                                                             *)

(* Two uses of the GPU overlap only if the lease of one of them is lost:   *)
(* it lapsed, or somebody cleared the state of trainings while that        *)
(* training was launched or ran.  Flags, lease, token and the              *)
(* process-local memory together exclude in every other case.              *)
Lost(h) == h \in lapsed \cup givenUp

ExclusiveWhileLeased ==
  \A h, k \in Holds :
    pc[h] = "using" /\ pc[k] = "using" /\ h # k => Lost(h) \/ Lost(k)

(* A closed window blocks nobody: its flag outlives it only through a      *)
(* renewal that was still in flight when it gave up waiting for its thread *)
(* (gpu_window.py:75), and after a start neither flag nor lease of a       *)
(* window of the dead process is left (:21).                               *)
ClosedWindowFreesGpu ==
  up => /\ FlagUp => \/ pc[flag.tok] \in {"using", "joining", "reading", "lowering"}
                     \/ flag.tok \in late
        /\ \A v \in Visions : pc[v] = "dead" => lease.tok # v

(* A use of the GPU that ended or died never blocks anybody again: its     *)
(* lease is not renewed and does not come back once it lapsed or went, and *)
(* neither does the flag of a window, but for a renewal still in flight.   *)
DeadStayDead ==
  [][\A h \in Holds : Gone(h) =>
       /\ lease' = Fresh(h) => lease = Fresh(h)
       /\ flag' = Fresh(h) => flag = Fresh(h) \/ h \in late]_vars
=============================================================================
