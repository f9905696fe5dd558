---------------------------- MODULE BackgroundJobs ----------------------------
(***************************************************************************)
(* The durable ledger of request-spawned operations                        *)
(* (app/services/background_jobs.py): one row per operation, at most one   *)
(* active row per key, terminal states that are final, and the recovery    *)
(* that closes what a dead process left open.                              *)
(*                                                                         *)
(* A session is a thread inside touch(): it has read the row as active and *)
(* has not yet issued its conditional UPDATE.                              *)
(***************************************************************************)
EXTENDS Naturals

CONSTANTS
  Keys,        \* (kind, dedupe_key) pairs
  NoKey,
  Sessions,    \* threads that may be inside touch()
  MaxJobs,     \* bound: rows ever created
  MaxCrashes   \* bound: deaths of the process

ASSUME LedgerAssumption == NoKey \notin Keys /\ MaxJobs \in Nat /\ MaxCrashes \in Nat

Jobs == 1 .. MaxJobs
NoJob == 0
Active == {"pending", "running"}
Terminal == {"done", "error", "cancelled", "interrupted"}

VARIABLES
  state,     \* BackgroundJob.state; "none" before the row exists
  key,       \* BackgroundJob.kind and dedupe_key
  born,      \* history: the life of the process that created the row
  touching,  \* the row each session has read as active
  up,        \* the process serves requests (its start is complete)
  crashes

ledgerVars == <<state, key, born, touching, up, crashes>>

LedgerTypeOK ==
  /\ state \in [Jobs -> {"none"} \cup Active \cup Terminal]
  /\ key \in [Jobs -> Keys \cup {NoKey}]
  /\ born \in [Jobs -> Nat]
  /\ touching \in [Sessions -> 0 .. MaxJobs]
  /\ up \in BOOLEAN
  /\ crashes \in 0 .. MaxCrashes

LedgerInit ==
  /\ state = [j \in Jobs |-> "none"]
  /\ key = [j \in Jobs |-> NoKey]
  /\ born = [j \in Jobs |-> 0]
  /\ touching = [s \in Sessions |-> NoJob]
  /\ up = TRUE
  /\ crashes = 0

Insert(j, k) ==
  /\ up
  /\ \A i \in Jobs : state[i] = "none" <=> i >= j
  /\ state' = [state EXCEPT ![j] = "running"]
  /\ key' = [key EXCEPT ![j] = k]
  /\ born' = [born EXCEPT ![j] = crashes]
  /\ UNCHANGED <<touching, up, crashes>>

(* create_or_get under _CREATE_LOCK: a key with an active row gets no new  *)
(* one (the row found is returned and nothing changes).                    *)
Create(j, k) ==
  /\ \A i \in Jobs : key[i] = k => state[i] \notin Active
  /\ Insert(j, k)

TouchReads(s, j) ==
  /\ up /\ touching[s] = NoJob
  /\ state[j] \in Active
  /\ touching' = [touching EXCEPT ![s] = j]
  /\ UNCHANGED <<state, key, born, up, crashes>>

(* Defect: the UPDATE has no state predicate.                              *)
TouchOverwrites(s, to) ==
  LET j == touching[s] IN
    /\ j # NoJob
    /\ state' = [state EXCEPT ![j] = to]
    /\ touching' = [touching EXCEPT ![s] = NoJob]
    /\ UNCHANGED <<key, born, up, crashes>>

(* The UPDATE only finds a row that is still active; otherwise touch       *)
(* raises and changes nothing.                                             *)
TouchWrites(s, to) ==
  LET j == touching[s] IN
    /\ j # NoJob
    /\ state' = [state EXCEPT ![j] = IF @ \in Active THEN to ELSE @]
    /\ touching' = [touching EXCEPT ![s] = NoJob]
    /\ UNCHANGED <<key, born, up, crashes>>

LedgerCrash ==
  /\ crashes < MaxCrashes
  /\ crashes' = crashes + 1
  /\ up' = FALSE
  /\ touching' = [s \in Sessions |-> NoJob]
  /\ UNCHANGED <<state, key, born>>

(* recover_interrupted_installers closes the rows of installers, one by    *)
(* one, before; any row may be one.                                        *)
RecoverInstaller(j) ==
  /\ ~up /\ state[j] \in Active
  /\ \E to \in {"interrupted", "error"} : state' = [state EXCEPT ![j] = to]
  /\ UNCHANGED <<key, born, touching, up, crashes>>

(* Defect: the start leaves pending rows to be picked up again.            *)
RecoverNothing ==
  /\ ~up /\ up' = TRUE
  /\ UNCHANGED <<state, key, born, touching, crashes>>

(* recover_interrupted: every row still active is closed before the first  *)
(* request.                                                                *)
Recover ==
  /\ ~up /\ up' = TRUE
  /\ state' = [j \in Jobs |-> IF state[j] \in Active THEN "interrupted" ELSE state[j]]
  /\ UNCHANGED <<key, born, touching, crashes>>

LedgerNext ==
  \/ \E j \in Jobs, k \in Keys : Create(j, k)
  \/ \E s \in Sessions, j \in Jobs : TouchReads(s, j)
  \/ \E s \in Sessions, to \in Active \cup Terminal : TouchWrites(s, to)
  \/ \E j \in Jobs : RecoverInstaller(j)
  \/ LedgerCrash \/ Recover

LedgerSpec == LedgerInit /\ [][LedgerNext]_ledgerVars

-----------------------------------------------------------------------------
(* Properties.                                                             *)

(* A duplicate launch never gets a worker of its own: a key has at most    *)
(* one active row, whatever sessions and restarts do.                      *)
OneActivePerKey ==
  \A i, j \in Jobs :
    state[i] \in Active /\ state[j] \in Active /\ key[i] = key[j] => i = j

(* A late worker never rewrites an operation another session or the        *)
(* recovery has ended, though it read the row while it was active.         *)
EndedIsFinal ==
  [][\A j \in Jobs : state[j] \in Terminal => state'[j] = state[j]]_ledgerVars

(* While the process serves requests no row is active that an earlier life *)
(* of it created: nobody waits for a thread that died.                     *)
NoGhost == up => \A j \in Jobs : state[j] \in Active => born[j] = crashes
=============================================================================
