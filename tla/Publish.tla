------------------------------- MODULE Publish -------------------------------
(***************************************************************************)
(* Publication of one dataset to the Hugging Face Hub                      *)
(* (app/services/hf_publish.py): a background thread creates the           *)
(* repository, records in the job ledger that it did, uploads, and removes *)
(* the repository when the upload fails.  A later attempt may go on with a *)
(* repository the previous attempt recorded as its own.  It shares the     *)
(* ledger with the setup installer, whose worker and cancel request are    *)
(* two sessions that touch one row.                                        *)
(*                                                                         *)
(* The Hub and its user are external: names may be taken from the start,   *)
(* the user may delete the partial repository of a failed upload (the      *)
(* error message asks for it), and may then give the name to a repository  *)
(* of his own.                                                             *)
(***************************************************************************)
EXTENDS BackgroundJobs

CONSTANTS
  Repos,      \* repository names
  NoRepo,
  Dataset,    \* the key of the publications of this dataset
  Attempts,   \* attempts of _terminal_job
  MaxFaults   \* bound: failing ledger transactions

ASSUME PublishAssumption ==
  /\ NoRepo \notin Repos /\ Dataset \in Keys
  /\ Attempts \in Nat \ {0} /\ MaxFaults \in Nat

VARIABLES
  repo,     \* what the Hub holds under each name
  memory,   \* _jobs[dataset_id]: its state and job_id
  at,       \* where the worker of each job is
  outcome,  \* the result it is about to report
  target,   \* repo_id of the job
  phase,    \* progress of its row: the phase recorded
  resume,   \* resume_owned_repo of the job
  tries,    \* attempts _terminal_job has made
  faults

hubVars == <<repo, memory, at, outcome, target, phase, resume, tries, faults>>
publishVars == <<ledgerVars, hubVars>>

PublishTypeOK ==
  /\ repo \in [Repos -> {"absent", "user", "partial", "full"}]
  /\ memory \in [state : {"idle", "running", "done", "error"}, job : 0 .. MaxJobs]
  /\ at \in [Jobs -> {"none", "create", "mark", "upload", "remove", "unmark", "report", "terminal"}]
  /\ outcome \in [Jobs -> {"none", "done", "error"}]
  /\ target \in [Jobs -> Repos \cup {NoRepo}]
  /\ phase \in [Jobs -> {"none", "repo_created", "repo_removed"}]
  /\ resume \in [Jobs -> BOOLEAN]
  /\ tries \in [Jobs -> 0 .. Attempts]
  /\ faults \in 0 .. MaxFaults

Idle == [state |-> "idle", job |-> NoJob]

PublishInit ==
  /\ LedgerInit
  /\ repo \in [Repos -> {"absent", "user"}]
  /\ memory = Idle
  /\ at = [j \in Jobs |-> "none"] /\ outcome = at
  /\ target = [j \in Jobs |-> NoRepo]
  /\ phase = [j \in Jobs |-> "none"]
  /\ resume = [j \in Jobs |-> FALSE]
  /\ tries = [j \in Jobs |-> 0]
  /\ faults = 0

-----------------------------------------------------------------------------
(* start_publish.                                                          *)

(* The row latest() returns before job j is created.                       *)
Previous(j) ==
  LET earlier == {i \in Jobs : i < j /\ key[i] = Dataset}
  IN CHOOSE p \in earlier \cup {NoJob} : \A i \in earlier : i <= p

(* Defect: the repository of the earlier attempt is not compared.          *)
OwnsAny(j, r) ==
  LET p == Previous(j) IN
    p \in Jobs /\ state[p] \in {"error", "interrupted"} /\ phase[p] = "repo_created"

Owns(j, r) ==
  LET p == Previous(j) IN
    /\ p \in Jobs /\ state[p] \in {"error", "interrupted"}
    /\ phase[p] = "repo_created" /\ target[p] = r

(* Under _lock: not while memory says running; create_or_get refuses a row *)
(* that is still active.  A thread that cannot start reports an error.     *)
StartPublish(j, r) ==
  /\ memory.state # "running"
  /\ Create(j, Dataset)
  /\ target' = [target EXCEPT ![j] = r]
  /\ resume' = [resume EXCEPT ![j] = Owns(j, r)]
  /\ memory' = [state |-> "running", job |-> j]
  /\ \/ /\ at' = [at EXCEPT ![j] = "create"]
        /\ UNCHANGED outcome
     \/ /\ at' = [at EXCEPT ![j] = "report"]
        /\ outcome' = [outcome EXCEPT ![j] = "error"]
  /\ UNCHANGED <<repo, phase, tries, faults>>

-----------------------------------------------------------------------------
(* publish_to_hf, in the thread of job j.                                  *)

Go(j, to) == at' = [at EXCEPT ![j] = to] /\ UNCHANGED outcome
Fail(j) == at' = [at EXCEPT ![j] = "report"] /\ outcome' = [outcome EXCEPT ![j] = "error"]
Hub(j, what) == repo' = [repo EXCEPT ![target[j]] = what]
NoFault == UNCHANGED faults
Fault == faults < MaxFaults /\ faults' = faults + 1

(* A preflight, the export or the Hub may refuse; a request that fails may *)
(* yet have created the repository.                                        *)
CreateRepo(j) ==
  /\ at[j] = "create"
  /\ \/ UNCHANGED repo /\ Fail(j)
     \/ repo[target[j]] = "absent" /\ Hub(j, "partial") /\ (Go(j, "mark") \/ Fail(j))
     \/ repo[target[j]] # "absent" /\ resume[j] /\ UNCHANGED repo /\ Go(j, "upload")
  /\ UNCHANGED <<ledgerVars, memory, target, phase, resume, tries, faults>>

(* touch 'repo_created'; a transaction that fails is reported as a network *)
(* error of the creation.                                                  *)
MarkCreated(j) ==
  /\ at[j] = "mark" /\ state[j] \in Active
  /\ \/ phase' = [phase EXCEPT ![j] = "repo_created"] /\ NoFault /\ Go(j, "upload")
     \/ UNCHANGED phase /\ Fault /\ Fail(j)
  /\ UNCHANGED <<ledgerVars, repo, memory, target, resume, tries>>

(* The upload fails when the repository is gone, and may fail at any rate. *)
Upload(j) ==
  /\ at[j] = "upload"
  /\ \/ /\ repo[target[j]] # "absent"
        /\ Hub(j, "full")
        /\ at' = [at EXCEPT ![j] = "report"] /\ outcome' = [outcome EXCEPT ![j] = "done"]
     \/ UNCHANGED repo /\ Go(j, "remove")
  /\ UNCHANGED <<ledgerVars, memory, target, phase, resume, tries, faults>>

(* Defect: the error of the upload is not raised again.                    *)
RemoveSwallows(j) ==
  /\ at[j] = "remove"
  /\ Hub(j, "absent")
  /\ at' = [at EXCEPT ![j] = "report"] /\ outcome' = [outcome EXCEPT ![j] = "done"]
  /\ UNCHANGED <<ledgerVars, memory, target, phase, resume, tries, faults>>

(* delete_repo after a failed upload; its own failure leaves the           *)
(* repository (upload_failed_repo_retained).                               *)
RemoveRepo(j) ==
  /\ at[j] = "remove"
  /\ \/ repo[target[j]] # "absent" /\ Hub(j, "absent") /\ Go(j, "unmark")
     \/ UNCHANGED repo /\ Fail(j)
  /\ UNCHANGED <<ledgerVars, memory, target, phase, resume, tries, faults>>

(* touch 'repo_removed'.                                                   *)
MarkRemoved(j) ==
  /\ at[j] = "unmark" /\ state[j] \in Active
  /\ \/ phase' = [phase EXCEPT ![j] = "repo_removed"] /\ NoFault
     \/ UNCHANGED phase /\ Fault
  /\ Fail(j)
  /\ UNCHANGED <<ledgerVars, repo, memory, target, resume, tries>>

(* Under _lock: the result in memory, for the job memory holds.            *)
Report(j) ==
  /\ at[j] = "report"
  /\ memory' = [memory EXCEPT !.state = outcome[j]]
  /\ Go(j, "terminal")
  /\ UNCHANGED <<ledgerVars, repo, target, phase, resume, tries, faults>>

TerminalRow(j) ==
  /\ at[j] = "terminal" /\ state[j] \in Active
  /\ state' = [state EXCEPT ![j] = outcome[j]]
  /\ Go(j, "none")
  /\ UNCHANGED <<key, born, touching, up, crashes, repo, memory, target, phase, resume, tries,
                 faults>>

(* Defect: the first failing transaction is the last attempt.              *)
TerminalGivesUp(j) ==
  /\ at[j] = "terminal" /\ Fault
  /\ Go(j, "none")
  /\ UNCHANGED <<ledgerVars, repo, memory, target, phase, resume, tries>>

(* A failing attempt of _terminal_job; after the last one the row stays as *)
(* it is, for the next start to close.                                     *)
TerminalFails(j) ==
  /\ at[j] = "terminal" /\ Fault
  /\ tries' = [tries EXCEPT ![j] = @ + 1]
  /\ IF tries[j] + 1 < Attempts THEN UNCHANGED <<at, outcome>> ELSE Go(j, "none")
  /\ UNCHANGED <<ledgerVars, repo, memory, target, phase, resume>>

Worker(j) ==
  \/ CreateRepo(j) \/ MarkCreated(j) \/ Upload(j) \/ RemoveRepo(j) \/ MarkRemoved(j)
  \/ Report(j) \/ TerminalRow(j) \/ TerminalFails(j)

-----------------------------------------------------------------------------
(* The process and the user.                                               *)

PublishCrash ==
  /\ LedgerCrash
  /\ memory' = Idle
  /\ at' = [j \in Jobs |-> "none"]
  /\ UNCHANGED <<repo, outcome, target, phase, resume, tries, faults>>

PublishRecover == Recover /\ UNCHANGED hubVars

(* The user cleans up after a failed upload, while nothing is running.     *)
UserDeletes(r) ==
  /\ \A j \in Jobs : at[j] = "none"
  /\ repo[r] = "partial"
  /\ repo' = [repo EXCEPT ![r] = "absent"]
  /\ UNCHANGED <<ledgerVars, memory, at, outcome, target, phase, resume, tries, faults>>

UserCreates(r) ==
  /\ \A j \in Jobs : at[j] = "none"
  /\ repo[r] = "absent"
  /\ repo' = [repo EXCEPT ![r] = "user"]
  /\ UNCHANGED <<ledgerVars, memory, at, outcome, target, phase, resume, tries, faults>>

-----------------------------------------------------------------------------
(* The setup installer, on keys of its own: start, the worker that records *)
(* progress or its end, the cancel request, recovery.                      *)

SetupStarts(j) == \E k \in Keys \ {Dataset} : Create(j, k) /\ UNCHANGED hubVars
SetupReads(s, j) == key[j] # Dataset /\ TouchReads(s, j) /\ UNCHANGED hubVars
SetupRecords(s) ==
  \E to \in {"running", "done"} : TouchWrites(s, to) /\ UNCHANGED hubVars
SetupCloses(j) == key[j] # Dataset /\ RecoverInstaller(j) /\ UNCHANGED hubVars

PublishNext ==
  \/ \E j \in Jobs, r \in Repos : StartPublish(j, r)
  \/ \E j \in Jobs : Worker(j)
  \/ \E r \in Repos : UserDeletes(r) \/ UserCreates(r)
  \/ \E j \in Jobs : SetupStarts(j) \/ SetupCloses(j)
  \/ \E s \in Sessions : SetupRecords(s) \/ \E j \in Jobs : SetupReads(s, j)
  \/ PublishCrash \/ PublishRecover

PublishSpec == PublishInit /\ [][PublishNext]_publishVars

(* A thread that runs goes on, and a process that died is started again.   *)
FairPublishSpec ==
  /\ PublishSpec
  /\ \A j \in Jobs : WF_publishVars(Worker(j))
  /\ WF_publishVars(PublishRecover)

-----------------------------------------------------------------------------
(* Properties.                                                             *)

(* A repository of the user whose name no attempt has recorded as created  *)
(* is neither written nor removed, whatever attempts on other names, their *)
(* resumption and the reuse of names go on around it (create_repo with     *)
(* exist_ok=False, and the comparison of start_publish).                   *)
UnrecordedRepoIsSafe ==
  [][\A r \in Repos :
       repo[r] = "user" /\ (\A j \in Jobs : target[j] = r => phase[j] # "repo_created")
         => repo'[r] = "user"]_publishVars

(* A publication told to be done, in memory or in the ledger, is on the    *)
(* Hub, whatever later attempts and restarts did to its name.              *)
DoneIsPublished ==
  /\ memory.state = "done" => repo[target[memory.job]] = "full"
  /\ \A j \in Jobs : key[j] = Dataset /\ state[j] = "done" => repo[target[j]] = "full"

(* A publication ends in the ledger, whatever the Hub answers, though some *)
(* transactions of its last step fail and the process dies.                *)
PublishEnds ==
  \A j \in Jobs : key[j] = Dataset /\ state[j] \in Active ~> state[j] \in Terminal
=============================================================================
