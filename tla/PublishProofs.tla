---------------------------- MODULE PublishProofs ----------------------------
(***************************************************************************)
(* Proofs about the ledger of background jobs, for any number of rows, keys, *)
(* sessions and restarts, and about the ledger with its two users, for any *)
(* number of names, crashes and failing transactions as well.              *)
(*                                                                         *)
(* A publication that is done stays on the Hub since no later attempt at   *)
(* its name can create the repository, which is there, or resume on it:    *)
(* the newest attempt is looked at, and none after the finished one has    *)
(* recorded the repository as its own.                                     *)
(***************************************************************************)
EXTENDS Publish, WellFoundedInduction, TLAPS

-----------------------------------------------------------------------------
(* The ledger by itself.                                                   *)

(* Every column of the ledger keeps its type, whatever touch() is given.   *)
THEOREM LedgerTyped == LedgerSpec => []LedgerTypeOK
<1> USE LedgerAssumption DEF LedgerTypeOK, ledgerVars, Jobs, NoJob, Active, Terminal
<1>1. LedgerInit => LedgerTypeOK
  BY DEF LedgerInit
<1>2. LedgerTypeOK /\ [LedgerNext]_ledgerVars => LedgerTypeOK'
  <2> SUFFICES ASSUME LedgerTypeOK, [LedgerNext]_ledgerVars PROVE LedgerTypeOK'
    OBVIOUS
  <2>1. ASSUME NEW j \in Jobs, NEW k \in Keys, Create(j, k) PROVE LedgerTypeOK'
    BY <2>1 DEF Create, Insert
  <2>2. ASSUME NEW s \in Sessions, NEW j \in Jobs, TouchReads(s, j) PROVE LedgerTypeOK'
    BY <2>2 DEF TouchReads
  <2>3. ASSUME NEW s \in Sessions, NEW to \in Active \cup Terminal, TouchWrites(s, to)
        PROVE LedgerTypeOK'
    BY <2>3 DEF TouchWrites
  <2>4. ASSUME NEW j \in Jobs, RecoverInstaller(j) PROVE LedgerTypeOK'
    BY <2>4 DEF RecoverInstaller
  <2>5. CASE LedgerCrash
    <3>1. crashes' \in 0 .. MaxCrashes
      BY <2>5 DEF LedgerCrash
    <3>2. touching' \in [Sessions -> 0 .. MaxJobs]
      BY <2>5 DEF LedgerCrash
    <3> QED
      BY <2>5, <3>1, <3>2 DEF LedgerCrash
  <2>6. CASE Recover
    BY <2>6 DEF Recover
  <2>7. CASE UNCHANGED ledgerVars
    BY <2>7
  <2> QED
    BY <2>1, <2>2, <2>3, <2>4, <2>5, <2>6, <2>7 DEF LedgerNext
<1> QED
  BY <1>1, <1>2, PTL DEF LedgerSpec

(* What is inductive: the types, at most one active row per key, and that  *)
(* every active row belongs to the current life of the process.            *)
LedgerInv ==
  /\ LedgerTypeOK
  /\ OneActivePerKey
  /\ NoGhost

(* No step makes an active row of one that was not, except Create, which   *)
(* finds none active for the key.                                          *)
LEMMA LedgerInvStep ==
  ASSUME LedgerInv, LedgerTypeOK', [LedgerNext]_ledgerVars
  PROVE  LedgerInv'
<1> USE DEF LedgerInv, LedgerTypeOK, OneActivePerKey, NoGhost, Jobs, NoJob
<1>1. ASSUME NEW j \in Jobs, NEW k \in Keys, Create(j, k)
      PROVE OneActivePerKey' /\ NoGhost'
  <2>1. state[j] = "none" /\ \A i \in Jobs : i # j => state'[i] = state[i] /\ key'[i] = key[i]
                                                     /\ born'[i] = born[i]
    BY <1>1 DEF Create, Insert
  <2>2. key'[j] = k /\ born'[j] = crashes /\ crashes' = crashes /\ up' = up
    BY <1>1 DEF Create, Insert
  <2>3. \A i \in Jobs : i # j /\ key'[i] = k => state'[i] \notin Active
    BY <1>1, <2>1 DEF Create
  <2>4. up
    BY <1>1 DEF Create, Insert
  <2> QED
    BY <2>1, <2>2, <2>3, <2>4
<1>2. ASSUME \A i \in Jobs : state'[i] \in Active => state[i] \in Active,
             UNCHANGED <<key, born>>, up' => up /\ crashes' = crashes
      PROVE OneActivePerKey' /\ NoGhost'
  BY <1>2
<1>3. ASSUME NEW s \in Sessions, NEW j \in Jobs, TouchReads(s, j)
      PROVE OneActivePerKey' /\ NoGhost'
  BY <1>2, <1>3 DEF TouchReads
<1>4. ASSUME NEW s \in Sessions, NEW to \in Active \cup Terminal, TouchWrites(s, to)
      PROVE OneActivePerKey' /\ NoGhost'
  BY <1>2, <1>4 DEF TouchWrites
<1>5. ASSUME NEW j \in Jobs, RecoverInstaller(j)
      PROVE OneActivePerKey' /\ NoGhost'
  BY <1>2, <1>5 DEF RecoverInstaller
<1>6. CASE LedgerCrash
  BY <1>2, <1>6 DEF LedgerCrash
<1>7. CASE Recover
  <2>1. \A i \in Jobs : state'[i] \notin Active
    BY <1>7 DEF Recover, Active
  <2> QED
    BY <2>1
<1>8. CASE UNCHANGED ledgerVars
  BY <1>2, <1>8 DEF ledgerVars
<1> QED
  BY <1>1, <1>3, <1>4, <1>5, <1>6, <1>7, <1>8 DEF LedgerNext

LEMMA LedgerInvHolds == LedgerSpec => []LedgerInv
<1>1. LedgerInit => LedgerInv
  BY LedgerAssumption DEF LedgerInit, LedgerInv, LedgerTypeOK, OneActivePerKey, NoGhost, Jobs,
     NoJob, Active
<1>2. LedgerInv /\ LedgerTypeOK' /\ [LedgerNext]_ledgerVars => LedgerInv'
  BY LedgerInvStep
<1> QED
  BY <1>1, <1>2, LedgerTyped, PTL DEF LedgerSpec

(* A key never has two active rows.                                        *)
THEOREM NoDuplicateOperation == LedgerSpec => []OneActivePerKey
BY LedgerInvHolds, PTL DEF LedgerInv

(* No row survives its process as active.                                  *)
THEOREM NoGhostOperation == LedgerSpec => []NoGhost
BY LedgerInvHolds, PTL DEF LedgerInv

(* A row that ended never changes its state again.                         *)
THEOREM EndedStaysAsItIs == LedgerSpec => EndedIsFinal
<1>1. LedgerTypeOK /\ [LedgerNext]_ledgerVars
        => [\A j \in Jobs : state[j] \in Terminal => state'[j] = state[j]]_ledgerVars
  <2> SUFFICES ASSUME LedgerTypeOK, LedgerNext, NEW j \in Jobs, state[j] \in Terminal
               PROVE  state'[j] = state[j]
    BY DEF ledgerVars
  <2> USE DEF LedgerTypeOK, Active, Terminal
  <2>1. ASSUME NEW i \in Jobs, NEW k \in Keys, Create(i, k) PROVE state'[j] = state[j]
    BY <2>1 DEF Create, Insert, Jobs
  <2>2. ASSUME NEW s \in Sessions, NEW i \in Jobs, TouchReads(s, i) PROVE state'[j] = state[j]
    BY <2>2 DEF TouchReads
  <2>3. ASSUME NEW s \in Sessions, NEW to \in Active \cup Terminal, TouchWrites(s, to)
        PROVE state'[j] = state[j]
    BY <2>3 DEF TouchWrites
  <2>4. ASSUME NEW i \in Jobs, RecoverInstaller(i) PROVE state'[j] = state[j]
    BY <2>4 DEF RecoverInstaller
  <2>5. CASE LedgerCrash
    BY <2>5 DEF LedgerCrash
  <2>6. CASE Recover
    BY <2>6 DEF Recover
  <2> QED
    BY <2>1, <2>2, <2>3, <2>4, <2>5, <2>6 DEF LedgerNext
<1> QED
  BY <1>1, LedgerTyped, PTL DEF LedgerSpec, EndedIsFinal

-----------------------------------------------------------------------------
(* Publications and the installer.                                         *)

(* A set of rows has a newest one.                                         *)
LEMMA NewestExists ==
  ASSUME NEW n \in Nat, NEW S \in SUBSET (1 .. n), S # {}
  PROVE  \E p \in S : \A i \in S : i <= p
<1> DEFINE T == {n - i : i \in S}
<1>0. \A i \in S : i \in Nat /\ 1 <= i /\ i <= n
  OBVIOUS
<1>1. T \subseteq Nat /\ T # {}
  <2>1. \A i \in S : n - i \in Nat
    BY <1>0
  <2> QED BY <2>1
<1>2. \E x \in T : \A y \in T : ~(<<y, x>> \in OpToRel(<, Nat))
  <2> HIDE DEF T
  <2> QED BY <1>1, NatLessThanWellFounded, WFMin
<1>3. PICK x \in T : \A y \in T : ~(y < x)
  BY <1>1, <1>2 DEF OpToRel
<1>4. PICK p \in S : x = n - p
  OBVIOUS
<1>5. ASSUME NEW i \in S PROVE i <= p
  <2>1. ~(n - i < n - p)
    BY <1>3, <1>4
  <2> QED BY <2>1, <1>0
<1> QED BY <1>5

(* latest() returns the newest earlier publication, if there is one.       *)
LEMMA PreviousIsNewest ==
  ASSUME NEW j \in Jobs, NEW i \in Jobs, i < j, key[i] = Dataset
  PROVE  Previous(j) \in Jobs /\ i <= Previous(j) /\ Previous(j) < j /\ key[Previous(j)] = Dataset
<1> DEFINE earlier == {k \in Jobs : k < j /\ key[k] = Dataset}
<1>1. earlier \in SUBSET (1 .. MaxJobs) /\ i \in earlier
  BY DEF Jobs
<1>2. \E p \in earlier : \A k \in earlier : k <= p
  <2> HIDE DEF earlier
  <2> QED BY <1>1, NewestExists, LedgerAssumption
<1>3. /\ Previous(j) \in earlier \cup {NoJob}
      /\ \A k \in earlier : k <= Previous(j)
  BY <1>2 DEF Previous
<1>4. Previous(j) # NoJob
  BY <1>1, <1>3 DEF NoJob, Jobs
<1> QED BY <1>1, <1>3, <1>4

-----------------------------------------------------------------------------
(* The invariant.                                                          *)

Typed == LedgerTypeOK /\ PublishTypeOK

\* A key's rows are created one after the other.
RowsInv ==
  /\ \A i, j \in Jobs : i < j /\ key[i] = key[j] /\ state[j] # "none" => state[i] \notin Active
  /\ \A j \in Jobs : state[j] = "none" => /\ key[j] = NoKey /\ at[j] = "none"
                                          /\ phase[j] = "none" /\ tries[j] = 0
  /\ NoGhost

\* Sessions touch rows of the installer.
TouchInv == \A s \in Sessions : touching[s] # NoJob =>
              /\ touching[s] \in Jobs /\ state[touching[s]] # "none"
              /\ key[touching[s]] # Dataset

\* A thread works for an active row of the dataset, the one memory names.
WorkInv == \A j \in Jobs : at[j] # "none" =>
  /\ up /\ state[j] \in Active /\ key[j] = Dataset /\ memory.job = j /\ target[j] \in Repos
  /\ at[j] \in {"report", "terminal"} => outcome[j] \in {"done", "error"}
  /\ tries[j] < Attempts
  /\ at[j] # "terminal" => memory.state = "running"

\* What a thread may upload to or remove was recorded by an attempt.
OwnedInv == \A j \in Jobs :
  at[j] \in {"upload", "remove"} \/ (at[j] = "create" /\ resume[j]) =>
    \E p \in Jobs : target[p] = target[j] /\ phase[p] = "repo_created"

\* A publication that is, or is about to be, called done.
Finished(j) ==
  \/ state[j] = "done" /\ key[j] = Dataset
  \/ memory.state = "done" /\ memory.job = j
  \/ at[j] \in {"report", "terminal"} /\ outcome[j] = "done"

\* A later attempt at the same name that could touch the repository.
Meddles(i) == \/ phase[i] = "repo_created" \/ resume[i]
              \/ at[i] \in {"mark", "upload", "remove", "unmark"}

DoneInv ==
  /\ memory.state = "done" => memory.job \in Jobs
  /\ \A j \in Jobs : Finished(j) =>
       /\ key[j] = Dataset /\ target[j] \in Repos /\ repo[target[j]] = "full"
       /\ \A i \in Jobs : i > j /\ key[i] = Dataset /\ target[i] = target[j] => ~Meddles(i)

PublishInv == Typed /\ RowsInv /\ TouchInv /\ WorkInv /\ OwnedInv /\ DoneInv
-----------------------------------------------------------------------------
ThreadsTyped ==
  /\ at \in [Jobs -> {"none", "create", "mark", "upload", "remove", "unmark", "report", "terminal"}]
  /\ outcome \in [Jobs -> {"none", "done", "error"}]

LEMMA ThreadTyped ==
  ASSUME PublishTypeOK, NEW j \in Jobs
  PROVE  /\ \A to \in {"none", "mark", "upload", "remove", "unmark", "terminal"} :
              Go(j, to) => ThreadsTyped'
         /\ Fail(j) => ThreadsTyped'
         /\ UNCHANGED <<at, outcome>> => ThreadsTyped'
         /\ \A end \in {"done", "error"} :
              /\ at' = [at EXCEPT ![j] = "report"]
              /\ outcome' = [outcome EXCEPT ![j] = end]
              => ThreadsTyped'
BY DEF PublishTypeOK, ThreadsTyped, Go, Fail

LEMMA HubTyped ==
  ASSUME PublishTypeOK, NEW j \in Jobs, NEW what \in {"absent", "partial", "full"}, Hub(j, what)
  PROVE  repo' \in [Repos -> {"absent", "user", "partial", "full"}]
BY DEF PublishTypeOK, Hub

LEMMA BoundsTyped ==
  ASSUME PublishTypeOK
  PROVE  /\ Fault => faults' \in 0 .. MaxFaults
         /\ NoFault => faults' \in 0 .. MaxFaults
         /\ \A j \in Jobs : tries[j] < Attempts =>
              [tries EXCEPT ![j] = @ + 1] \in [Jobs -> 0 .. Attempts]
BY PublishAssumption DEF PublishTypeOK, Fault, NoFault

LEMMA TypedStep ==
  ASSUME PublishInv, [PublishNext]_publishVars PROVE Typed'
<1> USE LedgerAssumption, PublishAssumption DEF PublishInv, Typed
<1>a. ASSUME UNCHANGED ledgerVars PROVE LedgerTypeOK'
  BY <1>a DEF LedgerTypeOK, ledgerVars
<1>b. ASSUME UNCHANGED hubVars PROVE PublishTypeOK'
  BY <1>b DEF PublishTypeOK, hubVars
<1>1. ASSUME NEW j \in Jobs, NEW r \in Repos, StartPublish(j, r) PROVE Typed'
  <2>1. LedgerTypeOK'
    BY <1>1 DEF LedgerTypeOK, StartPublish, Create, Insert, Active
  <2>2. ThreadsTyped'
    BY <1>1 DEF PublishTypeOK, StartPublish, ThreadsTyped
  <2>3. memory' \in [state : {"idle", "running", "done", "error"}, job : 0 .. MaxJobs]
    BY <1>1 DEF StartPublish, Jobs
  <2>4. Owns(j, r) \in BOOLEAN
    BY DEF Owns
  <2> QED BY <1>1, <2>1, <2>2, <2>3, <2>4 DEF StartPublish, PublishTypeOK, ThreadsTyped
<1>2. ASSUME NEW j \in Jobs, CreateRepo(j) PROVE Typed'
  <2>1. ThreadsTyped' /\ repo' \in [Repos -> {"absent", "user", "partial", "full"}]
    BY <1>2, ThreadTyped, HubTyped DEF CreateRepo, PublishTypeOK
  <2> QED BY <1>a, <1>2, <2>1 DEF CreateRepo, PublishTypeOK, ThreadsTyped
<1>3. ASSUME NEW j \in Jobs, MarkCreated(j) PROVE Typed'
  <2>1. ThreadsTyped' /\ faults' \in 0 .. MaxFaults
    BY <1>3, ThreadTyped, BoundsTyped DEF MarkCreated
  <2> QED BY <1>a, <1>3, <2>1 DEF MarkCreated, PublishTypeOK, ThreadsTyped
<1>4. ASSUME NEW j \in Jobs, Upload(j) PROVE Typed'
  <2>1. ThreadsTyped' /\ repo' \in [Repos -> {"absent", "user", "partial", "full"}]
    BY <1>4, ThreadTyped, HubTyped DEF Upload, PublishTypeOK
  <2> QED BY <1>a, <1>4, <2>1 DEF Upload, PublishTypeOK, ThreadsTyped
<1>5. ASSUME NEW j \in Jobs, RemoveRepo(j) PROVE Typed'
  <2>1. ThreadsTyped' /\ repo' \in [Repos -> {"absent", "user", "partial", "full"}]
    BY <1>5, ThreadTyped, HubTyped DEF RemoveRepo, PublishTypeOK
  <2> QED BY <1>a, <1>5, <2>1 DEF RemoveRepo, PublishTypeOK, ThreadsTyped
<1>6. ASSUME NEW j \in Jobs, MarkRemoved(j) PROVE Typed'
  <2>1. ThreadsTyped' /\ faults' \in 0 .. MaxFaults
    BY <1>6, ThreadTyped, BoundsTyped DEF MarkRemoved
  <2> QED BY <1>a, <1>6, <2>1 DEF MarkRemoved, PublishTypeOK, ThreadsTyped
<1>7. ASSUME NEW j \in Jobs, Report(j) PROVE Typed'
  <2>1. ThreadsTyped'
    BY <1>7, ThreadTyped DEF Report
  <2>2. memory' \in [state : {"idle", "running", "done", "error"}, job : 0 .. MaxJobs]
    BY <1>7 DEF Report, WorkInv, PublishTypeOK
  <2> QED BY <1>a, <1>7, <2>1, <2>2 DEF Report, PublishTypeOK, ThreadsTyped
<1>8. ASSUME NEW j \in Jobs, TerminalRow(j) PROVE Typed'
  <2>1. ThreadsTyped'
    BY <1>8, ThreadTyped DEF TerminalRow
  <2>2. LedgerTypeOK'
    BY <1>8 DEF TerminalRow, WorkInv, LedgerTypeOK, Terminal
  <2> QED BY <1>8, <2>1, <2>2 DEF TerminalRow, PublishTypeOK, ThreadsTyped
<1>9. ASSUME NEW j \in Jobs, TerminalFails(j) PROVE Typed'
  <2>1. ThreadsTyped'
    BY <1>9, ThreadTyped DEF TerminalFails
  <2>2. faults' \in 0 .. MaxFaults /\ tries' \in [Jobs -> 0 .. Attempts]
    BY <1>9, BoundsTyped DEF TerminalFails, WorkInv
  <2> QED BY <1>a, <1>9, <2>1, <2>2 DEF TerminalFails, PublishTypeOK, ThreadsTyped
<1>10. ASSUME NEW r \in Repos, UserDeletes(r) \/ UserCreates(r) PROVE Typed'
  BY <1>a, <1>10 DEF UserDeletes, UserCreates, PublishTypeOK
<1>11. ASSUME NEW j \in Jobs, SetupStarts(j) PROVE Typed'
  BY <1>b, <1>11 DEF SetupStarts, Create, Insert, LedgerTypeOK, Active
<1>12. ASSUME NEW j \in Jobs, SetupCloses(j) PROVE Typed'
  BY <1>b, <1>12 DEF SetupCloses, RecoverInstaller, LedgerTypeOK, Terminal
<1>13. ASSUME NEW s \in Sessions, SetupRecords(s) PROVE Typed'
  <2>1. PICK to \in {"running", "done"} : TouchWrites(s, to)
    BY <1>13 DEF SetupRecords
  <2>2. LedgerTypeOK'
    <3>1. state' \in [Jobs -> {"none"} \cup Active \cup Terminal]
      BY <2>1 DEF TouchWrites, LedgerTypeOK, Active, Terminal
    <3>2. touching' \in [Sessions -> 0 .. MaxJobs]
      BY <2>1 DEF TouchWrites, LedgerTypeOK, NoJob
    <3> QED BY <2>1, <3>1, <3>2 DEF TouchWrites, LedgerTypeOK
  <2> QED BY <1>b, <1>13, <2>2 DEF SetupRecords
<1>14. ASSUME NEW s \in Sessions, NEW j \in Jobs, SetupReads(s, j) PROVE Typed'
  BY <1>b, <1>14 DEF SetupReads, TouchReads, LedgerTypeOK, Jobs
<1>15. CASE PublishCrash
  <2>1. LedgerTypeOK'
    <3>1. crashes' \in 0 .. MaxCrashes
      BY <1>15 DEF PublishCrash, LedgerCrash, LedgerTypeOK
    <3>2. touching' \in [Sessions -> 0 .. MaxJobs]
      BY <1>15 DEF PublishCrash, LedgerCrash, NoJob
    <3> QED BY <1>15, <3>1, <3>2 DEF PublishCrash, LedgerCrash, LedgerTypeOK
  <2>2. memory' \in [state : {"idle", "running", "done", "error"}, job : 0 .. MaxJobs]
    BY <1>15 DEF PublishCrash, Idle, NoJob
  <2>3. ThreadsTyped'
    BY <1>15 DEF PublishCrash, PublishTypeOK, ThreadsTyped
  <2> QED BY <1>15, <2>1, <2>2, <2>3 DEF PublishCrash, PublishTypeOK, ThreadsTyped
<1>16. CASE PublishRecover
  BY <1>b, <1>16 DEF PublishRecover, Recover, LedgerTypeOK, Terminal
<1>17. CASE UNCHANGED publishVars
  BY <1>a, <1>b, <1>17 DEF publishVars
<1> QED
  BY <1>1, <1>2, <1>3, <1>4, <1>5, <1>6, <1>7, <1>8, <1>9, <1>10, <1>11, <1>12, <1>13, <1>14, <1>15, <1>16, <1>17 DEF PublishNext, Worker

(* While a publication runs it is the newest of its dataset, no other one  *)
(* runs, and it is not done.                                               *)
LEMMA WorksAlone ==
  ASSUME PublishInv, NEW j \in Jobs, at[j] # "none"
  PROVE  /\ \A k \in Jobs : k # j => at[k] = "none"
         /\ \A i \in Jobs : i > j => key[i] # Dataset
         /\ at[j] \notin {"report", "terminal"} => ~Finished(j)
<1> USE LedgerAssumption, PublishAssumption DEF PublishInv, WorkInv, RowsInv
<1>1. \A i \in Jobs : key[i] = Dataset => state[i] # "none"
  OBVIOUS
<1>2. \A i \in Jobs : i > j => key[i] # Dataset
  BY <1>1 DEF Jobs
<1>3. at[j] \notin {"report", "terminal"} => ~Finished(j)
  BY DEF Finished, Active
<1> QED BY <1>2, <1>3

LEMMA RowsStep ==
  ASSUME PublishInv, [PublishNext]_publishVars, Typed' PROVE RowsInv'
<1> USE LedgerAssumption, PublishAssumption DEF PublishInv, Typed, LedgerTypeOK, PublishTypeOK, ledgerVars, hubVars, Active, Terminal, NoJob, Idle, WorkInv, TouchInv, RowsInv, NoGhost, Jobs
<1>1. ASSUME NEW j \in Jobs, NEW r \in Repos, StartPublish(j, r) PROVE RowsInv'
  BY <1>1 DEF StartPublish, Create, Insert
<1>2. ASSUME NEW j \in Jobs, CreateRepo(j) PROVE RowsInv'
  BY <1>2 DEF CreateRepo, Fail, Go, Hub
<1>3. ASSUME NEW j \in Jobs, MarkCreated(j) PROVE RowsInv'
  BY <1>3 DEF MarkCreated, Fail, Go, NoFault, Fault
<1>4. ASSUME NEW j \in Jobs, Upload(j) PROVE RowsInv'
  BY <1>4 DEF Upload, Go, Hub
<1>5. ASSUME NEW j \in Jobs, RemoveRepo(j) PROVE RowsInv'
  BY <1>5 DEF RemoveRepo, Hub, Go, Fail
<1>6. ASSUME NEW j \in Jobs, MarkRemoved(j) PROVE RowsInv'
  BY <1>6 DEF MarkRemoved, NoFault, Fault, Fail
<1>7. ASSUME NEW j \in Jobs, Report(j) PROVE RowsInv'
  BY <1>7 DEF Report, Go
<1>8. ASSUME NEW j \in Jobs, TerminalRow(j) PROVE RowsInv'
  BY <1>8 DEF TerminalRow, Go
<1>9. ASSUME NEW j \in Jobs, TerminalFails(j) PROVE RowsInv'
  BY <1>9 DEF TerminalFails, Fault, Go
<1>10. ASSUME NEW r \in Repos, UserDeletes(r) \/ UserCreates(r) PROVE RowsInv'
  BY <1>10 DEF UserDeletes, UserCreates
<1>11. ASSUME NEW j \in Jobs, SetupStarts(j) PROVE RowsInv'
  BY <1>11 DEF SetupStarts, Create, Insert
<1>12. ASSUME NEW j \in Jobs, SetupCloses(j) PROVE RowsInv'
  BY <1>12 DEF SetupCloses, RecoverInstaller
<1>13. ASSUME NEW s \in Sessions, SetupRecords(s) PROVE RowsInv'
  BY <1>13 DEF SetupRecords, TouchWrites
<1>14. ASSUME NEW s \in Sessions, NEW j \in Jobs, SetupReads(s, j) PROVE RowsInv'
  BY <1>14 DEF SetupReads, TouchReads
<1>15. CASE PublishCrash
  BY <1>15 DEF PublishCrash, LedgerCrash
<1>16. CASE PublishRecover
  BY <1>16 DEF PublishRecover, Recover
<1>17. CASE UNCHANGED publishVars
  BY <1>17 DEF publishVars
<1> QED
  BY <1>1, <1>2, <1>3, <1>4, <1>5, <1>6, <1>7, <1>8, <1>9, <1>10, <1>11, <1>12, <1>13, <1>14, <1>15, <1>16, <1>17 DEF PublishNext, Worker

LEMMA TouchStep ==
  ASSUME PublishInv, [PublishNext]_publishVars, Typed' PROVE TouchInv'
<1> USE LedgerAssumption, PublishAssumption DEF PublishInv, Typed, LedgerTypeOK, PublishTypeOK, ledgerVars, hubVars, Active, Terminal, NoJob, Idle, TouchInv, WorkInv, RowsInv, Jobs
<1>1. ASSUME NEW j \in Jobs, NEW r \in Repos, StartPublish(j, r) PROVE TouchInv'
  BY <1>1 DEF StartPublish, Create, Insert
<1>2. ASSUME NEW j \in Jobs, CreateRepo(j) PROVE TouchInv'
  BY <1>2 DEF CreateRepo, Fail, Go, Hub
<1>3. ASSUME NEW j \in Jobs, MarkCreated(j) PROVE TouchInv'
  BY <1>3 DEF MarkCreated, Fail, Go, NoFault, Fault
<1>4. ASSUME NEW j \in Jobs, Upload(j) PROVE TouchInv'
  BY <1>4 DEF Upload, Go, Hub
<1>5. ASSUME NEW j \in Jobs, RemoveRepo(j) PROVE TouchInv'
  BY <1>5 DEF RemoveRepo, Hub, Go, Fail
<1>6. ASSUME NEW j \in Jobs, MarkRemoved(j) PROVE TouchInv'
  BY <1>6 DEF MarkRemoved, NoFault, Fault, Fail
<1>7. ASSUME NEW j \in Jobs, Report(j) PROVE TouchInv'
  BY <1>7 DEF Report, Go
<1>8. ASSUME NEW j \in Jobs, TerminalRow(j) PROVE TouchInv'
  BY <1>8 DEF TerminalRow, Go
<1>9. ASSUME NEW j \in Jobs, TerminalFails(j) PROVE TouchInv'
  BY <1>9 DEF TerminalFails, Fault, Go
<1>10. ASSUME NEW r \in Repos, UserDeletes(r) \/ UserCreates(r) PROVE TouchInv'
  BY <1>10 DEF UserDeletes, UserCreates
<1>11. ASSUME NEW j \in Jobs, SetupStarts(j) PROVE TouchInv'
  BY <1>11 DEF SetupStarts, Create, Insert
<1>12. ASSUME NEW j \in Jobs, SetupCloses(j) PROVE TouchInv'
  BY <1>12 DEF SetupCloses, RecoverInstaller
<1>13. ASSUME NEW s \in Sessions, SetupRecords(s) PROVE TouchInv'
  BY <1>13 DEF SetupRecords, TouchWrites
<1>14. ASSUME NEW s \in Sessions, NEW j \in Jobs, SetupReads(s, j) PROVE TouchInv'
  BY <1>14 DEF SetupReads, TouchReads
<1>15. CASE PublishCrash
  BY <1>15 DEF PublishCrash, LedgerCrash
<1>16. CASE PublishRecover
  BY <1>16 DEF PublishRecover, Recover
<1>17. CASE UNCHANGED publishVars
  BY <1>17 DEF publishVars
<1> QED
  BY <1>1, <1>2, <1>3, <1>4, <1>5, <1>6, <1>7, <1>8, <1>9, <1>10, <1>11, <1>12, <1>13, <1>14, <1>15, <1>16, <1>17 DEF PublishNext, Worker

LEMMA WorkStep ==
  ASSUME PublishInv, [PublishNext]_publishVars, Typed' PROVE WorkInv'
<1> USE LedgerAssumption, PublishAssumption DEF PublishInv, Typed, LedgerTypeOK, PublishTypeOK, ledgerVars, hubVars, Active, Terminal, NoJob, Idle, WorkInv, TouchInv, RowsInv, Jobs
<1>1. ASSUME NEW j \in Jobs, NEW r \in Repos, StartPublish(j, r) PROVE WorkInv'
  BY <1>1 DEF StartPublish, Create, Insert
<1>2. ASSUME NEW j \in Jobs, CreateRepo(j) PROVE WorkInv'
  BY <1>2 DEF CreateRepo, Fail, Go, Hub
<1>3. ASSUME NEW j \in Jobs, MarkCreated(j) PROVE WorkInv'
  BY <1>3 DEF MarkCreated, Fail, Go, NoFault, Fault
<1>4. ASSUME NEW j \in Jobs, Upload(j) PROVE WorkInv'
  BY <1>4 DEF Upload, Go, Hub
<1>5. ASSUME NEW j \in Jobs, RemoveRepo(j) PROVE WorkInv'
  BY <1>5 DEF RemoveRepo, Hub, Go, Fail
<1>6. ASSUME NEW j \in Jobs, MarkRemoved(j) PROVE WorkInv'
  BY <1>6 DEF MarkRemoved, NoFault, Fault, Fail
<1>7. ASSUME NEW j \in Jobs, Report(j) PROVE WorkInv'
  BY <1>7 DEF Report, Go
<1>8. ASSUME NEW j \in Jobs, TerminalRow(j) PROVE WorkInv'
  BY <1>8 DEF TerminalRow, Go
<1>9. ASSUME NEW j \in Jobs, TerminalFails(j) PROVE WorkInv'
  BY <1>9 DEF TerminalFails, Fault, Go
<1>10. ASSUME NEW r \in Repos, UserDeletes(r) \/ UserCreates(r) PROVE WorkInv'
  BY <1>10 DEF UserDeletes, UserCreates
<1>11. ASSUME NEW j \in Jobs, SetupStarts(j) PROVE WorkInv'
  BY <1>11 DEF SetupStarts, Create, Insert
<1>12. ASSUME NEW j \in Jobs, SetupCloses(j) PROVE WorkInv'
  BY <1>12 DEF SetupCloses, RecoverInstaller
<1>13. ASSUME NEW s \in Sessions, SetupRecords(s) PROVE WorkInv'
  BY <1>13 DEF SetupRecords, TouchWrites
<1>14. ASSUME NEW s \in Sessions, NEW j \in Jobs, SetupReads(s, j) PROVE WorkInv'
  BY <1>14 DEF SetupReads, TouchReads
<1>15. CASE PublishCrash
  BY <1>15 DEF PublishCrash, LedgerCrash
<1>16. CASE PublishRecover
  BY <1>16 DEF PublishRecover, Recover
<1>17. CASE UNCHANGED publishVars
  BY <1>17 DEF publishVars
<1> QED
  BY <1>1, <1>2, <1>3, <1>4, <1>5, <1>6, <1>7, <1>8, <1>9, <1>10, <1>11, <1>12, <1>13, <1>14, <1>15, <1>16, <1>17 DEF PublishNext, Worker

LEMMA OwnedStep ==
  ASSUME PublishInv, [PublishNext]_publishVars, Typed' PROVE OwnedInv'
<1> USE LedgerAssumption, PublishAssumption DEF PublishInv, Typed, LedgerTypeOK, PublishTypeOK, ledgerVars, hubVars, Active, Terminal, NoJob, Idle, WorkInv, OwnedInv, RowsInv, Jobs
<1>1. ASSUME NEW j \in Jobs, NEW r \in Repos, StartPublish(j, r) PROVE OwnedInv'
  <2>1. state[j] = "none" /\ phase' = phase /\ target' = [target EXCEPT ![j] = r]
    BY <1>1 DEF StartPublish, Create, Insert
  <2>2. \A k \in Jobs : at'[k] \in {"upload", "remove"} \/ (at'[k] = "create" /\ resume'[k]) =>
                          k = j /\ Owns(j, r)
    <3>1. \A k \in Jobs : k # j => at[k] = "none" /\ at'[k] = at[k]
      BY <1>1 DEF StartPublish, Create, Insert
    <3>2. at'[j] \in {"create", "report"} /\ resume'[j] = Owns(j, r)
      BY <1>1 DEF StartPublish
    <3> QED BY <3>1, <3>2
  <2>3. Owns(j, r) => \E p \in Jobs \ {j} : target[p] = r /\ phase[p] = "repo_created"
    BY <2>1 DEF Owns
  <2> QED BY <2>1, <2>2, <2>3
<1>2. ASSUME NEW j \in Jobs, CreateRepo(j) PROVE OwnedInv'
  BY <1>2 DEF CreateRepo, Fail, Go, Hub
<1>3. ASSUME NEW j \in Jobs, MarkCreated(j) PROVE OwnedInv'
  BY <1>3 DEF MarkCreated, Fail, Go, NoFault, Fault
<1>4. ASSUME NEW j \in Jobs, Upload(j) PROVE OwnedInv'
  BY <1>4 DEF Upload, Go, Hub
<1>5. ASSUME NEW j \in Jobs, RemoveRepo(j) PROVE OwnedInv'
  BY <1>5 DEF RemoveRepo, Hub, Go, Fail
<1>6. ASSUME NEW j \in Jobs, MarkRemoved(j) PROVE OwnedInv'
  <2>1. \A k \in Jobs : at'[k] \in {"none", "report"}
    BY <1>6, WorksAlone DEF MarkRemoved, Fail
  <2> QED BY <2>1
<1>7. ASSUME NEW j \in Jobs, Report(j) PROVE OwnedInv'
  BY <1>7 DEF Report, Go
<1>8. ASSUME NEW j \in Jobs, TerminalRow(j) PROVE OwnedInv'
  BY <1>8 DEF TerminalRow, Go
<1>9. ASSUME NEW j \in Jobs, TerminalFails(j) PROVE OwnedInv'
  BY <1>9 DEF TerminalFails, Fault, Go
<1>10. ASSUME NEW r \in Repos, UserDeletes(r) \/ UserCreates(r) PROVE OwnedInv'
  BY <1>10 DEF UserDeletes, UserCreates
<1>11. ASSUME NEW j \in Jobs, SetupStarts(j) PROVE OwnedInv'
  BY <1>11 DEF SetupStarts, Create, Insert
<1>12. ASSUME NEW j \in Jobs, SetupCloses(j) PROVE OwnedInv'
  BY <1>12 DEF SetupCloses, RecoverInstaller
<1>13. ASSUME NEW s \in Sessions, SetupRecords(s) PROVE OwnedInv'
  BY <1>13 DEF SetupRecords, TouchWrites
<1>14. ASSUME NEW s \in Sessions, NEW j \in Jobs, SetupReads(s, j) PROVE OwnedInv'
  BY <1>14 DEF SetupReads, TouchReads
<1>15. CASE PublishCrash
  BY <1>15 DEF PublishCrash, LedgerCrash
<1>16. CASE PublishRecover
  BY <1>16 DEF PublishRecover, Recover
<1>17. CASE UNCHANGED publishVars
  BY <1>17 DEF publishVars
<1> QED
  BY <1>1, <1>2, <1>3, <1>4, <1>5, <1>6, <1>7, <1>8, <1>9, <1>10, <1>11, <1>12, <1>13, <1>14, <1>15, <1>16, <1>17 DEF PublishNext, Worker

LEMMA DoneStep ==
  ASSUME PublishInv, [PublishNext]_publishVars, Typed' PROVE DoneInv'
<1> USE LedgerAssumption, PublishAssumption DEF PublishInv, Typed, LedgerTypeOK, PublishTypeOK, ledgerVars, hubVars, Active, Terminal, NoJob, Idle, WorkInv, TouchInv, DoneInv, Finished, Meddles, RowsInv, Jobs
<1>1. ASSUME NEW j \in Jobs, NEW r \in Repos, StartPublish(j, r) PROVE DoneInv'
  <2>1. /\ state[j] = "none" /\ UNCHANGED <<repo, phase>> /\ \A i \in Jobs : i < j => state[i] # "none"
        /\ target' = [target EXCEPT ![j] = r] /\ key' = [key EXCEPT ![j] = Dataset]
        /\ resume' = [resume EXCEPT ![j] = Owns(j, r)]
        /\ at' \in {[at EXCEPT ![j] = "create"], [at EXCEPT ![j] = "report"]}
        /\ memory'.state = "running"
    BY <1>1 DEF StartPublish, Create, Insert
  <2>2. ~Finished(j)'
    BY <1>1, <2>1 DEF StartPublish, Create, Insert
  <2>3. ASSUME NEW i \in Jobs, i # j, Finished(i)' PROVE i < j /\ state[i] = "done" /\ Finished(i)
    BY <1>1, <2>3 DEF StartPublish, Create, Insert
  <2>4. ASSUME NEW i \in Jobs, i # j, Finished(i)', target[i] = r PROVE ~Owns(j, r)
    <3>1. i < j /\ key[i] = Dataset /\ state[i] = "done" /\ Finished(i)
      BY <2>3, <2>4
    <3>2. Previous(j) \in Jobs /\ i <= Previous(j) /\ key[Previous(j)] = Dataset
      BY <3>1, PreviousIsNewest
    <3>3. CASE Previous(j) = i
      BY <3>1, <3>3 DEF Owns
    <3>4. CASE Previous(j) > i
      BY <2>4, <3>1, <3>2, <3>4 DEF Owns
    <3> QED BY <3>2, <3>3, <3>4
  <2>5. phase[j] # "repo_created"
    BY <2>1
  <2>6. \A k \in Jobs : k # j => /\ key'[k] = key[k] /\ target'[k] = target[k]
                                 /\ Meddles(k)' <=> Meddles(k)
    BY <2>1
  <2>7. Meddles(j)' => Owns(j, r)
    BY <2>1, <2>5
  <2>8. ASSUME NEW i \in Jobs, Finished(i)', NEW k \in Jobs, k > i, key'[k] = Dataset,
               target'[k] = target'[i]
        PROVE  ~Meddles(k)'
    <3>1. i # j /\ Finished(i)
      BY <2>2, <2>3, <2>8
    <3>2. \A m \in Jobs : m > i /\ key[m] = Dataset /\ target[m] = target[i] => ~Meddles(m)
      BY <3>1
    <3>3. target'[i] = target[i] /\ target'[j] = r
      BY <2>1, <2>6, <3>1
    <3> HIDE DEF PublishInv, Finished, Meddles
    <3>4. CASE k = j
      BY <2>4, <2>7, <2>8, <3>1, <3>3, <3>4
    <3>5. CASE k # j
      BY <2>6, <2>8, <3>2, <3>3, <3>5
    <3> QED BY <3>4, <3>5
  <2>9. ASSUME NEW i \in Jobs, Finished(i)'
        PROVE  key'[i] = Dataset /\ target'[i] \in Repos /\ repo'[target'[i]] = "full"
    <3>1. i # j /\ Finished(i)
      BY <2>2, <2>3, <2>9
    <3>2. key[i] = Dataset /\ target[i] \in Repos /\ repo[target[i]] = "full"
      BY <3>1
    <3> QED BY <2>1, <2>6, <3>1, <3>2
  <2> HIDE DEF PublishInv, Finished, Meddles
  <2> QED BY <2>1, <2>8, <2>9
<1>2. ASSUME NEW j \in Jobs, CreateRepo(j) PROVE DoneInv'
  BY <1>2 DEF CreateRepo, Fail, Go, Hub
<1>3. ASSUME NEW j \in Jobs, MarkCreated(j) PROVE DoneInv'
  <2>1. /\ UNCHANGED <<ledgerVars, repo, memory, target, resume>>
        /\ at' \in {[at EXCEPT ![j] = "upload"], [at EXCEPT ![j] = "report"]}
        /\ at'[j] = "report" => outcome'[j] = "error"
        /\ \A k \in Jobs : k # j => outcome'[k] = outcome[k] /\ phase'[k] = phase[k]
    BY <1>3 DEF MarkCreated, Fail, Go
  <2>2. ~Finished(j)' /\ ~Finished(j)
    BY <1>3, <2>1, WorksAlone DEF MarkCreated
  <2>3. \A i \in Jobs : Finished(i)' => i # j /\ Finished(i)
    BY <2>1, <2>2
  <2> QED BY <1>3, <2>1, <2>3 DEF MarkCreated
<1>4. ASSUME NEW j \in Jobs, Upload(j) PROVE DoneInv'
  <2>1. CASE UNCHANGED repo /\ Go(j, "remove")
    <3>1. \A i \in Jobs : Finished(i)' => Finished(i)
      BY <1>4, <2>1 DEF Upload, Go
    <3> QED BY <1>4, <2>1, <3>1 DEF Upload, Go
  <2>2. CASE /\ Hub(j, "full") /\ at' = [at EXCEPT ![j] = "report"]
             /\ outcome' = [outcome EXCEPT ![j] = "done"]
    <3>1. \A i \in Jobs : i # j /\ Finished(i)' => Finished(i)
      BY <1>4, <2>2 DEF Upload
    <3>2. \A i \in Jobs : i > j => key[i] # Dataset
      BY <1>4, WorksAlone DEF Upload
    <3>3. target[j] \in Repos /\ key[j] = Dataset
      BY <1>4 DEF Upload
    <3>4. \A k \in Repos : repo'[k] = repo[k] \/ repo'[k] = "full"
      BY <2>2 DEF Hub
    <3>5. repo'[target[j]] = "full"
      BY <2>2, <3>3 DEF Hub
    <3>6. UNCHANGED <<key, target, phase, resume, memory>> /\ \A k \in Jobs : k # j => at'[k] = at[k]
      BY <1>4, <2>2 DEF Upload
    <3>7. memory'.state = "done" => memory'.job \in Jobs
      BY <3>6
    <3>8. ASSUME NEW i \in Jobs, i # j, Finished(i)'
          PROVE  /\ key[i] = Dataset /\ target[i] \in Repos /\ repo'[target[i]] = "full"
                 /\ \A k \in Jobs : k > i /\ key[k] = Dataset /\ target[k] = target[i] => ~Meddles(k)'
      <4>1. /\ key[i] = Dataset /\ target[i] \in Repos /\ repo[target[i]] = "full"
            /\ \A k \in Jobs : k > i /\ key[k] = Dataset /\ target[k] = target[i] => ~Meddles(k)
        BY <3>1, <3>8
      <4>2. \A k \in Jobs : k # j => (Meddles(k)' <=> Meddles(k))
        BY <3>6
      <4>3. Meddles(j)' => Meddles(j)
        <5>1. at'[j] = "report"
          BY <2>2
        <5> QED BY <3>6, <5>1
      <4> HIDE DEF PublishInv, Finished, Meddles
      <4>4. \A k \in Jobs : Meddles(k)' => Meddles(k)
        BY <4>2, <4>3
      <4> QED BY <3>4, <4>1, <4>4
    <3> HIDE DEF PublishInv, Finished, Meddles
    <3> QED BY <3>2, <3>3, <3>5, <3>6, <3>7, <3>8
  <2> QED BY <1>4, <2>1, <2>2 DEF Upload
<1>5. ASSUME NEW j \in Jobs, RemoveRepo(j) PROVE DoneInv'
  <2>1. /\ UNCHANGED <<ledgerVars, memory, target, phase, resume>>
        /\ at' \in {[at EXCEPT ![j] = "unmark"], [at EXCEPT ![j] = "report"]}
        /\ at'[j] = "report" => outcome'[j] = "error"
        /\ \A k \in Jobs : k # j => outcome'[k] = outcome[k]
        /\ \A x \in Repos : x # target[j] => repo'[x] = repo[x]
    BY <1>5 DEF RemoveRepo, Hub, Go, Fail
  <2>2. ~Finished(j)' /\ ~Finished(j)
    BY <1>5, <2>1, WorksAlone DEF RemoveRepo
  <2>3. \A i \in Jobs : Finished(i)' => i # j /\ Finished(i)
    BY <2>1, <2>2
  <2>4. \A i \in Jobs : Finished(i)' => target[i] # target[j]
    <3>1. \A i \in Jobs : i > j => key[i] # Dataset
      BY <1>5, WorksAlone DEF RemoveRepo
    <3>2. key[j] = Dataset /\ at[j] = "remove"
      BY <1>5 DEF RemoveRepo
    <3>3. ASSUME NEW i \in Jobs, Finished(i)', target[i] = target[j] PROVE FALSE
      <4>1. i # j /\ Finished(i) /\ key[i] = Dataset
        BY <2>3, <3>3
      <4>2. j > i
        BY <3>1, <4>1
      <4> QED BY <3>2, <3>3, <4>1, <4>2
    <3> QED BY <3>3
  <2> QED BY <1>5, <2>1, <2>3, <2>4 DEF RemoveRepo
<1>6. ASSUME NEW j \in Jobs, MarkRemoved(j) PROVE DoneInv'
  BY <1>6 DEF MarkRemoved, NoFault, Fault, Fail
<1>7. ASSUME NEW j \in Jobs, Report(j) PROVE DoneInv'
  BY <1>7 DEF Report, Go
<1>8. ASSUME NEW j \in Jobs, TerminalRow(j) PROVE DoneInv'
  BY <1>8 DEF TerminalRow, Go
<1>9. ASSUME NEW j \in Jobs, TerminalFails(j) PROVE DoneInv'
  BY <1>9 DEF TerminalFails, Fault, Go
<1>10. ASSUME NEW r \in Repos, UserDeletes(r) \/ UserCreates(r) PROVE DoneInv'
  BY <1>10 DEF UserDeletes, UserCreates
<1>11. ASSUME NEW j \in Jobs, SetupStarts(j) PROVE DoneInv'
  BY <1>11 DEF SetupStarts, Create, Insert
<1>12. ASSUME NEW j \in Jobs, SetupCloses(j) PROVE DoneInv'
  BY <1>12 DEF SetupCloses, RecoverInstaller
<1>13. ASSUME NEW s \in Sessions, SetupRecords(s) PROVE DoneInv'
  BY <1>13 DEF SetupRecords, TouchWrites
<1>14. ASSUME NEW s \in Sessions, NEW j \in Jobs, SetupReads(s, j) PROVE DoneInv'
  BY <1>14 DEF SetupReads, TouchReads
<1>15. CASE PublishCrash
  BY <1>15 DEF PublishCrash, LedgerCrash
<1>16. CASE PublishRecover
  BY <1>16 DEF PublishRecover, Recover
<1>17. CASE UNCHANGED publishVars
  BY <1>17 DEF publishVars
<1> QED
  BY <1>1, <1>2, <1>3, <1>4, <1>5, <1>6, <1>7, <1>8, <1>9, <1>10, <1>11, <1>12, <1>13, <1>14, <1>15, <1>16, <1>17 DEF PublishNext, Worker

LEMMA PublishInvHolds == PublishSpec => []PublishInv
<1>1. PublishInit => PublishInv
  BY LedgerAssumption, PublishAssumption
     DEF PublishInit, LedgerInit, PublishInv, Typed, LedgerTypeOK, PublishTypeOK, RowsInv, NoGhost,
         TouchInv, WorkInv, OwnedInv, DoneInv, Finished, Idle, NoJob, Jobs, Active
<1>2. PublishInv /\ [PublishNext]_publishVars => PublishInv'
  BY TypedStep, RowsStep, TouchStep, WorkStep, OwnedStep, DoneStep DEF PublishInv
<1> QED
  BY <1>1, <1>2, PTL DEF PublishSpec

-----------------------------------------------------------------------------
(* Every column, thread and name keeps its type.                           *)
THEOREM PublicationTyped == PublishSpec => []PublishTypeOK
BY PublishInvHolds, PTL DEF PublishInv, Typed

(* A publication or an installation never gets a second worker, though     *)
(* their rows end by threads, requests and the start.                      *)
THEOREM NoDuplicatePublication == PublishSpec => []OneActivePerKey
<1>1. PublishInv => OneActivePerKey
  BY LedgerAssumption DEF PublishInv, RowsInv, OneActivePerKey, Jobs, Active
<1> QED BY <1>1, PublishInvHolds, PTL

(* No publication or installation survives its process as active.          *)
THEOREM NoGhostPublication == PublishSpec => []NoGhost
BY PublishInvHolds, PTL DEF PublishInv, RowsInv

(* A publication called done is on the Hub, whatever attempts followed.    *)
THEOREM DoneStaysPublished == PublishSpec => []DoneIsPublished
<1>1. PublishInv => DoneIsPublished
  BY DEF PublishInv, DoneInv, Finished, DoneIsPublished
<1> QED BY <1>1, PublishInvHolds, PTL

(* A repository of the user is neither written nor removed, unless an      *)
(* attempt had recorded one under its name.                                *)
THEOREM UserRepoIsSafe == PublishSpec => UnrecordedRepoIsSafe
<1> DEFINE Safe == \A r \in Repos :
       repo[r] = "user" /\ (\A j \in Jobs : target[j] = r => phase[j] # "repo_created")
         => repo'[r] = "user"
<1>1. PublishInv /\ [PublishNext]_publishVars => [Safe]_publishVars
  <2> SUFFICES ASSUME PublishInv, PublishNext,  NEW r \in Repos, repo[r] = "user",
                      \A j \in Jobs : target[j] = r => phase[j] # "repo_created"
               PROVE  repo'[r] = "user"
    OBVIOUS
  <2> USE DEF PublishInv, Typed, PublishTypeOK, OwnedInv, hubVars
  <2>1. ASSUME NEW j \in Jobs, Worker(j) PROVE repo'[r] = "user"
    <3>1. CASE CreateRepo(j) BY <3>1 DEF CreateRepo, Hub
    <3>2. CASE Upload(j)     BY <3>2 DEF Upload, Hub
    <3>3. CASE RemoveRepo(j) BY <3>3 DEF RemoveRepo, Hub
    <3> QED
      BY <2>1, <3>1, <3>2, <3>3 DEF Worker, MarkCreated, MarkRemoved, Report, TerminalRow, TerminalFails
  <2>2. ASSUME NEW k \in Repos, UserDeletes(k) \/ UserCreates(k) PROVE repo'[r] = "user"
    BY <2>2 DEF UserDeletes, UserCreates
  <2>3. CASE UNCHANGED repo
    BY <2>3
  <2> QED
    BY <2>1, <2>2, <2>3 DEF PublishNext, StartPublish, SetupStarts, SetupCloses, SetupRecords,
       SetupReads, PublishCrash, PublishRecover
<1> QED BY <1>1, PublishInvHolds, PTL DEF PublishSpec, UnrecordedRepoIsSafe
=============================================================================
