----------------------------- MODULE UpdateProofs -----------------------------
(***************************************************************************)
(* Proofs about Update, for any number of attempts, crashes, failures and  *)
(* edits.                                                                  *)
(*                                                                         *)
(* BaseInv holds however slow a restart helper is: a reset is under way    *)
(* only while the journal names an unfinished update, and begins only when *)
(* git status saw no work.  The revision that serves rests on PromptInv as *)
(* well: whatever the journal lets through to the import is one whole      *)
(* revision.  A waiting helper could break that by launching with the      *)
(* nonce of an update that a quicker process has half rolled back, so      *)
(* PromptInv needs the helper to try before that process ends.             *)
(***************************************************************************)
EXTENDS Update, TLAPS

RolledBack == tree = "old" /\ head = "old"
Merged == tree = "new" /\ head = "new"

(* The attempt that is running has a nonce no process was started with.    *)
CountInv ==
  /\ attempts \in 0 .. MaxUpdates /\ journal.nonce <= attempts
  /\ {proc.nonce, pending} \subseteq (0 .. attempts) \cup {Foreign}
  /\ upd.pc # "idle" => At("up") /\ attempts > 0 /\ proc.nonce # attempts

(* What the checkout and the journal are at each place of apply_update.    *)
UpdaterInv ==
  /\ upd.pc \in {"prepare", "merge"} => RolledBack
  /\ upd.pc \in {"merge", "merging", "installing", "install", "verifying", "verify", "arm"} =>
       journal.state \in {"prepared", "installing_dependencies", "verifying"}
  /\ upd.pc \in {"installing", "install", "verifying", "verify", "arm", "restart"} => Merged
  /\ upd.pc \notin {"idle", "prepare"} =>
       /\ journal.state \in Unfinished /\ ~journal.image
       /\ journal.state = "awaiting_restart" => journal.nonce # proc.nonce
  /\ upd.pc \in {"environment", "clear"} => RolledBack
  /\ upd.pc = "reset" => work # "seen"

(* The same for recover().                                                 *)
RecoveryInv ==
  /\ proc.pc \in {"reset", "resetting", "database", "environment", "cleanup", "clear"} =>
       journal.state \notin {"none", "committed"}
  /\ proc.pc \in {"database", "environment", "cleanup", "clear"} => RolledBack
  /\ proc.pc = "reset" => work # "seen"

BaseInv == UpdateTypeOK /\ CountInv /\ UpdaterInv /\ RecoveryInv

(* One whole revision, ready to be imported.                               *)
Current == tree = head /\ (tree = "new" /\ offer.deps => py = "new")

(* What the journal lets through recover() is such a revision.             *)
JournalInv ==
  /\ journal.state \in {"none", "committed"} => Current
  /\ journal.state = "awaiting_restart" =>
       /\ journal.nonce # None
       /\ At("off") /\ pending = journal.nonce => Current
       /\ At("recover") /\ proc.nonce = journal.nonce => Current

SchemaInv == ~offer.migrates => db = "old" /\ image \in {"none", "old"}

(* From the import on; only a process that runs the old code updates, and  *)
(* it was not started with the nonce the journal waits for.                *)
ServerInv ==
  /\ At("import") => Current
  /\ proc.pc \in {"migrate", "migrating"} =>
       proc.code = "new" /\ offer.migrates /\ db # "new"
  /\ proc.pc \in {"migrate", "migrating", "up"} /\ proc.code = "new" =>
       Merged /\ (offer.deps => py = "new")
  /\ At("up") => proc.code \in Revisions /\ db = Schema(proc.code)
  /\ At("up") /\ proc.code = "old" /\ head = "new" /\ journal.state = "awaiting_restart"
       => journal.nonce # proc.nonce
  /\ upd.pc # "idle" => proc.code = "old"
  /\ upd.pc \in {"verifying", "verify", "arm", "restart"} /\ offer.deps => py = "new"

PromptInv == JournalInv /\ SchemaInv /\ ServerInv

USE UpdateBounds, UpdateTiming DEF None, Foreign, At, Goes, Exits, UpdAt, UpdGoes, Journal,
    FaultLeft, code, installed, bounds

-----------------------------------------------------------------------------
ProcPlaces == {"off", "recover", "reset", "resetting", "database", "environment", "cleanup",
               "clear", "import", "migrate", "migrating", "up"}
UpdPlaces == {"idle", "prepare", "merge", "merging", "installing", "install", "verifying",
              "verify", "arm", "restart", "mark", "status", "reset", "resetting",
              "environment", "clear"}
Marks == {"none", "installing_dependencies", "verifying"}
ProcType == [pc : ProcPlaces, code : Trees, nonce : 0 .. Foreign]
UpdType == [pc : UpdPlaces, env : States, before : Marks]
JournalType == [state : Unfinished \cup {"none", "committed"}, nonce : 0 .. MaxUpdates,
                image : BOOLEAN, env : States]

LEMMA TypeParts ==
  UpdateTypeOK <=>
    /\ offer \in [deps : BOOLEAN, migrates : BOOLEAN, files : BOOLEAN]
    /\ head \in Revisions /\ tree \in Trees /\ locked \in BOOLEAN /\ work \in {"none", "seen", "unseen"}
    /\ py \in States /\ db \in States /\ image \in {"none"} \cup States
    /\ journal \in JournalType /\ proc \in ProcType /\ upd \in UpdType
    /\ pending \in 0 .. Foreign
    /\ journal.image => journal.state \in {"awaiting_restart", "committed"}
BY DEF UpdateTypeOK, JournalType, ProcType, UpdType, ProcPlaces, UpdPlaces, Marks

LEMMA TypePartsNext ==
  ASSUME offer' \in [deps : BOOLEAN, migrates : BOOLEAN, files : BOOLEAN],
         head' \in Revisions, tree' \in Trees, locked' \in BOOLEAN, work' \in {"none", "seen", "unseen"},
         py' \in States, db' \in States, image' \in {"none"} \cup States,
         journal' \in JournalType, proc' \in ProcType, upd' \in UpdType,
         pending' \in 0 .. Foreign,
         journal'.image => journal'.state \in {"awaiting_restart", "committed"}
  PROVE  UpdateTypeOK'
BY DEF UpdateTypeOK, JournalType, ProcType, UpdType, ProcPlaces, UpdPlaces, Marks

(* What the three records are after a step of their process.               *)
LEMMA NewRecords ==
  Off \in ProcType /\ Idle \in UpdType /\ NoJournal \in JournalType /\ ~NoJournal.image
BY DEF Off, Idle, NoJournal, ProcType, ProcPlaces, UpdType, UpdPlaces, Marks, JournalType, States, Trees

LEMMA ProcGoes ==
  ASSUME NEW p \in ProcType, NEW to \in ProcPlaces
  PROVE  [p EXCEPT !.pc = to] \in ProcType
BY DEF ProcType, ProcPlaces

LEMMA ProcLaunched ==
  ASSUME NEW p \in ProcType, NEW n \in 0 .. Foreign
  PROVE  [p EXCEPT !.pc = "recover", !.nonce = n] \in ProcType
BY DEF ProcType, ProcPlaces

LEMMA ProcImports ==
  ASSUME NEW p \in ProcType, NEW c \in Trees, NEW to \in {"migrate", "up"}
  PROVE  [p EXCEPT !.code = c, !.pc = to] \in ProcType
BY DEF ProcType, ProcPlaces

LEMMA UpdateGoes ==
  ASSUME NEW u \in UpdType, NEW to \in UpdPlaces
  PROVE  [u EXCEPT !.pc = to] \in UpdType
BY DEF UpdType, UpdPlaces

LEMMA UpdateStarts ==
  ASSUME NEW u \in UpdType, NEW e \in States
  PROVE  [u EXCEPT !.pc = "prepare", !.env = e] \in UpdType
BY DEF UpdType, UpdPlaces

LEMMA RollbackBegins ==
  ASSUME NEW u \in UpdType, NEW b \in Marks
  PROVE  /\ [u EXCEPT !.pc = "mark", !.before = b] \in UpdType
         /\ [u EXCEPT !.pc = "mark", !.before = b].pc = "mark"
BY DEF UpdType, UpdPlaces

LEMMA JournalFields ==
  ASSUME NEW j \in JournalType, NEW s \in Unfinished \cup {"committed"}
  PROVE  /\ [j EXCEPT !.state = s] \in JournalType
         /\ [j EXCEPT !.state = s].state = s /\ [j EXCEPT !.state = s].image = j.image
BY DEF JournalType, States, Unfinished

LEMMA JournalEntry ==
  ASSUME NEW j \in JournalType, NEW e \in States
  PROVE  /\ [j EXCEPT !.state = "prepared", !.env = e] \in JournalType
         /\ [j EXCEPT !.state = "prepared", !.env = e].image = j.image
BY DEF JournalType, States, Unfinished

LEMMA JournalArmed ==
  ASSUME NEW j \in JournalType, NEW n \in 0 .. MaxUpdates
  PROVE  /\ [j EXCEPT !.state = "awaiting_restart", !.nonce = n] \in JournalType
         /\ [j EXCEPT !.state = "awaiting_restart", !.nonce = n].state = "awaiting_restart"
BY DEF JournalType, States, Unfinished

LEMMA JournalNamesImage ==
  ASSUME NEW j \in JournalType
  PROVE  /\ [j EXCEPT !.image = TRUE] \in JournalType
         /\ [j EXCEPT !.image = TRUE].state = j.state
BY DEF JournalType, States, Unfinished

(* A lock that git may leave.                                              *)
LEMMA BoolStays ==
  ASSUME NEW b \in BOOLEAN, NEW c, c \in {b, TRUE} \/ c = b
  PROVE  c \in BOOLEAN
BY Zenon

(* What an import, the first entry in the journal and the arming change.   *)
LEMMA ImportEffect ==
  ASSUME proc \in ProcType, Imports
  PROVE  \/ Exits
         \/ /\ proc'.code = tree /\ proc'.nonce = proc.nonce /\ proc'.pc \in {"migrate", "up"}
            /\ proc'.pc = "up" <=> db = Schema(tree)
            /\ ~(tree = "old" /\ db # "old")
BY DEF Imports, ProcType

LEMMA PrepareEffect ==
  ASSUME upd \in UpdType, Prepare
  PROVE  \/ /\ journal'.state = "prepared" /\ journal'.nonce = None /\ ~journal'.image
            /\ journal'.env = upd.env /\ upd' \in {[upd EXCEPT !.pc = "merge"], Idle}
         \/ journal' = journal /\ upd' = Idle
BY DEF Prepare, Prepared, NoJournal, UpdType

LEMMA ArmEffect ==
  ASSUME journal \in JournalType, upd \in UpdType, Arm
  PROVE  /\ upd'.pc \in {"restart", "mark"}
         /\ \/ journal' = journal /\ upd'.pc = "mark"
            \/ /\ journal'.state = "awaiting_restart" /\ journal'.nonce = attempts
               /\ journal'.image = journal.image
BY RollbackBegins DEF Arm, Armed, RollsBack, Marks, JournalType, UpdType, Unfinished
-----------------------------------------------------------------------------
(* BaseInv is inductive.                                                   *)
LEMMA TypeStep ==
  ASSUME BaseInv, [UpdateNext]_vars
  PROVE  UpdateTypeOK'
<1> USE DEF Revisions, States, Trees
<1>a. /\ offer \in [deps : BOOLEAN, migrates : BOOLEAN, files : BOOLEAN]
      /\ head \in Revisions /\ tree \in Trees /\ locked \in BOOLEAN /\ work \in {"none", "seen", "unseen"}
      /\ py \in States /\ db \in States /\ image \in {"none"} \cup States
      /\ journal \in JournalType /\ proc \in ProcType /\ upd \in UpdType
      /\ pending \in 0 .. Foreign
      /\ journal.image => journal.state \in {"awaiting_restart", "committed"}
  BY TypeParts DEF BaseInv
<1>b. /\ upd.env \in States /\ journal.nonce \in 0 .. Foreign /\ proc.nonce \in 0 .. Foreign
      /\ attempts \in 0 .. MaxUpdates
  BY <1>a DEF BaseInv, CountInv, UpdType, JournalType, ProcType
<1>c. upd.pc \notin {"idle", "prepare"} => ~journal.image
  BY DEF BaseInv, UpdaterInv
<1> USE <1>a, <1>b, <1>c, NewRecords
<1>1. CASE UserLaunches
  <2>1. proc' \in ProcType
    BY <1>1, ProcGoes DEF UserLaunches, ProcPlaces
  <2> QED BY <1>1, <2>1, TypePartsNext DEF UserLaunches
<1>2. CASE HelperLaunches
  <2>1. proc' \in ProcType
    BY <1>2, ProcLaunched DEF HelperLaunches, ProcPlaces
  <2> QED BY <1>2, <2>1, TypePartsNext DEF HelperLaunches
<1>3. CASE RecoverLeaves
  <2>1. proc' \in ProcType
    BY <1>3, ProcGoes DEF RecoverLeaves, Leaves, ProcPlaces
  <2> QED BY <1>3, <2>1, TypePartsNext DEF RecoverLeaves, Leaves
<1>4. CASE RecoverChecks
  <2>1. proc' \in ProcType
    BY <1>4, ProcGoes DEF RecoverChecks, Leaves, Looks, Own, ProcPlaces
  <2> QED BY <1>4, <2>1, TypePartsNext DEF RecoverChecks, Leaves, Looks, Own
<1>5. CASE RecoverResets
  <2>1. proc' \in ProcType
    BY <1>5, ProcGoes DEF RecoverResets, ResetFiles, ResetHead, HalfWay, ProcPlaces
  <2> QED BY <1>5, <2>1, TypePartsNext DEF RecoverResets, ResetFiles, ResetHead, HalfWay
<1>6. CASE RestoreDatabase
  <2>1. proc' \in ProcType
    BY <1>6, ProcGoes DEF RestoreDatabase, ProcPlaces
  <2> QED BY <1>6, <2>1, TypePartsNext DEF RestoreDatabase
<1>7. CASE RestoreEnvironment
  <2>1. proc' \in ProcType /\ py' \in States
    <3>1. CASE journal.state \in EnvironmentTouched /\ offer.deps
      <4>1. journal.env \in States
        BY DEF JournalType
      <4> QED BY <1>7, <3>1, <4>1, ProcGoes DEF RestoreEnvironment, Installs, InstallFails, ProcPlaces
    <3>2. CASE ~(journal.state \in EnvironmentTouched /\ offer.deps)
      BY <1>7, <3>2, ProcGoes DEF RestoreEnvironment, ProcPlaces
    <3> QED BY <3>1, <3>2
  <2> QED BY <1>7, <2>1, TypePartsNext DEF RestoreEnvironment
<1>8. CASE RecoverCleansUp
  <2>1. proc' \in ProcType
    BY <1>8, ProcGoes DEF RecoverCleansUp, ProcPlaces
  <2> QED BY <1>8, <2>1, TypePartsNext DEF RecoverCleansUp
<1>9. CASE Imports
  <2>1. proc' \in ProcType
    <3>1. CASE db # Schema(tree)
      BY <1>9, <3>1, ProcImports DEF Imports, ProcPlaces
    <3>2. CASE db = Schema(tree)
      BY <1>9, <3>2, ProcImports DEF Imports, ProcPlaces
    <3> QED BY <3>1, <3>2
  <2> QED BY <1>9, <2>1, TypePartsNext DEF Imports
<1>10. CASE BootFails
  <2>1. proc' \in ProcType
    BY <1>10, ProcGoes DEF BootFails, ProcPlaces
  <2> QED BY <1>10, <2>1, TypePartsNext DEF BootFails
<1>11. CASE RecordImage
  <2>1. proc' \in ProcType
    BY <1>11, ProcGoes DEF RecordImage, ProcPlaces
  <2>2. /\ journal' \in JournalType
        /\ journal'.image => journal'.state \in {"awaiting_restart", "committed"}
    BY <1>11, JournalNamesImage DEF RecordImage, Unfinished
  <2> QED BY <1>11, <2>1, <2>2, TypePartsNext DEF RecordImage
<1>12. CASE Migrates
  <2>1. proc' \in ProcType
    BY <1>12, ProcGoes DEF Migrates, ProcPlaces
  <2> QED BY <1>12, <2>1, TypePartsNext DEF Migrates
<1>13. CASE Acknowledges
  <2>1. /\ journal' \in JournalType
        /\ journal'.image => journal'.state \in {"awaiting_restart", "committed"}
    BY <1>13, JournalFields DEF Acknowledges, Unfinished
  <2> QED BY <1>13, <2>1, TypePartsNext DEF Acknowledges
<1>14. CASE DeadlinePasses
  BY <1>14, TypePartsNext DEF DeadlinePasses
<1>15. CASE ApplyUpdate
  <2>1. upd' \in UpdType
    BY <1>15, UpdateStarts DEF ApplyUpdate, UpdPlaces, Marks
  <2> QED BY <1>15, <2>1, TypePartsNext DEF ApplyUpdate
<1>16. CASE Prepare
  <2>1. /\ [NoJournal EXCEPT !.state = "prepared", !.env = upd.env] \in JournalType
        /\ ~[NoJournal EXCEPT !.state = "prepared", !.env = upd.env].image
    BY JournalEntry
  <2>2. upd' \in UpdType
    BY <1>16, UpdateGoes DEF Prepare, UpdPlaces, Marks
  <2>3. journal' = journal \/ (journal' \in JournalType /\ ~journal'.image)
    BY <1>16, <2>1 DEF Prepare, Prepared
  <2> QED BY <1>16, <2>2, <2>3, TypePartsNext DEF Prepare
<1>17. CASE Merges
  <2>1. \A b \in Marks : RollsBack(b) => upd' \in UpdType
    BY RollbackBegins DEF RollsBack
  <2>2. upd' \in UpdType
    BY <1>17, <2>1, UpdateGoes DEF Merges, HalfWay, MayLock, UpdPlaces, Marks
  <2>3. locked' \in BOOLEAN
    BY <1>17, BoolStays DEF Merges, MayLock
  <2>4. tree' \in Trees /\ head' \in Revisions
    BY <1>17 DEF Merges, HalfWay
  <2> QED BY <1>17, <2>2, <2>3, <2>4, TypePartsNext DEF Merges
<1>18. CASE AnnounceInstall
  <2>1. \A b \in Marks : RollsBack(b) => upd' \in UpdType
    BY RollbackBegins DEF RollsBack
  <2>2. upd' \in UpdType
    BY <1>18, <2>1, UpdateGoes DEF AnnounceInstall, Announce, UpdPlaces, Marks
  <2>3. /\ journal' \in JournalType
        /\ journal'.image => journal'.state \in {"awaiting_restart", "committed"}
    BY <1>18 DEF AnnounceInstall, Announce, JournalType, Unfinished
  <2> QED BY <1>18, <2>1, <2>2, <2>3, TypePartsNext DEF AnnounceInstall, Announce
<1>19. CASE AnnounceVerify
  <2>1. \A b \in Marks : RollsBack(b) => upd' \in UpdType
    BY RollbackBegins DEF RollsBack
  <2>2. upd' \in UpdType
    BY <1>19, <2>1, UpdateGoes DEF AnnounceVerify, Announce, UpdPlaces, Marks
  <2>3. /\ journal' \in JournalType
        /\ journal'.image => journal'.state \in {"awaiting_restart", "committed"}
    BY <1>19 DEF AnnounceVerify, Announce, JournalType, Unfinished
  <2> QED BY <1>19, <2>1, <2>2, <2>3, TypePartsNext DEF AnnounceVerify, Announce
<1>20. CASE Install
  <2>1. \A b \in Marks : RollsBack(b) => upd' \in UpdType
    BY RollbackBegins DEF RollsBack
  <2>2. upd' \in UpdType
    BY <1>20, <2>1, UpdateGoes DEF Install, Installs, InstallFails, UpdPlaces, Marks
  <2> QED BY <1>20, <2>1, <2>2, TypePartsNext DEF Install, Installs, InstallFails
<1>21. CASE Verify
  <2>1. \A b \in Marks : RollsBack(b) => upd' \in UpdType
    BY RollbackBegins DEF RollsBack
  <2>2. upd' \in UpdType
    BY <1>21, <2>1, UpdateGoes DEF Verify, UpdPlaces, Marks
  <2> QED BY <1>21, <2>1, <2>2, TypePartsNext DEF Verify
<1>22. CASE Arm
  <2>1. \A b \in Marks : RollsBack(b) => upd' \in UpdType
    BY RollbackBegins DEF RollsBack
  <2>2. upd' \in UpdType
    BY <1>22, <2>1, UpdateGoes DEF Arm, Armed, UpdPlaces, Marks
  <2>3. /\ journal' \in JournalType
        /\ journal'.image => journal'.state \in {"awaiting_restart", "committed"}
    BY <1>22 DEF Arm, Armed, JournalType, Unfinished
  <2> QED BY <1>22, <2>1, <2>2, <2>3, TypePartsNext DEF Arm, Armed
<1>23. CASE HandOver
  <2>1. upd' \in UpdType
    BY <1>23, UpdateGoes DEF HandOver, UpdPlaces, Marks
  <2> QED BY <1>23, <2>1, TypePartsNext DEF HandOver
<1>24. CASE MarkRollback
  <2>1. upd' \in UpdType
    BY <1>24, UpdateGoes DEF MarkRollback, Notes, UpdPlaces, Marks
  <2>2. /\ journal' \in JournalType
        /\ journal'.image => journal'.state \in {"awaiting_restart", "committed"}
    BY <1>24 DEF MarkRollback, Notes, JournalType, Unfinished
  <2> QED BY <1>24, <2>1, <2>2, TypePartsNext DEF MarkRollback, Notes
<1>25. CASE RollbackChecks
  <2>1. upd' \in UpdType
    BY <1>25, UpdateGoes DEF RollbackChecks, Notes, Looks, UpdPlaces, Marks
  <2>2. /\ journal' \in JournalType
        /\ journal'.image => journal'.state \in {"awaiting_restart", "committed"}
    BY <1>25 DEF RollbackChecks, Notes, Looks, JournalType, Unfinished
  <2> QED BY <1>25, <2>1, <2>2, TypePartsNext DEF RollbackChecks, Notes, Looks
<1>26. CASE RollbackResets
  <2>1. upd' \in UpdType
    BY <1>26, UpdateGoes DEF RollbackResets, ResetFiles, ResetHead, HalfWay, UpdPlaces, Marks
  <2> QED BY <1>26, <2>1, TypePartsNext DEF RollbackResets, ResetFiles, ResetHead, HalfWay
<1>27. CASE RollbackCannotReset
  <2>1. upd' \in UpdType
    BY <1>27, UpdateGoes DEF RollbackCannotReset, Notes, MayLock, UpdPlaces, Marks
  <2>2. /\ journal' \in JournalType
        /\ journal'.image => journal'.state \in {"awaiting_restart", "committed"}
    BY <1>27 DEF RollbackCannotReset, Notes, MayLock, JournalType, Unfinished
  <2>3. locked' \in BOOLEAN
    BY <1>27, BoolStays DEF RollbackCannotReset, MayLock
  <2> QED BY <1>27, <2>1, <2>2, <2>3, TypePartsNext DEF RollbackCannotReset
<1>28. CASE RollbackEnds
  <2>1. upd' \in UpdType
    BY <1>28, UpdateGoes DEF RollbackEnds, UpdPlaces, Marks
  <2> QED BY <1>28, <2>1, TypePartsNext DEF RollbackEnds
<1>29. CASE RollbackRestores
  <2>1. upd' \in UpdType
    BY <1>29, UpdateGoes DEF RollbackRestores, Installs, InstallFails, UpdPlaces, Marks
  <2>2. /\ journal' \in JournalType
        /\ journal'.image => journal'.state \in {"awaiting_restart", "committed"}
    BY <1>29 DEF RollbackRestores, Installs, InstallFails, JournalType, Unfinished
  <2> QED BY <1>29, <2>1, <2>2, TypePartsNext DEF RollbackRestores, Installs, InstallFails
<1>30. CASE UserEdits
  BY <1>30, TypePartsNext DEF UserEdits, Unseen
<1>31. CASE UserCleans
  BY <1>31, TypePartsNext DEF UserCleans
<1>32. CASE UserRestarts
  BY <1>32, TypePartsNext DEF UserRestarts
<1>33. CASE UserCloses
  BY <1>33, TypePartsNext DEF UserCloses
<1>34. CASE Crash
  <2>1. locked' \in BOOLEAN
    BY <1>34, BoolStays DEF Crash, MayLock
  <2> QED BY <1>34, <2>1, TypePartsNext DEF Crash
<1>36. CASE RecoverCannotReset
  <2>1. locked' \in BOOLEAN
    BY <1>36, BoolStays DEF RecoverCannotReset, MayLock
  <2> QED BY <1>36, <2>1, TypePartsNext DEF RecoverCannotReset
<1>37. CASE UserTidies
  <2>1. tree' \in Trees
    BY <1>37 DEF UserTidies
  <2> QED BY <1>37, <2>1, TypePartsNext DEF UserTidies
<1>35. CASE UNCHANGED vars
  BY <1>35, TypePartsNext DEF vars
<1> QED
  BY <1>1, <1>2, <1>3, <1>4, <1>5, <1>6, <1>7, <1>8, <1>9, <1>10, <1>11, <1>12,
     <1>13, <1>14, <1>15, <1>16, <1>17, <1>18, <1>19, <1>20, <1>21, <1>22, <1>23, <1>24,
     <1>25, <1>26, <1>27, <1>28, <1>29, <1>30, <1>31, <1>32, <1>33, <1>34, <1>35,
     <1>36, <1>37
     DEF UpdateNext, Recover, Boot, Apply, Rollback, User

LEMMA CountStep ==
  ASSUME BaseInv, [UpdateNext]_vars
  PROVE  CountInv'
<1> USE DEF BaseInv, UpdateTypeOK, CountInv, States, Trees, Off, Idle, NoJournal, Unfinished
<1>1. CASE UserLaunches
  BY <1>1 DEF UserLaunches
<1>2. CASE HelperLaunches
  BY <1>2 DEF HelperLaunches
<1>3. CASE RecoverLeaves
  BY <1>3 DEF RecoverLeaves, Leaves
<1>4. CASE RecoverChecks
  BY <1>4 DEF RecoverChecks, Leaves, Looks, Own
<1>5. CASE RecoverResets
  BY <1>5 DEF RecoverResets, ResetFiles, ResetHead, HalfWay
<1>6. CASE RestoreDatabase
  BY <1>6 DEF RestoreDatabase
<1>7. CASE RestoreEnvironment
  BY <1>7 DEF RestoreEnvironment, Installs, InstallFails
<1>8. CASE RecoverCleansUp
  BY <1>8 DEF RecoverCleansUp
<1>9. CASE Imports
  <2>1. proc \in ProcType
    BY TypeParts
  <2> QED BY <1>9, <2>1, ImportEffect DEF Imports, Mismatched
<1>10. CASE BootFails
  BY <1>10 DEF BootFails
<1>11. CASE RecordImage
  BY <1>11 DEF RecordImage
<1>12. CASE Migrates
  BY <1>12 DEF Migrates
<1>13. CASE Acknowledges
  BY <1>13 DEF Acknowledges
<1>14. CASE DeadlinePasses
  BY <1>14 DEF DeadlinePasses
<1>15. CASE ApplyUpdate
  BY <1>15 DEF ApplyUpdate
<1>16. CASE Prepare
  <2>1. upd \in UpdType
    BY TypeParts
  <2> QED BY <1>16, <2>1, PrepareEffect DEF Prepare
<1>17. CASE Merges
  <2>1. upd \in UpdType
    BY TypeParts
  <2>2. \A b \in Marks : RollsBack(b) => upd'.pc = "mark"
    BY <2>1, RollbackBegins DEF RollsBack
  <2> QED BY <1>17, <2>2 DEF Merges, HalfWay, MayLock, Marks
<1>18. CASE AnnounceInstall
  <2>1. upd \in UpdType
    BY TypeParts
  <2>2. \A b \in Marks : RollsBack(b) => upd'.pc = "mark"
    BY <2>1, RollbackBegins DEF RollsBack
  <2> QED BY <1>18, <2>2 DEF AnnounceInstall, Announce, Marks
<1>19. CASE AnnounceVerify
  <2>1. upd \in UpdType
    BY TypeParts
  <2>2. \A b \in Marks : RollsBack(b) => upd'.pc = "mark"
    BY <2>1, RollbackBegins DEF RollsBack
  <2> QED BY <1>19, <2>2 DEF AnnounceVerify, Announce, Marks
<1>20. CASE Install
  <2>1. upd \in UpdType
    BY TypeParts
  <2>2. \A b \in Marks : RollsBack(b) => upd'.pc = "mark"
    BY <2>1, RollbackBegins DEF RollsBack
  <2> QED BY <1>20, <2>2 DEF Install, Installs, InstallFails, Marks
<1>21. CASE Verify
  <2>1. upd \in UpdType
    BY TypeParts
  <2>2. \A b \in Marks : RollsBack(b) => upd'.pc = "mark"
    BY <2>1, RollbackBegins DEF RollsBack
  <2> QED BY <1>21, <2>2 DEF Verify, Marks
<1>22. CASE Arm
  <2>1. journal \in JournalType /\ upd \in UpdType
    BY TypeParts
  <2> QED BY <1>22, <2>1, ArmEffect DEF Arm
<1>23. CASE HandOver
  BY <1>23 DEF HandOver
<1>24. CASE MarkRollback
  BY <1>24 DEF MarkRollback, Notes
<1>25. CASE RollbackChecks
  BY <1>25 DEF RollbackChecks, Notes, Looks
<1>26. CASE RollbackResets
  BY <1>26 DEF RollbackResets, ResetFiles, ResetHead, HalfWay
<1>27. CASE RollbackCannotReset
  BY <1>27 DEF RollbackCannotReset, Notes, MayLock
<1>28. CASE RollbackEnds
  BY <1>28 DEF RollbackEnds
<1>29. CASE RollbackRestores
  BY <1>29 DEF RollbackRestores, Installs, InstallFails
<1>30. CASE UserEdits
  BY <1>30 DEF UserEdits, Unseen
<1>31. CASE UserCleans
  BY <1>31 DEF UserCleans
<1>32. CASE UserRestarts
  BY <1>32 DEF UserRestarts
<1>33. CASE UserCloses
  BY <1>33 DEF UserCloses
<1>34. CASE Crash
  BY <1>34 DEF Crash, MayLock
<1>36. CASE RecoverCannotReset
  <2>1. /\ proc' = Off /\ UNCHANGED <<journal, upd, pending, attempts>>
        /\ proc.pc \in {"reset", "recover", "resetting"}
    BY <1>36 DEF RecoverCannotReset
  <2>2. upd.pc = "idle"
    BY <2>1
  <2> QED BY <2>1, <2>2
<1>37. CASE UserTidies
  BY <1>37 DEF UserTidies
<1>35. CASE UNCHANGED vars
  BY <1>35 DEF vars
<1> QED
  BY <1>1, <1>2, <1>3, <1>4, <1>5, <1>6, <1>7, <1>8, <1>9, <1>10, <1>11, <1>12,
     <1>13, <1>14, <1>15, <1>16, <1>17, <1>18, <1>19, <1>20, <1>21, <1>22, <1>23, <1>24,
     <1>25, <1>26, <1>27, <1>28, <1>29, <1>30, <1>31, <1>32, <1>33, <1>34, <1>35,
     <1>36, <1>37
     DEF UpdateNext, Recover, Boot, Apply, Rollback, User

LEMMA UpdaterStep ==
  ASSUME BaseInv, [UpdateNext]_vars
  PROVE  UpdaterInv'
<1> USE DEF BaseInv, UpdateTypeOK, CountInv, UpdaterInv, RolledBack, Merged, States, Trees,
       Revisions, Off, Idle, NoJournal, Unfinished
<1>1. CASE UserLaunches
  BY <1>1 DEF UserLaunches
<1>2. CASE HelperLaunches
  BY <1>2 DEF HelperLaunches
<1>3. CASE RecoverLeaves
  BY <1>3 DEF RecoverLeaves, Leaves
<1>4. CASE RecoverChecks
  BY <1>4 DEF RecoverChecks, Leaves, Looks, Own
<1>5. CASE RecoverResets
  BY <1>5 DEF RecoverResets, ResetFiles, ResetHead, HalfWay
<1>6. CASE RestoreDatabase
  BY <1>6 DEF RestoreDatabase
<1>7. CASE RestoreEnvironment
  BY <1>7 DEF RestoreEnvironment, Installs, InstallFails
<1>8. CASE RecoverCleansUp
  BY <1>8 DEF RecoverCleansUp
<1>9. CASE Imports
  BY <1>9 DEF Imports
<1>10. CASE BootFails
  BY <1>10 DEF BootFails
<1>11. CASE RecordImage
  BY <1>11 DEF RecordImage
<1>12. CASE Migrates
  BY <1>12 DEF Migrates
<1>13. CASE Acknowledges
  BY <1>13 DEF Acknowledges
<1>14. CASE DeadlinePasses
  BY <1>14 DEF DeadlinePasses
<1>15. CASE ApplyUpdate
  BY <1>15 DEF ApplyUpdate
<1>16. CASE Prepare
  <2>1. upd \in UpdType
    BY TypeParts
  <2> QED BY <1>16, <2>1, PrepareEffect DEF Prepare
<1>17. CASE Merges
  <2>1. upd \in UpdType
    BY TypeParts
  <2>2. \A b \in Marks : RollsBack(b) => upd'.pc = "mark"
    BY <2>1, RollbackBegins DEF RollsBack
  <2> QED BY <1>17, <2>2 DEF Merges, HalfWay, MayLock, Marks
<1>18. CASE AnnounceInstall
  <2>1. upd \in UpdType
    BY TypeParts
  <2>2. \A b \in Marks : RollsBack(b) => upd'.pc = "mark"
    BY <2>1, RollbackBegins DEF RollsBack
  <2> QED BY <1>18, <2>2 DEF AnnounceInstall, Announce, Marks
<1>19. CASE AnnounceVerify
  <2>1. upd \in UpdType
    BY TypeParts
  <2>2. \A b \in Marks : RollsBack(b) => upd'.pc = "mark"
    BY <2>1, RollbackBegins DEF RollsBack
  <2> QED BY <1>19, <2>2 DEF AnnounceVerify, Announce, Marks
<1>20. CASE Install
  <2>1. upd \in UpdType
    BY TypeParts
  <2>2. \A b \in Marks : RollsBack(b) => upd'.pc = "mark"
    BY <2>1, RollbackBegins DEF RollsBack
  <2> QED BY <1>20, <2>2 DEF Install, Installs, InstallFails, Marks
<1>21. CASE Verify
  <2>1. upd \in UpdType
    BY TypeParts
  <2>2. \A b \in Marks : RollsBack(b) => upd'.pc = "mark"
    BY <2>1, RollbackBegins DEF RollsBack
  <2> QED BY <1>21, <2>2 DEF Verify, Marks
<1>22. CASE Arm
  <2>1. journal \in JournalType /\ upd \in UpdType
    BY TypeParts
  <2> QED BY <1>22, <2>1, ArmEffect DEF Arm
<1>23. CASE HandOver
  BY <1>23 DEF HandOver
<1>24. CASE MarkRollback
  BY <1>24 DEF MarkRollback, Notes
<1>25. CASE RollbackChecks
  BY <1>25 DEF RollbackChecks, Notes, Looks
<1>26. CASE RollbackResets
  BY <1>26 DEF RollbackResets, ResetFiles, ResetHead, HalfWay
<1>27. CASE RollbackCannotReset
  BY <1>27 DEF RollbackCannotReset, Notes, MayLock
<1>28. CASE RollbackEnds
  BY <1>28 DEF RollbackEnds
<1>29. CASE RollbackRestores
  BY <1>29 DEF RollbackRestores, Installs, InstallFails
<1>30. CASE UserEdits
  BY <1>30 DEF UserEdits, Unseen
<1>31. CASE UserCleans
  BY <1>31 DEF UserCleans
<1>32. CASE UserRestarts
  BY <1>32 DEF UserRestarts
<1>33. CASE UserCloses
  BY <1>33 DEF UserCloses
<1>34. CASE Crash
  BY <1>34 DEF Crash, MayLock
<1>36. CASE RecoverCannotReset
  BY <1>36 DEF RecoverCannotReset, MayLock
<1>37. CASE UserTidies
  BY <1>37 DEF UserTidies
<1>35. CASE UNCHANGED vars
  BY <1>35 DEF vars
<1> QED
  BY <1>1, <1>2, <1>3, <1>4, <1>5, <1>6, <1>7, <1>8, <1>9, <1>10, <1>11, <1>12,
     <1>13, <1>14, <1>15, <1>16, <1>17, <1>18, <1>19, <1>20, <1>21, <1>22, <1>23, <1>24,
     <1>25, <1>26, <1>27, <1>28, <1>29, <1>30, <1>31, <1>32, <1>33, <1>34, <1>35,
     <1>36, <1>37
     DEF UpdateNext, Recover, Boot, Apply, Rollback, User

LEMMA RecoveryStep ==
  ASSUME BaseInv, [UpdateNext]_vars
  PROVE  RecoveryInv'
<1> USE DEF BaseInv, UpdateTypeOK, CountInv, RecoveryInv, RolledBack, States, Trees, Revisions,
       Off, Idle, NoJournal, Unfinished
<1>1. CASE UserLaunches
  BY <1>1 DEF UserLaunches
<1>2. CASE HelperLaunches
  BY <1>2 DEF HelperLaunches
<1>3. CASE RecoverLeaves
  BY <1>3 DEF RecoverLeaves, Leaves
<1>4. CASE RecoverChecks
  BY <1>4 DEF RecoverChecks, Leaves, Looks, Own
<1>5. CASE RecoverResets
  BY <1>5 DEF RecoverResets, ResetFiles, ResetHead, HalfWay
<1>6. CASE RestoreDatabase
  BY <1>6 DEF RestoreDatabase
<1>7. CASE RestoreEnvironment
  BY <1>7 DEF RestoreEnvironment, Installs, InstallFails
<1>8. CASE RecoverCleansUp
  BY <1>8 DEF RecoverCleansUp
<1>9. CASE Imports
  <2>1. proc \in ProcType
    BY TypeParts
  <2> QED BY <1>9, <2>1, ImportEffect DEF Imports, Mismatched
<1>10. CASE BootFails
  BY <1>10 DEF BootFails
<1>11. CASE RecordImage
  BY <1>11 DEF RecordImage
<1>12. CASE Migrates
  BY <1>12 DEF Migrates
<1>13. CASE Acknowledges
  BY <1>13 DEF Acknowledges
<1>14. CASE DeadlinePasses
  BY <1>14 DEF DeadlinePasses
<1>15. CASE ApplyUpdate
  BY <1>15 DEF ApplyUpdate
<1>16. CASE Prepare
  BY <1>16 DEF Prepare, Prepared
<1>17. CASE Merges
  BY <1>17 DEF Merges, HalfWay, MayLock
<1>18. CASE AnnounceInstall
  BY <1>18 DEF AnnounceInstall, Announce
<1>19. CASE AnnounceVerify
  BY <1>19 DEF AnnounceVerify, Announce
<1>20. CASE Install
  BY <1>20 DEF Install, Installs, InstallFails
<1>21. CASE Verify
  BY <1>21 DEF Verify
<1>22. CASE Arm
  BY <1>22 DEF Arm, Armed
<1>23. CASE HandOver
  BY <1>23 DEF HandOver
<1>24. CASE MarkRollback
  BY <1>24 DEF MarkRollback, Notes
<1>25. CASE RollbackChecks
  BY <1>25 DEF RollbackChecks, Notes, Looks
<1>26. CASE RollbackResets
  BY <1>26 DEF RollbackResets, ResetFiles, ResetHead, HalfWay
<1>27. CASE RollbackCannotReset
  BY <1>27 DEF RollbackCannotReset, Notes, MayLock
<1>28. CASE RollbackEnds
  BY <1>28 DEF RollbackEnds
<1>29. CASE RollbackRestores
  BY <1>29 DEF RollbackRestores, Installs, InstallFails
<1>30. CASE UserEdits
  BY <1>30 DEF UserEdits, Unseen
<1>31. CASE UserCleans
  BY <1>31 DEF UserCleans
<1>32. CASE UserRestarts
  BY <1>32 DEF UserRestarts
<1>33. CASE UserCloses
  BY <1>33 DEF UserCloses
<1>34. CASE Crash
  BY <1>34 DEF Crash, MayLock
<1>36. CASE RecoverCannotReset
  BY <1>36 DEF RecoverCannotReset, MayLock
<1>37. CASE UserTidies
  BY <1>37 DEF UserTidies
<1>35. CASE UNCHANGED vars
  BY <1>35 DEF vars
<1> QED
  BY <1>1, <1>2, <1>3, <1>4, <1>5, <1>6, <1>7, <1>8, <1>9, <1>10, <1>11, <1>12,
     <1>13, <1>14, <1>15, <1>16, <1>17, <1>18, <1>19, <1>20, <1>21, <1>22, <1>23, <1>24,
     <1>25, <1>26, <1>27, <1>28, <1>29, <1>30, <1>31, <1>32, <1>33, <1>34, <1>35,
     <1>36, <1>37
     DEF UpdateNext, Recover, Boot, Apply, Rollback, User

-----------------------------------------------------------------------------
(* So is PromptInv beside it.                                              *)
LEMMA JournalStep ==
  ASSUME PromptHelper, BaseInv, PromptInv, [UpdateNext]_vars
  PROVE  JournalInv'
<1> USE DEF BaseInv, UpdateTypeOK, PromptInv, JournalInv, Current, States, Trees, Revisions, Off,
       Idle, NoJournal, Unfinished
<1>1. CASE UserLaunches
  BY <1>1 DEF UserLaunches
<1>2. CASE HelperLaunches
  BY <1>2 DEF HelperLaunches
<1>3. CASE RecoverLeaves
  BY <1>3 DEF RecoverLeaves, Leaves
<1>4. CASE RecoverChecks
  BY <1>4 DEF RecoverChecks, Leaves, Looks, Own
<1>5. CASE RecoverResets
  BY <1>5 DEF RecoverResets, ResetFiles, ResetHead, HalfWay, RecoveryInv
<1>6. CASE RestoreDatabase
  BY <1>6 DEF RestoreDatabase
<1>7. CASE RestoreEnvironment
  BY <1>7 DEF RestoreEnvironment, Installs, InstallFails, RecoveryInv
<1>8. CASE RecoverCleansUp
  BY <1>8 DEF RecoverCleansUp, RecoveryInv, RolledBack
<1>9. CASE Imports
  <2>1. proc \in ProcType
    BY TypeParts
  <2> QED BY <1>9, <2>1, ImportEffect DEF Imports, Mismatched
<1>10. CASE BootFails
  BY <1>10 DEF BootFails
<1>11. CASE RecordImage
  BY <1>11 DEF RecordImage
<1>12. CASE Migrates
  BY <1>12 DEF Migrates
<1>13. CASE Acknowledges
  BY <1>13 DEF Acknowledges, ServerInv, Merged
<1>14. CASE DeadlinePasses
  BY <1>14 DEF DeadlinePasses
<1>15. CASE ApplyUpdate
  BY <1>15 DEF ApplyUpdate
<1>16. CASE Prepare
  BY <1>16 DEF Prepare, Prepared
<1>17. CASE Merges
  <2>1. upd \in UpdType
    BY TypeParts
  <2>2. \A b \in Marks : RollsBack(b) => upd'.pc = "mark"
    BY <2>1, RollbackBegins DEF RollsBack
  <2> QED BY <1>17, <2>2 DEF Merges, HalfWay, MayLock, Marks, UpdaterInv
<1>18. CASE AnnounceInstall
  <2>1. upd \in UpdType
    BY TypeParts
  <2>2. \A b \in Marks : RollsBack(b) => upd'.pc = "mark"
    BY <2>1, RollbackBegins DEF RollsBack
  <2> QED BY <1>18, <2>2 DEF AnnounceInstall, Announce, Marks, UpdaterInv
<1>19. CASE AnnounceVerify
  <2>1. upd \in UpdType
    BY TypeParts
  <2>2. \A b \in Marks : RollsBack(b) => upd'.pc = "mark"
    BY <2>1, RollbackBegins DEF RollsBack
  <2> QED BY <1>19, <2>2 DEF AnnounceVerify, Announce, Marks, UpdaterInv
<1>20. CASE Install
  <2>1. upd \in UpdType
    BY TypeParts
  <2>2. \A b \in Marks : RollsBack(b) => upd'.pc = "mark"
    BY <2>1, RollbackBegins DEF RollsBack
  <2> QED BY <1>20, <2>2 DEF Install, Installs, InstallFails, Marks, UpdaterInv
<1>21. CASE Verify
  <2>1. upd \in UpdType
    BY TypeParts
  <2>2. \A b \in Marks : RollsBack(b) => upd'.pc = "mark"
    BY <2>1, RollbackBegins DEF RollsBack
  <2> QED BY <1>21, <2>2 DEF Verify, Marks, UpdaterInv
<1>22. CASE Arm
  <2>1. journal \in JournalType /\ upd \in UpdType
    BY TypeParts
  <2> QED BY <1>22, <2>1, ArmEffect DEF Arm, CountInv, UpdaterInv
<1>23. CASE HandOver
  BY <1>23 DEF HandOver, UpdaterInv, ServerInv, Merged
<1>24. CASE MarkRollback
  BY <1>24 DEF MarkRollback, Notes
<1>25. CASE RollbackChecks
  BY <1>25 DEF RollbackChecks, Notes, Looks, UpdaterInv
<1>26. CASE RollbackResets
  BY <1>26 DEF RollbackResets, ResetFiles, ResetHead, HalfWay, UpdaterInv
<1>27. CASE RollbackCannotReset
  BY <1>27 DEF RollbackCannotReset, Notes, MayLock
<1>28. CASE RollbackEnds
  BY <1>28 DEF RollbackEnds, UpdaterInv, RolledBack
<1>29. CASE RollbackRestores
  BY <1>29 DEF RollbackRestores, Installs, InstallFails, UpdaterInv
<1>30. CASE UserEdits
  BY <1>30 DEF UserEdits, Unseen
<1>31. CASE UserCleans
  BY <1>31 DEF UserCleans
<1>32. CASE UserRestarts
  BY <1>32 DEF UserRestarts
<1>33. CASE UserCloses
  BY <1>33 DEF UserCloses
<1>34. CASE Crash
  BY <1>34 DEF Crash, MayLock
<1>36. CASE RecoverCannotReset
  BY <1>36 DEF RecoverCannotReset, MayLock
<1>37. CASE UserTidies
  BY <1>37 DEF UserTidies
<1>35. CASE UNCHANGED vars
  BY <1>35 DEF vars
<1> QED
  BY <1>1, <1>2, <1>3, <1>4, <1>5, <1>6, <1>7, <1>8, <1>9, <1>10, <1>11, <1>12,
     <1>13, <1>14, <1>15, <1>16, <1>17, <1>18, <1>19, <1>20, <1>21, <1>22, <1>23, <1>24,
     <1>25, <1>26, <1>27, <1>28, <1>29, <1>30, <1>31, <1>32, <1>33, <1>34, <1>35,
     <1>36, <1>37
     DEF UpdateNext, Recover, Boot, Apply, Rollback, User

LEMMA SchemaStep ==
  ASSUME BaseInv, PromptInv, [UpdateNext]_vars
  PROVE  SchemaInv'
<1> USE DEF BaseInv, UpdateTypeOK, PromptInv, SchemaInv, ServerInv, Revision, States, Trees,
       Revisions, Off, Idle, NoJournal, Unfinished
<1>1. CASE UserLaunches
  BY <1>1 DEF UserLaunches
<1>2. CASE HelperLaunches
  BY <1>2 DEF HelperLaunches
<1>3. CASE RecoverLeaves
  BY <1>3 DEF RecoverLeaves, Leaves
<1>4. CASE RecoverChecks
  BY <1>4 DEF RecoverChecks, Leaves, Looks, Own
<1>5. CASE RecoverResets
  BY <1>5 DEF RecoverResets, ResetFiles, ResetHead, HalfWay
<1>6. CASE RestoreDatabase
  BY <1>6 DEF RestoreDatabase
<1>7. CASE RestoreEnvironment
  BY <1>7 DEF RestoreEnvironment, Installs, InstallFails
<1>8. CASE RecoverCleansUp
  BY <1>8 DEF RecoverCleansUp
<1>9. CASE Imports
  BY <1>9 DEF Imports
<1>10. CASE BootFails
  BY <1>10 DEF BootFails
<1>11. CASE RecordImage
  BY <1>11 DEF RecordImage
<1>12. CASE Migrates
  BY <1>12 DEF Migrates
<1>13. CASE Acknowledges
  BY <1>13 DEF Acknowledges
<1>14. CASE DeadlinePasses
  BY <1>14 DEF DeadlinePasses
<1>15. CASE ApplyUpdate
  BY <1>15 DEF ApplyUpdate
<1>16. CASE Prepare
  BY <1>16 DEF Prepare, Prepared
<1>17. CASE Merges
  BY <1>17 DEF Merges, HalfWay, MayLock
<1>18. CASE AnnounceInstall
  BY <1>18 DEF AnnounceInstall, Announce
<1>19. CASE AnnounceVerify
  BY <1>19 DEF AnnounceVerify, Announce
<1>20. CASE Install
  BY <1>20 DEF Install, Installs, InstallFails
<1>21. CASE Verify
  BY <1>21 DEF Verify
<1>22. CASE Arm
  BY <1>22 DEF Arm, Armed
<1>23. CASE HandOver
  BY <1>23 DEF HandOver
<1>24. CASE MarkRollback
  BY <1>24 DEF MarkRollback, Notes
<1>25. CASE RollbackChecks
  BY <1>25 DEF RollbackChecks, Notes, Looks
<1>26. CASE RollbackResets
  BY <1>26 DEF RollbackResets, ResetFiles, ResetHead, HalfWay
<1>27. CASE RollbackCannotReset
  BY <1>27 DEF RollbackCannotReset, Notes, MayLock
<1>28. CASE RollbackEnds
  BY <1>28 DEF RollbackEnds
<1>29. CASE RollbackRestores
  BY <1>29 DEF RollbackRestores, Installs, InstallFails
<1>30. CASE UserEdits
  BY <1>30 DEF UserEdits, Unseen
<1>31. CASE UserCleans
  BY <1>31 DEF UserCleans
<1>32. CASE UserRestarts
  BY <1>32 DEF UserRestarts
<1>33. CASE UserCloses
  BY <1>33 DEF UserCloses
<1>34. CASE Crash
  BY <1>34 DEF Crash, MayLock
<1>36. CASE RecoverCannotReset
  BY <1>36 DEF RecoverCannotReset, MayLock
<1>37. CASE UserTidies
  BY <1>37 DEF UserTidies
<1>35. CASE UNCHANGED vars
  BY <1>35 DEF vars
<1> QED
  BY <1>1, <1>2, <1>3, <1>4, <1>5, <1>6, <1>7, <1>8, <1>9, <1>10, <1>11, <1>12,
     <1>13, <1>14, <1>15, <1>16, <1>17, <1>18, <1>19, <1>20, <1>21, <1>22, <1>23, <1>24,
     <1>25, <1>26, <1>27, <1>28, <1>29, <1>30, <1>31, <1>32, <1>33, <1>34, <1>35,
     <1>36, <1>37
     DEF UpdateNext, Recover, Boot, Apply, Rollback, User

LEMMA ServerStep ==
  ASSUME BaseInv, PromptInv, [UpdateNext]_vars
  PROVE  ServerInv'
<1> USE DEF BaseInv, UpdateTypeOK, CountInv, UpdaterInv, PromptInv, ServerInv, Current,
       Merged, RolledBack, Schema, Revision, States, Trees, Revisions, Off, Idle, NoJournal,
       Unfinished
<1>1. CASE UserLaunches
  BY <1>1 DEF UserLaunches
<1>2. CASE HelperLaunches
  BY <1>2 DEF HelperLaunches
<1>3. CASE RecoverLeaves
  BY <1>3 DEF RecoverLeaves, Leaves, Leaves, JournalInv
<1>4. CASE RecoverChecks
  BY <1>4 DEF RecoverChecks, Leaves, Looks, Own
<1>5. CASE RecoverResets
  BY <1>5 DEF RecoverResets, ResetFiles, ResetHead, HalfWay
<1>6. CASE RestoreDatabase
  BY <1>6 DEF RestoreDatabase
<1>7. CASE RestoreEnvironment
  BY <1>7 DEF RestoreEnvironment, Installs, InstallFails
<1>8. CASE RecoverCleansUp
  BY <1>8 DEF RecoverCleansUp, RecoveryInv
<1>9. CASE Imports
  <2>1. proc \in ProcType
    BY TypeParts
  <2> QED BY <1>9, <2>1, ImportEffect DEF Imports, Mismatched, SchemaInv
<1>10. CASE BootFails
  BY <1>10 DEF BootFails
<1>11. CASE RecordImage
  BY <1>11 DEF RecordImage
<1>12. CASE Migrates
  BY <1>12 DEF Migrates
<1>13. CASE Acknowledges
  BY <1>13 DEF Acknowledges
<1>14. CASE DeadlinePasses
  BY <1>14 DEF DeadlinePasses
<1>15. CASE ApplyUpdate
  BY <1>15 DEF ApplyUpdate
<1>16. CASE Prepare
  BY <1>16 DEF Prepare, Prepared
<1>17. CASE Merges
  <2>1. upd \in UpdType
    BY TypeParts
  <2>2. \A b \in Marks : RollsBack(b) => upd'.pc = "mark"
    BY <2>1, RollbackBegins DEF RollsBack
  <2> QED BY <1>17, <2>2 DEF Merges, HalfWay, MayLock, Marks
<1>18. CASE AnnounceInstall
  <2>1. upd \in UpdType
    BY TypeParts
  <2>2. \A b \in Marks : RollsBack(b) => upd'.pc = "mark"
    BY <2>1, RollbackBegins DEF RollsBack
  <2> QED BY <1>18, <2>2 DEF AnnounceInstall, Announce, Marks
<1>19. CASE AnnounceVerify
  <2>1. upd \in UpdType
    BY TypeParts
  <2>2. \A b \in Marks : RollsBack(b) => upd'.pc = "mark"
    BY <2>1, RollbackBegins DEF RollsBack
  <2> QED BY <1>19, <2>2 DEF AnnounceVerify, Announce, Marks
<1>20. CASE Install
  <2>1. upd \in UpdType
    BY TypeParts
  <2>2. \A b \in Marks : RollsBack(b) => upd'.pc = "mark"
    BY <2>1, RollbackBegins DEF RollsBack
  <2> QED BY <1>20, <2>2 DEF Install, Installs, InstallFails, Marks
<1>21. CASE Verify
  <2>1. upd \in UpdType
    BY TypeParts
  <2>2. \A b \in Marks : RollsBack(b) => upd'.pc = "mark"
    BY <2>1, RollbackBegins DEF RollsBack
  <2> QED BY <1>21, <2>2 DEF Verify, Marks
<1>22. CASE Arm
  <2>1. journal \in JournalType /\ upd \in UpdType
    BY TypeParts
  <2> QED BY <1>22, <2>1, ArmEffect DEF Arm
<1>23. CASE HandOver
  BY <1>23 DEF HandOver
<1>24. CASE MarkRollback
  BY <1>24 DEF MarkRollback, Notes
<1>25. CASE RollbackChecks
  BY <1>25 DEF RollbackChecks, Notes, Looks
<1>26. CASE RollbackResets
  BY <1>26 DEF RollbackResets, ResetFiles, ResetHead, HalfWay
<1>27. CASE RollbackCannotReset
  BY <1>27 DEF RollbackCannotReset, Notes, MayLock
<1>28. CASE RollbackEnds
  BY <1>28 DEF RollbackEnds
<1>29. CASE RollbackRestores
  BY <1>29 DEF RollbackRestores, Installs, InstallFails
<1>30. CASE UserEdits
  BY <1>30 DEF UserEdits, Unseen
<1>31. CASE UserCleans
  BY <1>31 DEF UserCleans
<1>32. CASE UserRestarts
  BY <1>32 DEF UserRestarts
<1>33. CASE UserCloses
  BY <1>33 DEF UserCloses
<1>34. CASE Crash
  BY <1>34 DEF Crash, MayLock
<1>36. CASE RecoverCannotReset
  BY <1>36 DEF RecoverCannotReset, MayLock
<1>37. CASE UserTidies
  BY <1>37 DEF UserTidies
<1>35. CASE UNCHANGED vars
  BY <1>35 DEF vars
<1> QED
  BY <1>1, <1>2, <1>3, <1>4, <1>5, <1>6, <1>7, <1>8, <1>9, <1>10, <1>11, <1>12,
     <1>13, <1>14, <1>15, <1>16, <1>17, <1>18, <1>19, <1>20, <1>21, <1>22, <1>23, <1>24,
     <1>25, <1>26, <1>27, <1>28, <1>29, <1>30, <1>31, <1>32, <1>33, <1>34, <1>35,
     <1>36, <1>37
     DEF UpdateNext, Recover, Boot, Apply, Rollback, User

-----------------------------------------------------------------------------
LEMMA InitOK == UpdateInit => BaseInv /\ PromptInv
<1> SUFFICES ASSUME UpdateInit
             PROVE  BaseInv /\ PromptInv
  OBVIOUS
<1>1. locked \in BOOLEAN
  BY Zenon DEF UpdateInit
<1>2. UpdateTypeOK
  BY <1>1, NewRecords, TypeParts DEF UpdateInit, Revisions, States, Trees
<1>3. CountInv /\ UpdaterInv /\ RecoveryInv
  BY DEF UpdateInit, CountInv, UpdaterInv, RecoveryInv, NoJournal, Off, Idle
<1>4. JournalInv /\ SchemaInv /\ ServerInv
  BY DEF UpdateInit, JournalInv, SchemaInv, ServerInv, Current, NoJournal, Off, Idle
<1> QED BY <1>2, <1>3, <1>4 DEF BaseInv, PromptInv

LEMMA BaseInvariant == UpdateSpec => []BaseInv
<1>1. UpdateInit => BaseInv
  BY InitOK
<1>2. BaseInv /\ [UpdateNext]_vars => BaseInv'
  BY TypeStep, CountStep, UpdaterStep, RecoveryStep DEF BaseInv
<1> QED
  BY <1>1, <1>2, PTL DEF UpdateSpec

(* The checkout, the journal, the process and the update keep their types, *)
(* and only an armed or answered journal names an image.                   *)
THEOREM UpdateTyped == UpdateSpec => []UpdateTypeOK
BY BaseInvariant, PTL DEF BaseInv

(* Who moves the checkout.                                                 *)
LEMMA CheckoutMoves ==
  ASSUME [UpdateNext]_vars
  PROVE  UNCHANGED <<head, tree>> \/ RecoverResets \/ Merges \/ RollbackResets \/ UserTidies
<1>1. CASE UserLaunches
  BY <1>1 DEF UserLaunches
<1>2. CASE HelperLaunches
  BY <1>2 DEF HelperLaunches
<1>3. CASE RecoverLeaves
  BY <1>3 DEF RecoverLeaves
<1>4. CASE RecoverChecks
  BY <1>4 DEF RecoverChecks
<1>5. CASE RecoverResets
  BY <1>5
<1>6. CASE RestoreDatabase
  BY <1>6 DEF RestoreDatabase
<1>7. CASE RestoreEnvironment
  BY <1>7 DEF RestoreEnvironment
<1>8. CASE RecoverCleansUp
  BY <1>8 DEF RecoverCleansUp
<1>9. CASE Imports
  BY <1>9 DEF Imports
<1>10. CASE BootFails
  BY <1>10 DEF BootFails
<1>11. CASE RecordImage
  BY <1>11 DEF RecordImage
<1>12. CASE Migrates
  BY <1>12 DEF Migrates
<1>13. CASE Acknowledges
  BY <1>13 DEF Acknowledges
<1>14. CASE DeadlinePasses
  BY <1>14 DEF DeadlinePasses
<1>15. CASE ApplyUpdate
  BY <1>15 DEF ApplyUpdate
<1>16. CASE Prepare
  BY <1>16 DEF Prepare, Prepared
<1>17. CASE Merges
  BY <1>17
<1>18. CASE AnnounceInstall
  BY <1>18 DEF AnnounceInstall, Announce
<1>19. CASE AnnounceVerify
  BY <1>19 DEF AnnounceVerify, Announce
<1>20. CASE Install
  BY <1>20 DEF Install
<1>21. CASE Verify
  BY <1>21 DEF Verify
<1>22. CASE Arm
  BY <1>22 DEF Arm
<1>23. CASE HandOver
  BY <1>23 DEF HandOver
<1>24. CASE MarkRollback
  BY <1>24 DEF MarkRollback
<1>25. CASE RollbackChecks
  BY <1>25 DEF RollbackChecks
<1>26. CASE RollbackResets
  BY <1>26
<1>27. CASE RollbackCannotReset
  BY <1>27 DEF RollbackCannotReset, Notes, MayLock
<1>28. CASE RollbackEnds
  BY <1>28 DEF RollbackEnds
<1>29. CASE RollbackRestores
  BY <1>29 DEF RollbackRestores
<1>30. CASE UserEdits
  BY <1>30 DEF UserEdits
<1>31. CASE UserCleans
  BY <1>31 DEF UserCleans
<1>32. CASE UserRestarts
  BY <1>32 DEF UserRestarts
<1>33. CASE UserCloses
  BY <1>33 DEF UserCloses
<1>34. CASE Crash
  BY <1>34 DEF Crash, MayLock
<1>36. CASE RecoverCannotReset
  BY <1>36 DEF RecoverCannotReset, MayLock
<1>37. CASE UserTidies
  BY <1>37
<1>35. CASE UNCHANGED vars
  BY <1>35 DEF vars
<1> QED
  BY <1>1, <1>2, <1>3, <1>4, <1>5, <1>6, <1>7, <1>8, <1>9, <1>10, <1>11, <1>12,
     <1>13, <1>14, <1>15, <1>16, <1>17, <1>18, <1>19, <1>20, <1>21, <1>22, <1>23, <1>24,
     <1>25, <1>26, <1>27, <1>28, <1>29, <1>30, <1>31, <1>32, <1>33, <1>34, <1>35,
     <1>36, <1>37
     DEF UpdateNext, Recover, Boot, Apply, Rollback, User

(* An update that was acknowledged is never rolled back, however often the *)
(* application is started, restarted or killed, and however late a helper  *)
(* comes.                                                                  *)
THEOREM AcknowledgedStays == UpdateSpec => AcknowledgedIsKept
<1>1. BaseInv /\ [UpdateNext]_vars =>
        [journal.state \in {"none", "committed"} /\ head = "new" => head' = "new"]_vars
  <2> SUFFICES ASSUME BaseInv, [UpdateNext]_vars,
                      journal.state \in {"none", "committed"}, head = "new"
               PROVE  head' = "new"
    OBVIOUS
  <2>1. CASE RecoverResets
    BY <2>1 DEF BaseInv, RecoveryInv, RecoverResets, ResetFiles
  <2>2. CASE RollbackResets
    BY <2>2 DEF BaseInv, UpdaterInv, RollbackResets, ResetFiles, Unfinished
  <2>3. CASE Merges
    BY <2>3 DEF Merges, HalfWay, MayLock
  <2>4. CASE UserTidies
    BY <2>4 DEF UserTidies
  <2> QED
    BY <2>1, <2>2, <2>3, <2>4, CheckoutMoves
<1> QED
  BY <1>1, BaseInvariant, PTL DEF UpdateSpec, AcknowledgedIsKept

(* Neither recovery nor rollback resets away work that git status showed.  *)
THEOREM LocalWorkStays == UpdateSpec => LocalWorkIsKept
<1>1. BaseInv /\ [UpdateNext]_vars =>
        [<<head, tree>>' # <<head, tree>> /\ work = "seen" => work' = "seen"]_vars
  <2> SUFFICES ASSUME BaseInv, [UpdateNext]_vars,
                      <<head, tree>>' # <<head, tree>>, work = "seen"
               PROVE  work' = "seen"
    OBVIOUS
  <2>1. CASE RecoverResets
    BY <2>1 DEF BaseInv, RecoveryInv, RecoverResets, ResetHead
  <2>2. CASE RollbackResets
    BY <2>2 DEF BaseInv, UpdaterInv, RollbackResets, ResetHead
  <2>3. CASE Merges
    BY <2>3 DEF Merges, HalfWay, MayLock
  <2>4. CASE UserTidies
    BY <2>4 DEF UserTidies
  <2> QED
    BY <2>1, <2>2, <2>3, <2>4, CheckoutMoves
<1> QED
  BY <1>1, BaseInvariant, PTL DEF UpdateSpec, LocalWorkIsKept

(* If a waiting restart helper tries before the process that was quicker   *)
(* to start ends, then whatever is interrupted, fails or is edited, a      *)
(* server runs one whole revision on its schema and with its packages.     *)
THEOREM OneRevisionServes ==
  ASSUME PromptHelper
  PROVE  UpdateSpec => []ServesOneRevision
<1>1. UpdateInit => PromptInv
  BY InitOK
<1>2. BaseInv /\ PromptInv /\ [UpdateNext]_vars => PromptInv'
  BY JournalStep, SchemaStep, ServerStep, PromptHelper DEF PromptInv
<1>3. PromptInv => ServesOneRevision
  BY DEF PromptInv, ServerInv, ServesOneRevision
<1> QED
  BY <1>1, <1>2, <1>3, BaseInvariant, PTL DEF UpdateSpec
=============================================================================
