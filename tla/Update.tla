------------------------------- MODULE Update -------------------------------
(***************************************************************************)
(* The in-app update of a source checkout: services/updater.py applies it, *)
(* update_recovery.py undoes an unfinished one before the application is   *)
(* imported, run.py and create_app boot the revision the checkout holds.   *)
(*                                                                         *)
(* Four things change revision and cannot change together: the checkout,   *)
(* the Python environment, the database schema, and the journal that says  *)
(* how far the update came.  A process, the machine or a command may fail  *)
(* between any two of them, and the user may edit files all the while.     *)
(*                                                                         *)
(* One target revision "new" is on offer; the update may be tried again    *)
(* after a rollback.  Python dependencies stand for those of the frontend, *)
(* which the code treats alike.  Commits of the user, the boot bundle, a   *)
(* detached or diverged branch and the content of the database are left    *)
(* out.  Git runs in two steps, so it can be interrupted half way.         *)
(***************************************************************************)
EXTENDS Naturals

CONSTANTS MaxUpdates,   \* attempts to apply the update
          MaxCrashes,   \* deaths of the process at an arbitrary step
          MaxFaults,    \* failing commands, file writes and boots
          MaxEdits,     \* files the user edits in the checkout
          PromptHelper  \* a waiting restart helper tries before the process that
                        \* was quicker to start ends: it polls four times a second

ASSUME UpdateBounds == {MaxUpdates, MaxCrashes, MaxFaults, MaxEdits} \subseteq Nat
ASSUME UpdateTiming == PromptHelper \in BOOLEAN

VARIABLES offer,     \* what the new revision changes: [deps, migrates, files], the
                     \* last if it adds files or removes some
          head,      \* git HEAD: "old" or "new"
          tree,      \* the working tree: "old", "new", cut half way ("mixed"), or
                     \* cut with files the index does not know ("untracked")
          work,      \* uncommitted work of the user, and whether git status saw it
          locked,    \* index.lock, left behind by a git process that was killed
          py,        \* the Python environment
          db,        \* the database schema
          image,     \* the schema in the pre-migration image, "none" without it
          journal,   \* data/update-transaction.json
          proc,      \* the one process that holds server.lock
          upd,       \* where apply_update stands in that process
          pending,   \* nonce a restart helper will launch with, None without it
          attempts, crashes, faults, edits

code == <<offer, head, tree, work, locked>>
installed == <<py, db, image>>
bounds == <<attempts, crashes, faults, edits>>
vars == <<offer, head, tree, work, locked, py, db, image, journal, proc, upd, pending,
          attempts, crashes, faults, edits>>

None == 0                       \* no nonce
Foreign == MaxUpdates + 1       \* the nonce of a restart that is no update
NoJournal == [state |-> "none", nonce |-> None, image |-> FALSE, env |-> "old"]
Off == [pc |-> "off", code |-> "old", nonce |-> None]
Idle == [pc |-> "idle", env |-> "old", before |-> "none"]

Unfinished == {"prepared", "installing_dependencies", "verifying", "rolling_back",
               "rollback_blocked", "rollback_failed", "awaiting_restart"}

\* The interrupted states after which recovery restores the environment.
EnvironmentTouched == {"installing_dependencies", "verifying", "rolling_back",
                       "rollback_blocked", "rollback_failed"}

Revision(new) == IF new THEN "new" ELSE "old"
FaultLeft == faults < MaxFaults /\ faults' = faults + 1

UpdateInit ==
  /\ offer \in [deps : BOOLEAN, migrates : BOOLEAN, files : BOOLEAN]
  /\ head = "old" /\ tree = "old" /\ work = "none" /\ locked = FALSE
  /\ py = "old" /\ db = "old" /\ image = "none"
  /\ journal = NoJournal /\ proc = Off /\ upd = Idle /\ pending = None
  /\ attempts = 0 /\ crashes = 0 /\ faults = 0 /\ edits = 0

-----------------------------------------------------------------------------
(* Starting: the launcher, recover() and the boot of the application.      *)

UserLaunches ==
  /\ proc.pc = "off"
  /\ proc' = [Off EXCEPT !.pc = "recover"]
  /\ UNCHANGED <<code, installed, journal, upd, pending, bounds>>

HelperLaunches ==
  /\ pending # None
  /\ proc' = IF proc.pc = "off"
             THEN [Off EXCEPT !.pc = "recover", !.nonce = pending]
             ELSE proc                     \* exit 73: somebody else runs
  /\ pending' = None
  /\ UNCHANGED <<code, installed, journal, upd, bounds>>

At(pc) == proc.pc = pc
Goes(pc) == proc' = [proc EXCEPT !.pc = pc]
Exits == proc' = Off /\ (PromptHelper => pending = None)

\* _updater_owned_dirty_state: files cut half way are the updater's own, any
\* untracked file ("??") is taken for work of the user.
Own == work = "none" /\ tree # "untracked"
Looks == work' = IF work = "none" THEN "none" ELSE "seen"

\* Mutant: an answered update is undone like any other.
LeavesArmed == \/ journal.state = "none"
               \/ journal.state = "awaiting_restart" /\ proc.nonce = journal.nonce

Leaves == \/ journal.state \in {"none", "committed"}
          \/ journal.state = "awaiting_restart" /\ proc.nonce = journal.nonce

RecoverLeaves ==
  /\ At("recover") /\ Leaves /\ Goes("import")
  /\ UNCHANGED <<code, installed, journal, upd, pending, bounds>>

\* Mutant: no look at the working tree.
ResetAnyway ==
  /\ At("recover") /\ ~Leaves /\ Goes("reset")
  /\ UNCHANGED <<code, installed, journal, upd, pending, bounds>>

RecoverChecks ==
  /\ At("recover") /\ ~Leaves /\ Looks
  /\ IF Own THEN Goes("reset") ELSE Exits
  /\ UNCHANGED <<offer, head, tree, locked, installed, journal, upd, pending, bounds>>

\* What git leaves when it is cut: new files come before the index that names them.
HalfWay == {"mixed"} \cup (IF offer.files THEN {"untracked"} ELSE {})
MayLock == locked' \in {locked, TRUE}

\* git reset --hard: the files first, HEAD last.
ResetFiles ==
  /\ ~locked
  /\ tree' \in IF tree = "old" THEN {"old"} ELSE HalfWay
  /\ work' = "none"
  /\ UNCHANGED <<offer, head, locked>>
ResetHead ==
  /\ tree' = "old" /\ head' = "old"
  /\ UNCHANGED <<offer, work, locked>>

RecoverResets ==
  /\ \/ At("reset") /\ ResetFiles /\ Goes("resetting")
     \/ At("resetting") /\ ResetHead /\ Goes("database")
  /\ UNCHANGED <<installed, journal, upd, pending, bounds>>

\* git fails, as it does while a lock is left, or is killed for its time.
RecoverCannotReset ==
  /\ Exits
  /\ \/ At("reset") /\ locked /\ UNCHANGED <<locked, faults>>
     \/ proc.pc \in {"recover", "reset"} /\ ~Leaves /\ FaultLeft /\ UNCHANGED locked
     \/ At("resetting") /\ FaultLeft /\ MayLock
  /\ UNCHANGED <<offer, head, tree, work, installed, journal, upd, pending, attempts,
                 crashes, edits>>

RestoreDatabase ==
  /\ At("database")
  /\ IF journal.image /\ image = "none"
     THEN Exits /\ UNCHANGED db             \* the image cannot be verified
     ELSE Goes("environment") /\ db' = IF journal.image THEN image ELSE db
  /\ UNCHANGED <<code, py, image, journal, upd, pending, bounds>>

\* pip has worked on the environment, and is done or has failed.
Installs(goal) == py' = goal
InstallFails == FaultLeft /\ py' = "mixed"

RestoreEnvironment ==
  /\ At("environment")
  /\ \/ /\ journal.state \in EnvironmentTouched /\ offer.deps
        /\ \/ Installs(journal.env) /\ Goes("cleanup") /\ UNCHANGED faults
           \/ InstallFails /\ Exits
     \/ /\ ~(journal.state \in EnvironmentTouched /\ offer.deps)
        /\ Goes("cleanup") /\ UNCHANGED <<py, faults>>
  /\ UNCHANGED <<code, db, image, journal, upd, pending, attempts, crashes, edits>>

\* The image goes first, then the journal that names it.  A journal that cannot
\* be removed is only logged; a launcher has run.py recover a second time.
RecoverCleansUp ==
  /\ \/ /\ At("cleanup") /\ Goes("clear")
        /\ image' = IF journal.image THEN "none" ELSE image
        /\ UNCHANGED <<journal, faults>>
     \/ /\ At("clear") /\ UNCHANGED image
        /\ \/ journal' = NoJournal /\ Goes("import") /\ UNCHANGED faults
           \/ /\ FaultLeft /\ journal' \in {journal, NoJournal}
              /\ Goes("import") \/ Goes("recover")
  /\ UNCHANGED <<code, py, db, upd, pending, attempts, crashes, edits>>

Schema(rev) == Revision(rev = "new" /\ offer.migrates)

Mismatched == tree = "old" /\ py # "old"

\* The application is imported.  Old code refuses a schema it does not know, and
\* may or may not start on the packages of the new one.
Imports ==
  /\ At("import")
  /\ \/ tree = "old" /\ (db # "old" \/ Mismatched) /\ Exits
     \/ /\ ~(tree = "old" /\ db # "old")
        /\ proc' = [proc EXCEPT !.code = tree,
                      !.pc = IF db # Schema(tree) THEN "migrate" ELSE "up"]
  /\ UNCHANGED <<code, installed, journal, upd, pending, bounds>>

BootFails ==
  /\ proc.pc \in {"import", "migrate", "migrating"} /\ FaultLeft /\ Exits
  /\ UNCHANGED <<code, installed, journal, upd, pending, attempts, crashes, edits>>

\* The image is entered in an armed journal of this very target, or nowhere.
RecordImage ==
  /\ At("migrate") /\ Goes("migrating")
  /\ IF journal.state = "awaiting_restart" /\ head = "new"
     THEN image' = db /\ journal' = [journal EXCEPT !.image = TRUE]
     ELSE UNCHANGED <<image, journal>>
  /\ UNCHANGED <<code, py, db, upd, pending, bounds>>

Migrates ==
  /\ At("migrating")
  /\ \/ db = "old" /\ db' = "mixed" /\ UNCHANGED proc
     \/ db = "mixed" /\ db' = "new" /\ Goes("up")
  /\ UNCHANGED <<code, py, image, journal, upd, pending, bounds>>

\* /api/health/ready answered by the replacement the journal waits for.
Acknowledges ==
  /\ At("up") /\ proc.nonce # None
  /\ journal.state = "awaiting_restart" /\ journal.nonce = proc.nonce /\ head = "new"
  /\ journal' = [journal EXCEPT !.state = "committed"]
  /\ UNCHANGED <<code, installed, proc, upd, pending, bounds>>

\* Mutant: no watchdog.
NeverPasses == FALSE /\ UNCHANGED vars

\* The watchdog of run.py: never ready within the deadline.
DeadlinePasses ==
  /\ At("up") /\ proc.nonce # None
  /\ journal.state = "awaiting_restart" /\ journal.nonce = proc.nonce
  /\ Exits /\ upd' = Idle
  /\ UNCHANGED <<code, installed, journal, pending, bounds>>

-----------------------------------------------------------------------------
(* apply_update in the serving process.                                    *)

UpdAt(pc) == At("up") /\ upd.pc = pc
UpdGoes(pc) == upd' = [upd EXCEPT !.pc = pc]
RollsBack(before) == upd' = [upd EXCEPT !.pc = "mark", !.before = before]
Journal(state) == journal' = [journal EXCEPT !.state = state]

ApplyUpdate ==
  /\ UpdAt("idle") /\ work = "none" /\ tree = head /\ head = "old"
  /\ attempts < MaxUpdates /\ attempts' = attempts + 1
  /\ upd' = [Idle EXCEPT !.pc = "prepare", !.env = py]
  /\ UNCHANGED <<code, installed, journal, proc, pending, crashes, faults, edits>>

\* A write that fails may still have replaced the file.
Prepared == [NoJournal EXCEPT !.state = "prepared", !.env = upd.env]
Prepare ==
  /\ UpdAt("prepare")
  /\ \/ journal' = Prepared /\ UpdGoes("merge") /\ UNCHANGED faults
     \/ FaultLeft /\ upd' = Idle /\ journal' \in {journal, Prepared}
  /\ UNCHANGED <<code, installed, proc, pending, attempts, crashes, edits>>

\* git merge --ff-only: refused over edited files or a lock, killed half way for
\* its time, or done.
Merges ==
  /\ \/ /\ UpdAt("merge") /\ ~locked /\ tree' \in HalfWay /\ UpdGoes("merging")
        /\ UNCHANGED <<head, locked, faults>>
     \/ /\ UpdAt("merging") /\ tree' = "new" /\ head' = "new" /\ UpdGoes("installing")
        /\ UNCHANGED <<locked, faults>>
     \/ /\ UpdAt("merge") /\ (work # "none" \/ locked) /\ RollsBack("none")
        /\ UNCHANGED <<tree, head, locked, faults>>
     \/ /\ UpdAt("merge") /\ FaultLeft /\ RollsBack("none")
        /\ UNCHANGED <<tree, head, locked>>
     \/ /\ UpdAt("merging") /\ FaultLeft /\ RollsBack("none") /\ MayLock
        /\ UNCHANGED <<tree, head>>
  /\ UNCHANGED <<offer, work, installed, journal, proc, pending, attempts, crashes, edits>>

\* The journal moves on before the work it announces begins.
Announce(pc, state, next) ==
  /\ UpdAt(pc)
  /\ \/ Journal(state) /\ UpdGoes(next) /\ UNCHANGED faults
     \/ FaultLeft /\ RollsBack(state) /\ (Journal(state) \/ UNCHANGED journal)
  /\ UNCHANGED <<code, installed, proc, pending, attempts, crashes, edits>>

AnnounceInstall == Announce("installing", "installing_dependencies", "install")
AnnounceVerify == Announce("verifying", "verifying", "verify")

\* Mutant: a failing pip is only logged.
InstallLogs ==
  /\ UpdAt("install")
  /\ \/ offer.deps /\ Installs("new") /\ UNCHANGED faults
     \/ offer.deps /\ InstallFails
     \/ ~offer.deps /\ UNCHANGED <<py, faults>>
  /\ UpdGoes("verifying")
  /\ UNCHANGED <<code, db, image, journal, proc, pending, attempts, crashes, edits>>

Install ==
  /\ UpdAt("install")
  /\ \/ ~offer.deps /\ UpdGoes("verifying") /\ UNCHANGED <<py, faults>>
     \/ offer.deps /\ py # "mixed" /\ py' = "mixed" /\ UNCHANGED <<upd, faults>>
     \/ offer.deps /\ py = "mixed" /\ Installs("new") /\ UpdGoes("verifying") /\ UNCHANGED faults
     \/ offer.deps /\ InstallFails /\ RollsBack("installing_dependencies")
  /\ UNCHANGED <<code, db, image, journal, proc, pending, attempts, crashes, edits>>

\* A failing check rolls back; git rev-parse timing out leaves apply_update.
Verify ==
  /\ UpdAt("verify")
  /\ \/ UpdGoes("arm") /\ UNCHANGED faults
     \/ FaultLeft /\ (RollsBack("verifying") \/ upd' = Idle)
  /\ UNCHANGED <<code, installed, journal, proc, pending, attempts, crashes, edits>>

Armed == [journal EXCEPT !.state = "awaiting_restart", !.nonce = attempts]
Arm ==
  /\ UpdAt("arm")
  /\ \/ journal' = Armed /\ UpdGoes("restart") /\ UNCHANGED faults
     \/ FaultLeft /\ journal' \in {journal, Armed} /\ RollsBack("verifying")
  /\ UNCHANGED <<code, installed, proc, pending, attempts, crashes, edits>>

\* schedule_restart: the helper is spawned and this process ends, or cannot be.
HandOver ==
  /\ UpdAt("restart") /\ upd' = Idle
  /\ \/ Exits /\ pending' = journal.nonce /\ UNCHANGED faults
     \/ FaultLeft /\ UNCHANGED <<proc, pending>>
  /\ UNCHANGED <<code, installed, journal, attempts, crashes, edits>>

-----------------------------------------------------------------------------
(* _rollback_update in the serving process.                                *)

\* A journal that cannot be written may keep its state; the rollback goes on.
Notes(state) == \/ Journal(state) /\ UNCHANGED faults
                \/ FaultLeft /\ UNCHANGED journal

MarkRollback ==
  /\ UpdAt("mark") /\ Notes("rolling_back") /\ UpdGoes("status")
  /\ UNCHANGED <<code, installed, proc, pending, attempts, crashes, edits>>

\* Here the tree must be clean; a failing git status blocks as well.
RollbackChecks ==
  /\ UpdAt("status")
  /\ \/ /\ work # "none" \/ tree # head
        /\ Notes("rollback_blocked") /\ upd' = Idle /\ Looks
     \/ /\ FaultLeft /\ (Journal("rollback_blocked") \/ UNCHANGED journal)
        /\ upd' = Idle /\ UNCHANGED work
     \/ /\ work = "none" /\ tree = head
        /\ UpdGoes("reset") /\ UNCHANGED <<work, journal, faults>>
  /\ UNCHANGED <<offer, head, tree, locked, installed, proc, pending, attempts, crashes, edits>>

RollbackResets ==
  /\ \/ UpdAt("reset") /\ ResetFiles /\ UpdGoes("resetting")
     \/ UpdAt("resetting") /\ ResetHead /\ UpdGoes("environment")
  /\ UNCHANGED <<installed, journal, proc, pending, bounds>>

\* git reports a failure, or times out and the exception leaves apply_update.
RollbackCannotReset ==
  /\ \/ UpdAt("reset") /\ locked /\ UNCHANGED locked /\ Notes("rollback_failed")
     \/ /\ UpdAt("reset") /\ FaultLeft /\ UNCHANGED locked
        /\ (Journal("rollback_failed") \/ UNCHANGED journal)
     \/ /\ UpdAt("resetting") /\ FaultLeft /\ MayLock
        /\ (Journal("rollback_failed") \/ UNCHANGED journal)
  /\ upd' = Idle
  /\ UNCHANGED <<offer, head, tree, work, installed, proc, pending, attempts, crashes, edits>>

RollbackRestores ==
  /\ UpdAt("environment")
  /\ \/ /\ upd.before \in {"installing_dependencies", "verifying"} /\ offer.deps
        /\ \/ Installs(upd.env) /\ UpdGoes("clear") /\ UNCHANGED <<journal, faults>>
           \/ InstallFails /\ Journal("rollback_failed") /\ upd' = Idle
     \/ /\ ~(upd.before \in {"installing_dependencies", "verifying"} /\ offer.deps)
        /\ UpdGoes("clear") /\ UNCHANGED <<py, journal, faults>>
  /\ UNCHANGED <<code, db, image, proc, pending, attempts, crashes, edits>>

RollbackEnds ==
  /\ UpdAt("clear") /\ upd' = Idle
  /\ \/ journal' = NoJournal /\ UNCHANGED faults
     \/ FaultLeft /\ journal' \in {journal, NoJournal}
  /\ UNCHANGED <<code, installed, proc, pending, attempts, crashes, edits>>

-----------------------------------------------------------------------------
(* The user and the machine.                                               *)

\* After git status and before git reset nothing sees the edit any more.
Unseen == proc.pc = "reset" \/ UpdAt("reset")

UserEdits ==
  /\ work = "none" /\ edits < MaxEdits /\ edits' = edits + 1
  /\ work' = IF Unseen THEN "unseen" ELSE "seen"
  /\ UNCHANGED <<offer, head, tree, locked, installed, journal, proc, upd, pending,
                 attempts, crashes, faults>>

UserCleans ==
  /\ work # "none" /\ work' = "none"
  /\ UNCHANGED <<offer, head, tree, locked, installed, journal, proc, upd, pending, bounds>>

GitWorks == At("resetting") \/ UpdAt("merging") \/ UpdAt("resetting")

\* He removes what git left behind: untracked files, the lock.
UserTidies ==
  /\ ~GitWorks /\ (tree = "untracked" \/ locked)
  /\ tree' = IF tree = "untracked" THEN "mixed" ELSE tree
  /\ locked' = FALSE
  /\ UNCHANGED <<offer, head, work, installed, journal, proc, upd, pending, bounds>>

\* Restart in the settings: an answered update's journal goes, a helper is left.
UserRestarts ==
  /\ At("up") /\ Exits /\ upd' = Idle /\ pending' = Foreign
  /\ crashes < MaxCrashes /\ crashes' = crashes + 1
  /\ journal' = IF journal.state = "committed" THEN NoJournal ELSE journal
  /\ UNCHANGED <<code, installed, attempts, faults, edits>>

\* "... then restart": the user ends a server whose update needs recovery.
UserCloses ==
  /\ UpdAt("idle") /\ journal.state \in Unfinished /\ ~Leaves /\ Exits
  /\ UNCHANGED <<code, installed, journal, upd, pending, bounds>>

\* git is killed with the process that waits for it, when the machine fails.
Crash ==
  /\ proc.pc # "off" /\ crashes < MaxCrashes /\ crashes' = crashes + 1
  /\ Exits /\ upd' = Idle
  /\ IF GitWorks THEN MayLock ELSE UNCHANGED locked
  /\ UNCHANGED <<offer, head, tree, work, installed, journal, pending, attempts, faults, edits>>

Recover == RecoverLeaves \/ RecoverChecks \/ RecoverResets \/ RecoverCannotReset
           \/ RestoreDatabase \/ RestoreEnvironment \/ RecoverCleansUp
Boot == Imports \/ RecordImage \/ Migrates \/ DeadlinePasses
Apply == Prepare \/ Merges \/ AnnounceInstall \/ Install \/ AnnounceVerify
         \/ Verify \/ Arm \/ HandOver
Rollback == MarkRollback \/ RollbackChecks \/ RollbackResets
            \/ RollbackCannotReset \/ RollbackRestores \/ RollbackEnds
User == UserEdits \/ UserCleans \/ UserTidies \/ UserRestarts \/ UserCloses \/ ApplyUpdate

UpdateNext == UserLaunches \/ HelperLaunches \/ Recover \/ Boot \/ BootFails
              \/ Acknowledges \/ Apply \/ Rollback \/ User \/ Crash

(* Threads and processes run; who starts the application starts it again,  *)
(* and restarts it when an update asks for it.                             *)
UpdateFairness ==
  /\ WF_vars(UserLaunches) /\ WF_vars(UserCloses) /\ WF_vars(HelperLaunches)
  /\ WF_vars(Recover) /\ WF_vars(Boot) /\ WF_vars(Apply) /\ WF_vars(Rollback)

UpdateSpec == UpdateInit /\ [][UpdateNext]_vars /\ UpdateFairness

-----------------------------------------------------------------------------
Revisions == {"old", "new"}
States == {"old", "mixed", "new"}
Trees == States \cup {"untracked"}

\* Type correctness, and what never happens to the journal: it is armed with
\* the nonce of an attempt, and only an armed or answered one names an image.
UpdateTypeOK ==
  /\ offer \in [deps : BOOLEAN, migrates : BOOLEAN, files : BOOLEAN]
  /\ head \in Revisions /\ tree \in Trees /\ locked \in BOOLEAN /\ work \in {"none", "seen", "unseen"}
  /\ py \in States /\ db \in States /\ image \in {"none"} \cup States
  /\ journal \in [state : Unfinished \cup {"none", "committed"}, nonce : 0..MaxUpdates,
                  image : BOOLEAN, env : States]
  /\ proc \in [pc : {"off", "recover", "reset", "resetting", "database", "environment",
                     "cleanup", "clear", "import", "migrate", "migrating", "up"},
               code : Trees, nonce : 0..Foreign]
  /\ upd \in [pc : {"idle", "prepare", "merge", "merging", "installing", "install",
                    "verifying", "verify", "arm", "restart", "mark", "status", "reset",
                    "resetting", "environment", "clear"},
              env : States,
              before : {"none", "installing_dependencies", "verifying"}]
  /\ pending \in 0..Foreign
  /\ journal.image => journal.state \in {"awaiting_restart", "committed"}

\* What a server runs is one whole revision: code imported from a complete
\* tree, on the schema of that code, and new code with the packages it needs.
ServesOneRevision ==
  At("up") => /\ proc.code \in Revisions
              /\ db = Schema(proc.code)
              /\ proc.code = "new" /\ offer.deps => py = "new"

\* An update that was acknowledged is never rolled back, by whatever launch,
\* late helper or crash; nor is one whose journal a restart has retired.
AcknowledgedIsKept ==
  [][journal.state \in {"none", "committed"} /\ head = "new" => head' = "new"]_vars

\* No reset takes uncommitted work that was there when git status looked.
LocalWorkIsKept ==
  [][<<head, tree>>' # <<head, tree>> /\ work = "seen" => work' = "seen"]_vars

Stuck == journal.image /\ image = "none"
InTheWay == ~Own \/ locked

\* However an update is interrupted, the next starts settle it: it commits or
\* is rolled back, and the application comes up again; unless uncommitted work,
\* an untracked file or a lock that git left stands in the way until the user
\* removes it, recovery had removed the image and not yet the journal that
\* names it, or old code was left with the packages of the new one.
UpdateSettles ==
  /\ journal.state \in Unfinished
       ~> (journal.state \in {"none", "committed"} \/ InTheWay \/ Stuck)
  /\ At("off") ~> (At("up") \/ InTheWay \/ Stuck \/ Mismatched)

\* update_recovery.py:125: recovery goes on when git was interrupted after it had
\* written some files, so only work of the user stands in its way. Not kept.
OnlyWorkIsInTheWay == At("recover") /\ ~Leaves => Own \/ work # "none"

\* updater.py:579: no reset erases work made after the transaction began. Not
\* kept: between git status and git reset nothing sees it.
AnyWorkIsKept ==
  [][<<head, tree>>' # <<head, tree>> /\ work # "none" => work' # "none"]_vars

\* updater.py:292-295: rollback reverses the install the update made, so the
\* old code never finds the packages of the new one.
OldFindsItsPackages == At("import") => ~Mismatched

\* update_recovery.py:300-301: on failure the journal and the image remain
\* available for a retry.
ImageIsAvailable == journal.image => image # "none"
=============================================================================
