----------------------------- MODULE ImageStore -----------------------------
(***************************************************************************)
(* One dataset image: its row, the versions of its picture on disk and in  *)
(* the Trash, the generations in flight for it, and the transactions of    *)
(* trash.py that move files and then commit the row, or move them back.    *)
(*                                                                         *)
(* Transactions hold _TRASH_TRANSACTION_LOCK.  The threads that answer a   *)
(* generation, and the requests that decide on or regenerate a row, do not *)
(* (a successful answer takes it for its swap): each reads the row and     *)
(* later writes with its commit the attributes it changed from what it     *)
(* read.  Captions, analysis and the other attributes that travel with the *)
(* row are those of Curation and are left out, with whole datasets and the *)
(* pairs of a reconstruction.                                              *)
(***************************************************************************)
EXTENDS Integers, Sequences, FiniteSets

CONSTANTS MaxJobs,     \* generations requested
          MaxEntries,  \* entries the Trash holds at once
          MaxEdits,    \* decisions on the row
          MaxFaults,   \* failing moves, removals and commits
          MaxCrashes   \* deaths of the server

ASSUME StoreBounds == {MaxJobs, MaxEntries, MaxEdits, MaxFaults, MaxCrashes} \subseteq Nat

VARIABLES row,     \* the committed row
          at,      \* [Files -> place]
          trash,   \* [Entries -> .trash.json of the entry, or NoEntry]
          txn,     \* the transaction that holds the trash lock
          work,    \* [Jobs -> state of the generation]
          api,     \* the jobs asked of a remote provider, by a thread
          seen,    \* [Readers -> the row as this thread read it, or Unread]
          edits, faults, crashes,
          shown,   \* the versions the row has shown
          sound    \* no entry outlived its transaction, no file was left where a
                    \* failed move put it, no picture or trashed row was written
                    \* over from a stale read, no tile came back in flight,
                    \* no tombstone outlived its entry

counters == <<edits, faults, crashes>>
storeVars == <<row, at, trash, txn, work, api, seen, counters, shown, sound>>

Jobs == 1..MaxJobs
Entries == 1..MaxEntries
User == 0                                \* the request that decides or regenerates
Readers == Jobs \cup {User}
Original == -1                           \* the bytes as uploaded, of an import
Versions == 1..MaxJobs + 1               \* picture 1, then the result of each job
ResultOf(j) == j + 1
Files == {Original} \cup Versions
NoFile == 0
NoJob == 0
Disk == 0
Nowhere == -1                            \* never written, or unlinked by the program
Emptied == -2                            \* destroyed by Empty Trash
NoEntry == [kind |-> "none"]
Idle == [op |-> "none"]
Unread == [status |-> "unread"]
NoPrev == [status |-> "none"]
Purged == [status |-> "purged", file |-> NoFile, job |-> NoJob, prev |-> NoPrev,
           imported |-> FALSE]

IsLive(r) == r.status \in {"pending", "keep", "failed"}
Exists(r) == r.status # "purged"
InFlight(r) == r.status = "pending" /\ r.file = NoFile
(* _replacement_state                                                      *)
StateOf(r) == [status |-> r.status, file |-> r.file, prev |-> r.prev]

(* An imported image with its original, a generated one, or a tile whose   *)
(* generation was just committed (generate_variations).                    *)
StoreInit ==
  /\ \E source \in {"import", "generated", "klein", "api"} :
       /\ row = [status |-> "pending",
                 file |-> IF source \in {"klein", "api"} THEN NoFile ELSE 1,
                 job |-> IF source = "klein" THEN 1 ELSE NoJob,
                 prev |-> NoPrev,
                 imported |-> source = "import"]
       /\ at = [f \in Files |-> IF \/ f = 1 /\ source \in {"import", "generated"}
                                   \/ f = Original /\ source = "import"
                                THEN Disk ELSE Nowhere]
       /\ work = [j \in Jobs |-> CASE j = 1 /\ source = "klein" -> "unqueued"
                                   [] j = 1 /\ source = "api" -> "running"
                                   [] OTHER -> "none"]
       /\ api = IF source = "api" THEN {1} ELSE {}
       /\ shown = IF source \in {"import", "generated"} THEN {1} ELSE {}
  /\ trash = [e \in Entries |-> NoEntry]
  /\ txn = Idle
  /\ seen = [t \in Readers |-> Unread]
  /\ edits = 0 /\ faults = 0 /\ crashes = 0
  /\ sound = TRUE

-----------------------------------------------------------------------------
(* Writes                                                                  *)

Merge(old, new, read) ==
  [a \in DOMAIN old |-> IF new[a] # read[a] THEN new[a] ELSE old[a]]

(* A commit of new, read before as read.  The row of a tile cancelled or   *)
(* purged meanwhile is not found, and nothing is written.                  *)
Write(new, read, restores) ==
  /\ row' = IF Exists(row) THEN Merge(row, new, read) ELSE row
  /\ shown' = shown \cup ({row'.file} \cap Versions)
  /\ sound' = /\ sound
              /\ Exists(row) => read.file = row.file /\ read.prev = row.prev
              /\ row.status = "trashed" => restores \/ row'.status = "trashed"

Fault == faults < MaxFaults /\ faults' = faults + 1 /\ UNCHANGED <<edits, crashes>>

(* cancel_job: a job that waits is never heard of again, one that runs is  *)
(* answered as failed, one not yet handed over is not found.               *)
Cancelled(j) ==
  IF j # NoJob /\ work[j] = "running" /\ j \notin api
  THEN {[work EXCEPT ![j] = "forgotten"], [work EXCEPT ![j] = "failed"]}
  ELSE {work}

-----------------------------------------------------------------------------
(* Decisions and regenerations of the user                                 *)

UserReads ==
  /\ seen[User] = Unread /\ edits < MaxEdits
  /\ IsLive(row)
  /\ seen' = [seen EXCEPT ![User] = row]
  /\ edits' = edits + 1
  /\ UNCHANGED <<row, at, trash, txn, work, api, faults, crashes, shown, sound>>

(* Decisions on a tile without a picture, which batch_image_action refuses,*)
(* are left out.                                                           *)
SetImageStatus(s) ==
  /\ seen[User] # Unread /\ seen[User].file # NoFile
  /\ Write([seen[User] EXCEPT !.status = s], seen[User], FALSE)
  /\ seen' = [seen EXCEPT ![User] = Unread]
  /\ UNCHANGED <<at, trash, txn, work, api, counters>>

(* A job in flight is cancelled only for a tile without a picture.         *)
RegenerateImageLocked(j, remote) ==
  /\ seen[User] # Unread /\ ~seen[User].imported
  /\ work[j] = "none" /\ \A i \in 1..j-1 : work[i] # "none"
  /\ LET r == seen[User] IN
       /\ Write([r EXCEPT !.status = "pending",
                          !.job = IF remote THEN @ ELSE j,
                          !.prev = IF r.file # NoFile THEN StateOf(r) ELSE NoPrev],
                r, FALSE)
       /\ \E w \in IF InFlight(r) THEN Cancelled(r.job) ELSE {work} :
            work' = [w EXCEPT ![j] = IF remote THEN "running" ELSE "unqueued"]
  /\ api' = IF remote THEN api \cup {j} ELSE api
  /\ seen' = [seen EXCEPT ![User] = Unread]
  /\ UNCHANGED <<at, trash, txn, counters>>

(* cancel_pending drops the row of a tile in flight.                       *)
CancelPending ==
  /\ Exists(row) /\ InFlight(row)
  /\ row' = Purged
  /\ work' \in Cancelled(row.job)
  /\ UNCHANGED <<at, trash, txn, api, seen, counters, shown, sound>>

-----------------------------------------------------------------------------
(* Generations                                                             *)

Enqueue(j) ==
  /\ work[j] = "unqueued"
  /\ work' = [work EXCEPT ![j] = "running"]
  /\ UNCHANGED <<row, at, trash, txn, api, seen, counters, shown, sound>>

(* A failed hand-over reads the row and answers at once.                   *)
EnqueueFails(j) ==
  /\ work[j] = "unqueued" /\ Fault
  /\ work' = [work EXCEPT ![j] = "refused"]
  /\ seen' = [seen EXCEPT ![j] = row]
  /\ UNCHANGED <<row, at, trash, txn, api, shown, sound>>

GenerationEnds(j) ==
  /\ work[j] = "running"
  /\ \E outcome \in {"done", "failed"} : work' = [work EXCEPT ![j] = outcome]
  /\ UNCHANGED <<row, at, trash, txn, api, seen, counters, shown, sound>>

(* A thread of a provider makes no call for a row that does not wait.      *)
GenerationSkipped(j) ==
  /\ work[j] = "running" /\ j \in api
  /\ row.status # "pending"
  /\ work' = [work EXCEPT ![j] = "over"]
  /\ UNCHANGED <<row, at, trash, txn, api, seen, counters, shown, sound>>

Answered(j) == work[j] \in {"done", "failed"} /\ seen[j] = Unread

(* link_completed_dataset_image finds the row by its job, a thread of a    *)
(* provider by its id.                                                     *)
AnswerReads(j) ==
  /\ Answered(j)
  /\ Exists(row) /\ (j \in api \/ row.job = j)
  /\ seen' = [seen EXCEPT ![j] = row]
  /\ UNCHANGED <<row, at, trash, txn, work, api, counters, shown, sound>>

AnswerIgnored(j) ==
  /\ Answered(j)
  /\ ~(Exists(row) /\ (j \in api \/ row.job = j))
  /\ work' = [work EXCEPT ![j] = "over"]
  /\ UNCHANGED <<row, at, trash, txn, api, seen, counters, shown, sound>>

(* _restore_replacement_after_failure                                      *)
AfterFailure(r) ==
  IF r.prev # NoPrev
  THEN [r EXCEPT !.status = r.prev.status, !.file = r.prev.file, !.prev = r.prev.prev,
                 !.job = NoJob]
  ELSE [r EXCEPT !.status = "failed"]

AnswerFails(j) ==
  /\ work[j] \in {"failed", "refused"} /\ seen[j] # Unread
  /\ Write(AfterFailure(seen[j]), seen[j], FALSE)
  /\ seen' = [seen EXCEPT ![j] = Unread]
  /\ work' = [work EXCEPT ![j] = "over"]
  /\ UNCHANGED <<at, trash, txn, api, counters>>

-----------------------------------------------------------------------------
(* Transactions: the moves in order, the commit of the row, the removal of *)
(* an entry that was used up.                                              *)

Free == {e \in Entries : trash[e] = NoEntry}
NewEntry == CHOOSE e \in Free : \A d \in Free : e <= d
Apply(m) == at' = [at EXCEPT ![m.file] = m.to]
Revert(m) == at' = [at EXCEPT ![m.file] = m.from]
RowDone(t) == [t EXCEPT !.step = "finish"]

Begin(op, moves, new, read, entries, uses, made) ==
  /\ txn' = [op |-> op, step |-> "move", moves |-> moves, n |-> 0,
             kept |-> FALSE, onward |-> FALSE,
             new |-> new, read |-> read, uses |-> uses, made |-> made]
  /\ trash' = entries

(* delete_image: the files the row has on disk go to one entry.            *)
DeleteImage ==
  /\ txn = Idle /\ Free # {}
  /\ IsLive(row)
  /\ LET e == NewEntry
         has == {f \in {row.file} \cap Versions : at[f] = Disk}
         kept == {f \in {Original} : row.imported /\ at[f] = Disk}
         move(f) == [file |-> f, from |-> Disk, to |-> e]
         moves == (IF has = {} THEN << >> ELSE <<move(row.file)>>)
                    \o (IF kept = {} THEN << >> ELSE <<move(Original)>>)
     IN Begin("delete", moves, [row EXCEPT !.status = "trashed"], row,
              [trash EXCEPT ![e] = [kind |-> "image", files |-> has \cup kept,
                                    state |-> row.status, ok |-> TRUE]],
              {}, {e})
  /\ work' \in IF InFlight(row) THEN Cancelled(row.job) ELSE {work}
  /\ UNCHANGED <<row, at, api, seen, counters, shown, sound>>

AllIn(e) == \A f \in trash[e].files : at[f] = e
Back(e) == {[file |-> f, from |-> e, to |-> Disk] : f \in trash[e].files}
InOrder(moves) ==                          \* the picture before the original
  CHOOSE s \in [1..Cardinality(moves) -> moves] :
    /\ {s[i] : i \in DOMAIN s} = moves
    /\ \A i, k \in DOMAIN s : i < k => s[i].file > s[k].file

(* restore_trashed_image                                                   *)
RestoreImage(e) ==
  /\ txn = Idle
  /\ trash[e].kind = "image"
  /\ row.status = "trashed" /\ AllIn(e)
  /\ Begin("restore", InOrder(Back(e)), [row EXCEPT !.status = trash[e].state], row,
           trash, {e}, {})
  /\ UNCHANGED <<row, at, work, api, seen, counters, shown, sound>>

(* restore_regenerated_image: the picture shown now becomes a version in   *)
(* the Trash, then the chosen one comes back if it is there.               *)
RestoreVersion(e) ==
  /\ txn = Idle
  /\ trash[e].kind = "version"
  /\ Exists(row)
  /\ LET current == {f \in {row.file} \cap Versions : at[f] = Disk}
         d == NewEntry
         old == trash[e].state
         back == [file |-> old.file, from |-> e, to |-> Disk]
         new == [row EXCEPT !.status = old.status, !.file = old.file, !.prev = old.prev,
                            !.job = NoJob]
     IN IF current = {}
        THEN Begin("swap", <<back>>, new, row, trash, {e}, {})
        ELSE /\ Free # {}
             /\ Begin("swap", <<[file |-> row.file, from |-> Disk, to |-> d], back>>,
                      new, row,
                      [trash EXCEPT ![d] = [kind |-> "version", files |-> current,
                                            state |-> StateOf(row), ok |-> TRUE]],
                      {e}, {d})
  /\ UNCHANGED <<row, at, work, api, seen, counters, shown, sound>>

(* A mutant: the version replaced is unlinked.                             *)
CommitInPlace(j) ==
  /\ txn = Idle
  /\ work[j] = "done" /\ seen[j] # Unread
  /\ LET r == seen[j]
         f == ResultOf(j)
         old == {v \in {r.prev.file : p \in {r.prev} \ {NoPrev}} \cap Versions : at[v] = Disk}
         new == [r EXCEPT !.status = "pending", !.file = f, !.prev = NoPrev, !.job = NoJob]
         written == [file |-> f, from |-> at[f], to |-> Disk]
     IN Begin("replace",
              IF old = {} THEN <<written>>
              ELSE <<written, [file |-> r.prev.file, from |-> Disk, to |-> Nowhere]>>,
              new, r, trash, {}, {})
  /\ work' = [work EXCEPT ![j] = "saving"]
  /\ seen' = [seen EXCEPT ![j] = Unread]
  /\ UNCHANGED <<row, at, api, counters, shown, sound>>

(* _commit_generated_replacement, from the row its caller read: the result *)
(* is written, the version it replaces goes to the Trash.                  *)
CommitGeneratedReplacement(j) ==
  /\ txn = Idle
  /\ work[j] = "done" /\ seen[j] # Unread
  /\ LET r == seen[j]
         f == ResultOf(j)
         e == NewEntry
         old == {v \in {r.prev.file : p \in {r.prev} \ {NoPrev}} \cap Versions : at[v] = Disk}
         new == [r EXCEPT !.status = "pending", !.file = f, !.prev = NoPrev, !.job = NoJob]
         written == [file |-> f, from |-> at[f], to |-> Disk]
     IN IF old = {}
        THEN Begin("replace", <<written>>, new, r, trash, {}, {})
        ELSE /\ Free # {}
             /\ Begin("replace",
                      <<written, [file |-> r.prev.file, from |-> Disk, to |-> e]>>, new, r,
                      [trash EXCEPT ![e] = [kind |-> "version", files |-> old,
                                            state |-> r.prev, ok |-> TRUE]],
                      {}, {e})
  /\ work' = [work EXCEPT ![j] = "saving"]
  /\ seen' = [seen EXCEPT ![j] = Unread]
  /\ UNCHANGED <<row, at, api, counters, shown, sound>>

Moving == txn # Idle /\ txn.step = "move"
NextMove == txn.moves[txn.n + 1]
MoveFile ==
  /\ Moving /\ txn.n < Len(txn.moves) /\ at[NextMove.file] = NextMove.from
  /\ Apply(NextMove)
  /\ txn' = [txn EXCEPT !.n = @ + 1]
  /\ UNCHANGED <<row, trash, work, api, seen, counters, shown, sound>>

(* Those made are undone, going on after a failure, except that a version  *)
(* already in the Trash stays there when the chosen one cannot be brought  *)
(* back: that call is outside the try of restore_regenerated_image.        *)
GiveUp ==
  IF txn.op = "swap" /\ txn.n = 1
  THEN txn' = Idle /\ sound' = FALSE
  ELSE txn' = [txn EXCEPT !.step = "undo", !.onward = TRUE] /\ UNCHANGED sound

MoveMissing ==
  /\ Moving /\ txn.n < Len(txn.moves) /\ at[NextMove.file] # NextMove.from
  /\ GiveUp
  /\ UNCHANGED <<row, at, trash, work, api, seen, counters, shown>>

MoveFails ==
  /\ Moving /\ txn.n < Len(txn.moves) /\ Fault
  /\ GiveUp
  /\ UNCHANGED <<row, at, trash, work, api, seen, shown>>

CommitRow ==
  /\ Moving /\ txn.n = Len(txn.moves)
  /\ Write(txn.new, txn.read, txn.op = "restore" /\ ~InFlight(txn.new))
  /\ txn' = RowDone(txn)
  /\ UNCHANGED <<at, trash, work, api, seen, counters>>

(* A mutant: the files stay where they were moved to.                      *)
CommitJustFails ==
  /\ Moving /\ txn.n = Len(txn.moves) /\ Fault
  /\ txn' = [txn EXCEPT !.step = "undo", !.n = 0]
  /\ UNCHANGED <<row, at, trash, work, api, seen, shown, sound>>

CommitFails ==
  /\ Moving /\ txn.n = Len(txn.moves) /\ Fault
  /\ txn' = [txn EXCEPT !.step = "undo"]
  /\ UNCHANGED <<row, at, trash, work, api, seen, shown, sound>>

(* _undo_moves, restore_entry, rollback_restored_entry                     *)
UndoMove ==
  /\ txn # Idle /\ txn.step = "undo" /\ txn.n > 0
  /\ Revert(txn.moves[txn.n])
  /\ txn' = [txn EXCEPT !.n = @ - 1]
  /\ UNCHANGED <<row, trash, work, api, seen, counters, shown, sound>>

(* The file stays where it was moved to, and so does its entry.  When a    *)
(* commit failed, a delete or restore puts back what was undone, a swap    *)
(* stops, and the two halves of a replacement are undone separately.       *)
UndoFails ==
  /\ txn # Idle /\ txn.step = "undo" /\ txn.n > 0 /\ Fault
  /\ sound' = FALSE
  /\ \/ /\ txn.onward
        /\ txn' = [txn EXCEPT !.n = @ - 1, !.kept = TRUE]
        /\ UNCHANGED at
     \/ /\ ~txn.onward /\ txn.op \in {"delete", "restore", "swap"}
        /\ txn' = [txn EXCEPT !.n = 0, !.kept = TRUE]
        /\ at' = [f \in Files |->
                    IF txn.op # "swap" /\ \E i \in DOMAIN txn.moves : txn.moves[i].file = f
                    THEN (CHOOSE m \in {txn.moves[i] : i \in DOMAIN txn.moves} : m.file = f).to
                    ELSE at[f]]
     \/ /\ ~txn.onward /\ txn.op = "replace" /\ txn.n = Len(txn.moves)
        /\ \E n \in {0, txn.n - 1} : txn' = [txn EXCEPT !.n = n, !.kept = TRUE]
        /\ UNCHANGED at
  /\ UNCHANGED <<row, trash, work, api, seen, shown>>

(* The answer of the queue is delivered again later, a provider thread     *)
(* reports the failure.                                                    *)
Reports(op) ==
  [j \in Jobs |-> IF op = "replace" /\ work[j] = "saving"
                  THEN IF j \in api THEN "failed" ELSE "done" ELSE work[j]]

(* Mutant of Undone: the entry is used up though its files went back.       *)
UndoneUsesUp ==
  /\ txn # Idle /\ txn.step = "undo" /\ txn.n = 0
  /\ trash' = [e \in Entries |-> IF e \in txn.uses THEN NoEntry ELSE trash[e]]
  /\ work' = Reports(txn.op)
  /\ txn' = Idle
  /\ UNCHANGED <<row, at, api, seen, counters, shown, sound>>

Undone ==
  /\ txn # Idle /\ txn.step = "undo" /\ txn.n = 0
  /\ trash' = [e \in Entries |-> IF e \in txn.made /\ ~txn.kept THEN NoEntry ELSE trash[e]]
  /\ work' = Reports(txn.op)
  /\ txn' = Idle
  /\ UNCHANGED <<row, at, api, seen, counters, shown, sound>>

(* remove_entry; what cannot be removed is marked.                         *)
Finish ==
  /\ txn # Idle /\ txn.step = "finish"
  /\ \/ trash' = [e \in Entries |-> IF e \in txn.uses THEN NoEntry ELSE trash[e]]
        /\ UNCHANGED counters
     \/ /\ txn.uses # {} /\ Fault
        /\ trash' = [e \in Entries |->
                       IF e \in txn.uses
                       THEN [trash[e] EXCEPT !.files = {}, !.kind = "used", !.ok = FALSE]
                       ELSE trash[e]]
  /\ work' = [j \in Jobs |-> IF txn.op = "replace" /\ work[j] = "saving" THEN "over" ELSE work[j]]
  /\ txn' = Idle
  /\ UNCHANGED <<row, at, api, seen, shown, sound>>

(* empty_trash, one entry: the tombstone, then the bytes.                  *)
Purges(e) == trash[e].kind = "image" /\ row.status = "trashed"
Refuses(e) == trash[e].kind = "image" /\ Exists(row) /\ row.status # "trashed"
Marked(e) == [trash EXCEPT ![e] = [@ EXCEPT !.kind = "purged", !.ok = FALSE]]

EmptyEntry(e) ==
  /\ txn = Idle
  /\ trash[e] # NoEntry /\ ~Refuses(e)
  /\ row' = IF Purges(e) THEN Purged ELSE row
  /\ at' = [f \in Files |-> IF at[f] = e THEN Emptied ELSE at[f]]
  /\ trash' = [trash EXCEPT ![e] = NoEntry]
  /\ UNCHANGED <<txn, work, api, seen, counters, shown, sound>>

EmptyRefused(e) ==
  /\ txn = Idle
  /\ trash[e] # NoEntry /\ Refuses(e)
  /\ trash' = Marked(e)
  /\ UNCHANGED <<row, at, txn, work, api, seen, counters, shown, sound>>

(* The commit of the purge fails and the tombstone stays, or some of the   *)
(* bytes cannot be removed.                                                *)
EmptyFails(e) ==
  /\ txn = Idle
  /\ trash[e] # NoEntry /\ ~Refuses(e) /\ Fault
  /\ \/ Purges(e) /\ sound' = FALSE /\ UNCHANGED <<row, at>>
     \/ /\ row' = IF Purges(e) THEN Purged ELSE row
        /\ \E gone \in SUBSET {f \in Files : at[f] = e} :
             at' = [f \in Files |-> IF f \in gone THEN Emptied ELSE at[f]]
        /\ UNCHANGED sound
  /\ trash' = Marked(e)
  /\ UNCHANGED <<txn, work, api, seen, shown>>

-----------------------------------------------------------------------------
(* A mutant: nobody closes the tiles of a thread that died.                *)
CrashNoRecovery ==
  /\ crashes < MaxCrashes
  /\ crashes' = crashes + 1
  /\ work' = [j \in Jobs |->
                CASE work[j] \in {"unqueued", "refused"} -> "forgotten"
                  [] j \in api /\ work[j] \in {"running", "done", "failed", "saving"} -> "over"
                  [] j \notin api /\ work[j] = "saving" -> "done"
                  [] OTHER -> work[j]]
  /\ seen' = [t \in Readers |-> Unread]
  /\ txn' = Idle
  /\ sound' = (sound /\ (txn = Idle \/ (txn.step = "finish" /\ txn.uses = {})))
  /\ UNCHANGED <<row, at, trash, api, edits, faults, shown>>

(* The server dies and starts: threads and the transaction are gone, the   *)
(* queue keeps its jobs and the outcomes it owes.  Nothing resumes a       *)
(* transaction (recover_interrupted_api_generations is the only recovery). *)
Crash ==
  /\ crashes < MaxCrashes
  /\ crashes' = crashes + 1
  /\ row' = IF Exists(row) /\ InFlight(row) /\ row.job = NoJob
            THEN [row EXCEPT !.status = "failed"] ELSE row
  /\ work' = [j \in Jobs |->
                CASE work[j] \in {"unqueued", "refused"} -> "forgotten"
                  [] j \in api /\ work[j] \in {"running", "done", "failed", "saving"} -> "over"
                  [] j \notin api /\ work[j] = "saving" -> "done"
                  [] OTHER -> work[j]]
  /\ seen' = [t \in Readers |-> Unread]
  /\ txn' = Idle
  /\ sound' = (sound /\ (txn = Idle \/ (txn.step = "finish" /\ txn.uses = {})))
  /\ UNCHANGED <<at, trash, api, edits, faults, shown>>

-----------------------------------------------------------------------------
Transaction == MoveFile \/ MoveMissing \/ CommitRow \/ UndoMove \/ Undone \/ Finish
Generation(j) ==
  \/ Enqueue(j) \/ EnqueueFails(j) \/ GenerationEnds(j) \/ GenerationSkipped(j)
  \/ AnswerReads(j) \/ AnswerIgnored(j) \/ AnswerFails(j) \/ CommitGeneratedReplacement(j)

StoreNext ==
  \/ UserReads
  \/ \E s \in {"keep", "pending"} : SetImageStatus(s)
  \/ \E j \in Jobs, remote \in BOOLEAN : RegenerateImageLocked(j, remote)
  \/ CancelPending
  \/ \E j \in Jobs : Generation(j)
  \/ DeleteImage
  \/ \E e \in Entries : \/ RestoreImage(e) \/ RestoreVersion(e)
                        \/ EmptyEntry(e) \/ EmptyRefused(e) \/ EmptyFails(e)
  \/ Transaction \/ MoveFails \/ CommitFails \/ UndoFails
  \/ Crash

(* Threads run on; the worker of the queue delivers what it owes.          *)
StoreFairness ==
  /\ WF_storeVars(Transaction)
  /\ \A j \in Jobs :
       /\ WF_storeVars(Enqueue(j) \/ EnqueueFails(j))
       /\ WF_storeVars(GenerationEnds(j) \/ GenerationSkipped(j))
       /\ WF_storeVars(AnswerReads(j) \/ AnswerIgnored(j))
       /\ WF_storeVars(AnswerFails(j))
       /\ SF_storeVars(CommitGeneratedReplacement(j))

StoreSpec == StoreInit /\ [][StoreNext]_storeVars /\ StoreFairness

-----------------------------------------------------------------------------
(* Properties                                                              *)

(* A file is where the Trash says: in an entry that lists it, or on disk.  *)
StoreTypeOK ==
  /\ row = Purged \/ /\ row.status \in {"pending", "keep", "failed", "trashed"}
                     /\ row.file \in Versions \cup {NoFile}
  /\ \A f \in Files : at[f] \in {Disk, Nowhere, Emptied} \cup Entries
  /\ \A f \in Files : at[f] \in Entries => trash[at[f]] # NoEntry
  /\ faults <= MaxFaults /\ crashes <= MaxCrashes /\ edits <= MaxEdits

(* A picture the row has shown is on disk or in the Trash until the user   *)
(* empties it, whatever fails or dies (trash.py: nothing the app deletes   *)
(* is destroyed directly).                                                 *)
NothingIsDestroyed == \A f \in shown : at[f] # Nowhere

(* Between transactions a live row with a picture has it on disk, unless a *)
(* crash or a failed compensation displaced it or a trashed row was        *)
(* written over (delete_image, restore_trashed_image,                      *)
(* restore_regenerated_image and their rollbacks).                         *)
RowHasItsFile ==
  txn = Idle /\ sound /\ Exists(row) /\ IsLive(row) /\ row.file # NoFile
    => at[row.file] = Disk

(* A trashed row can be restored with its picture, from an entry that      *)
(* holds all the files it lists (delete_image, restore_trashed_image).     *)
TrashedIsRecoverable ==
  txn = Idle /\ sound /\ row.status = "trashed" =>
    \E e \in Entries : /\ trash[e].kind = "image" /\ trash[e].ok /\ AllIn(e)
                       /\ \/ row.file \in trash[e].files \cup {NoFile}
                          \/ at[row.file] = Disk

(* A tile whose generation is alive gets its picture or its failure, also  *)
(* when the server dies, unless it waits for a job that was never handed   *)
(* to the queue, was cancelled without a word or is over, or an entry of   *)
(* the Trash outlived its transaction (link_completed_dataset_image,       *)
(* recover_interrupted_api_generations).                                   *)
Alive(j) == work[j] \in {"unqueued", "running", "refused", "done", "failed", "saving"}
Owed == InFlight(row) /\ \E j \in Jobs : Alive(j) /\ (j \in api \/ row.job = j)
Astray == row.job # NoJob /\ ~Alive(row.job)
TilesSettle == Owed ~> (~InFlight(row) \/ Astray \/ ~sound)

(* Two statements the code does not keep.  After a restart no tile waits   *)
(* for a provider thread that died (recover_interrupted_api_generations):  *)
(* the row of a failed queue job keeps its job when it is regenerated      *)
(* remotely, and is not recognised.  Only a restore brings a trashed image *)
(* back: an answer read before or after the deletion writes the row.       *)
InterruptedIsClosed ==
  [][/\ crashes' # crashes
     /\ InFlight(row) /\ (\E j \in api : Alive(j))
     /\ row.job = NoJob \/ work[row.job] = "over"
       => row'.status = "failed"]_storeVars

TrashedStaysTrashed ==
  [][row.status = "trashed" /\ Exists(row') /\ row'.status # "trashed"
       => txn # Idle /\ txn.op = "restore"]_storeVars
=============================================================================
