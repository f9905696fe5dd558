-------------------------------- MODULE Pairs --------------------------------
(***************************************************************************)
(* A photo and the versions Klein makes of it: the reconstruction of an    *)
(* image the user asked for, or the rescue of a small scraped one.  The    *)
(* pair is one evidence item: dedicated resolvers decide which version is  *)
(* admitted to training, generic status requests refuse both rows, and the *)
(* answer of the queue must not undo a decision.                           *)
(*                                                                         *)
(* Requests run in threads of their own.  The improve request holds the    *)
(* generation lock of the dataset, a status request and undo hold the      *)
(* curation lock; a resolver holds neither and commits inside BEGIN        *)
(* IMMEDIATE.  Each of the others reads rows and later writes what it      *)
(* changed.  Watermark flags, captions and the files' moves are left out   *)
(* (Curation, ImageStore), with the scores of a finished candidate.        *)
(***************************************************************************)
EXTENDS Integers, Sequences, FiniteSets

CONSTANTS MaxCandidates,  \* rows an old release left for one source
          Requests,       \* concurrent requests to resolve the pair
          MaxBatches,     \* recorded decisions, a bound on new ones
          MaxFaults,      \* failing enqueues
          MaxCrashes      \* deaths of the server

ASSUME PairAssumption ==
  /\ MaxCandidates \in Nat \ {0} /\ {MaxBatches, MaxFaults, MaxCrashes} \subseteq Nat

VARIABLES kind,       \* "improve" or "rescue": derivation_kind of the candidates
          status,     \* [Rows -> the status column, "none" without a row]
          pics,       \* the rows with a picture (filename)
          job,        \* [Candidates -> the queue's job of the candidate]
          improver,   \* improve_existing_image, or the scrape that made the pair
          curator,    \* the request that holds the curation lock
          resolver,   \* [Requests -> resolve_image_improvement, resolve_small_image_rescue]
          linker,     \* the worker in link_completed_dataset_image
          stopper,    \* cancel_pending
          history,    \* the batches of curation events
          up,         \* the server serves requests
          faults, crashes,
          leaked      \* history: a status request older than the pair, or the undo
                      \* of a decision older than it, wrote its source

rows == <<status, pics>>
threads == <<improver, curator, resolver, linker, stopper>>
pairVars == <<kind, rows, job, threads, history, up, faults, crashes, leaked>>

Source == 0
Candidates == 1..MaxCandidates
Rows == {Source} \cup Candidates
Idle == [pc |-> "idle"]
Decisions == {"pending", "keep", "reject"}

Group == {c \in Candidates : status[c] # "none"}
HasPair == Group # {}                                \* _has_image_improvement_pair
InFlight(c) == status[c] = "pending" /\ c \notin pics

(* _image_improvement_resolved_choice; _resolved_as for a rescue           *)
Choice ==
  IF Group = {} THEN "none"
  ELSE CASE status[Source] = "keep" /\ (\A c \in Group : status[c] = "reject") -> "original"
         [] status[Source] = "reject" /\ (\A c \in Group : status[c] = "reject") -> "reject"
         [] /\ status[Source] = "reject" /\ \A c \in Group : status[c] \in {"keep", "reject"}
            /\ Cardinality({c \in Group : status[c] = "keep"}) = 1 -> "improved"
         [] OTHER -> "open"
Unresolved == Choice = "open"

(* A photo without a pair, a rescue pair as the scrape has just committed  *)
(* it, or what an old release left: several candidates, each decided on    *)
(* its own.                                                                *)
PairInit ==
  /\ \/ /\ kind = "improve" /\ up = TRUE
        /\ \E s \in Decisions :
             status = [i \in Rows |-> IF i = Source THEN s ELSE "none"]
        /\ pics = {Source}
        /\ job = [c \in Candidates |-> "none"] /\ improver = Idle
     \/ /\ kind = "rescue" /\ up = TRUE
        /\ status = [i \in Rows |-> IF i \in {Source, 1} THEN "pending" ELSE "none"]
        /\ pics = {Source}
        /\ job = [c \in Candidates |-> IF c = 1 THEN "unqueued" ELSE "none"]
        /\ improver = [pc |-> "enqueue", prev |-> "pending"]
     \/ /\ kind = "improve" /\ up = FALSE /\ MaxCandidates > 1
        /\ \E s \in [Candidates -> Decisions \cup {"failed"}], d \in Decisions :
             status = [i \in Rows |-> IF i = Source THEN d ELSE s[i]]
        /\ pics = {Source} \cup {c \in Candidates : status[c] # "failed"}
        /\ job = [c \in Candidates |-> "none"] /\ improver = Idle
  /\ curator = Idle /\ linker = Idle /\ stopper = Idle
  /\ resolver = [r \in Requests |-> Idle]
  /\ history = << >>
  /\ faults = 0 /\ crashes = 0 /\ leaked = FALSE

-----------------------------------------------------------------------------
(* The request that makes a candidate                                      *)

(* Any candidate there is refuses, or returns the one in flight.           *)
ImproveReads ==
  /\ kind = "improve" /\ improver = Idle /\ ~HasPair
  /\ improver' = [pc |-> "insert", prev |-> status[Source]]
  /\ UNCHANGED <<kind, rows, job, curator, resolver, linker, stopper, history, up,
                 faults, crashes, leaked>>

(* The candidate with the id of its job, the source out of training: one   *)
(* commit, which writes the status of the source if it changes it.         *)
ImproveCommits ==
  /\ improver.pc = "insert"
  /\ status' = [status EXCEPT ![1] = "pending",
                              ![Source] = IF improver.prev = "pending" THEN @ ELSE "pending"]
  /\ job' = [job EXCEPT ![1] = "unqueued"]
  /\ improver' = [improver EXCEPT !.pc = "enqueue"]
  /\ UNCHANGED <<kind, pics, curator, resolver, linker, stopper, history, up,
                 faults, crashes, leaked>>

ImproveEnqueues ==
  /\ improver.pc = "enqueue"
  /\ job' = [job EXCEPT ![1] = "running"]
  /\ improver' = Idle
  /\ UNCHANGED <<kind, rows, curator, resolver, linker, stopper, history, up,
                 faults, crashes, leaked>>

(* No broken tile: the candidate goes and the source gets back the status  *)
(* it had when the request began; a rescue keeps its failed candidate.     *)
ImproveFails ==
  /\ improver.pc = "enqueue"
  /\ faults < MaxFaults /\ faults' = faults + 1
  /\ status' = IF kind = "rescue" THEN [status EXCEPT ![1] = "failed"]
               ELSE [status EXCEPT ![1] = "none", ![Source] = improver.prev]
  /\ job' = [job EXCEPT ![1] = "none"]
  /\ improver' = Idle
  /\ UNCHANGED <<kind, pics, curator, resolver, linker, stopper, history, up, crashes, leaked>>

-----------------------------------------------------------------------------
(* Curation: status requests and undo, under the curation lock             *)

Batch(before, after) ==
  LET changed == {i \in DOMAIN before : before[i] # after[i]}
  IN [before |-> [i \in changed |-> before[i]], after |-> [i \in changed |-> after[i]],
      reverted |-> FALSE, pair |-> HasPair]
Recorded(b) == IF DOMAIN b.before = {} THEN history ELSE Append(history, b)

(* set_image_status, batch_image_action                                    *)
SetStatusReads(s) ==
  /\ curator = Idle /\ kind = "improve" /\ ~HasPair /\ Len(history) < MaxBatches
  /\ status[Source] # s
  /\ curator' = [pc |-> "status", read |-> status[Source], new |-> s]
  /\ UNCHANGED <<kind, rows, job, improver, resolver, linker, stopper, history, up,
                 faults, crashes, leaked>>

SetStatusCommits ==
  /\ curator.pc = "status"
  /\ status' = [status EXCEPT ![Source] = curator.new]
  /\ history' = Append(history, [before |-> [i \in {Source} |-> curator.read],
                                 after |-> [i \in {Source} |-> curator.new],
                                 reverted |-> FALSE, pair |-> FALSE])
  /\ curator' = Idle
  /\ leaked' = (leaked \/ HasPair)
  /\ UNCHANGED <<kind, pics, job, improver, resolver, linker, stopper, up, faults, crashes>>

Touched(b) == DOMAIN history[b].before
Newer(b) == {n \in b+1..Len(history) :
               ~history[n].reverted /\ Touched(n) \cap Touched(b) # {}}
Conflict(b) == Newer(b) # {} \/ \E i \in Touched(b) : status[i] # history[b].after[i]

UndoReads(b) ==
  /\ curator = Idle
  /\ b \in DOMAIN history /\ ~history[b].reverted /\ ~Conflict(b)
  /\ curator' = [pc |-> "undo", batch |-> b]
  /\ UNCHANGED <<kind, rows, job, improver, resolver, linker, stopper, history, up,
                 faults, crashes, leaked>>

(* A row deleted meanwhile fails the commit.                               *)
UndoCommits ==
  /\ curator.pc = "undo"
  /\ LET b == curator.batch IN
       IF \E i \in Touched(b) : status[i] = "none"
       THEN UNCHANGED <<status, history, leaked>>
       ELSE /\ status' = [i \in Rows |-> IF i \in Touched(b) THEN history[b].before[i]
                                         ELSE status[i]]
            /\ history' = [history EXCEPT ![b].reverted = TRUE]
            /\ leaked' = (leaked \/ (HasPair /\ ~history[b].pair))
  /\ curator' = Idle
  /\ UNCHANGED <<kind, pics, job, improver, resolver, linker, stopper, up, faults, crashes>>

-----------------------------------------------------------------------------
(* The resolvers                                                           *)

(* cancel_job: a job that waits is never heard of again, one that runs is  *)
(* answered as failed, one not yet handed over is not found.               *)
Cancelled(cs) ==
  {[c \in Candidates |-> IF c \in cs /\ job[c] = "running" THEN o ELSE job[c]]
     : o \in {"over", "failed"}}

(* The preflight: an open pair, and a picture to admit.  What is left      *)
(* running of the versions not chosen is cancelled.                        *)
ResolveReads(r, c, choice) ==
  /\ resolver[r] = Idle /\ Len(history) < MaxBatches
  /\ c \in Group /\ Unresolved
  /\ choice = "improved" /\ kind = "improve" => c \in pics
  /\ resolver' = [resolver EXCEPT ![r] =
       [pc |-> "cancel", choice |-> choice, on |-> c,
        cancel |-> {d \in Group : /\ job[d] # "none" /\ d \notin pics
                                  /\ choice # "improved" \/ (kind = "improve" /\ d # c)}]]
  /\ UNCHANGED <<kind, rows, job, improver, curator, linker, stopper, history, up,
                 faults, crashes, leaked>>

ResolveCancels(r) ==
  /\ resolver[r].pc = "cancel"
  /\ job' \in Cancelled(resolver[r].cancel)
  /\ resolver' = [resolver EXCEPT ![r].pc = "commit"]
  /\ UNCHANGED <<kind, rows, improver, curator, linker, stopper, history, up,
                 faults, crashes, leaked>>

Admits(c, choice) ==
  /\ choice = "improved" => c \in pics
  /\ kind = "rescue" =>
       /\ status[Source] = "pending" /\ status[c] \in {"pending", "failed"}
       /\ choice = "improved" => status[c] # "failed"
(* Mutant of After: the source counts as suspended already.                *)
AfterLeavesSource(c, choice) ==
  [i \in Group \cup {Source} |->
     CASE i = Source -> IF choice = "original" THEN "keep"
                        ELSE IF choice = "improved" THEN status[Source] ELSE "reject"
       [] i = c /\ choice = "improved" -> "keep"
       [] OTHER -> "reject"]

After(c, choice) ==
  [i \in Group \cup {Source} |->
     CASE i = Source -> IF choice = "original" THEN "keep" ELSE "reject"
       [] i = c /\ choice = "improved" -> "keep"
       [] OTHER -> "reject"]
(* Undo must not bring back a candidate that waits for a cancelled job.    *)
Before(cancel) ==
  [i \in Group \cup {Source} |->
     IF i \in cancel /\ InFlight(i) THEN "failed" ELSE status[i]]

Decide(r) ==
  LET q == resolver[r] IN
  /\ status' = [i \in Rows |-> IF i \in Group \cup {Source} THEN After(q.on, q.choice)[i]
                               ELSE status[i]]
  /\ history' = Recorded(Batch(Before(q.cancel), After(q.on, q.choice)))

(* Mutant of ResolveCommits: the pair is not read again inside the         *)
(* transaction.                                                            *)
ResolveCommitsBlindly(r) ==
  /\ resolver[r].pc = "commit"
  /\ IF resolver[r].on \in Group THEN Decide(r) ELSE UNCHANGED <<status, history>>
  /\ resolver' = [resolver EXCEPT ![r] = Idle]
  /\ UNCHANGED <<kind, pics, job, improver, curator, linker, stopper, up, faults, crashes,
                 leaked>>

(* BEGIN IMMEDIATE: the pair is read again and decided in one transaction. *)
ResolveCommits(r) ==
  /\ resolver[r].pc = "commit"
  /\ IF /\ resolver[r].on \in Group /\ Unresolved
        /\ Admits(resolver[r].on, resolver[r].choice)
     THEN Decide(r) ELSE UNCHANGED <<status, history>>
  /\ resolver' = [resolver EXCEPT ![r] = Idle]
  /\ UNCHANGED <<kind, pics, job, improver, curator, linker, stopper, up, faults, crashes,
                 leaked>>

-----------------------------------------------------------------------------
(* The queue, its callback, and the Stop button                            *)

Generated(c) ==
  /\ job[c] = "running"
  /\ \E o \in {"done", "failed"} : job' = [job EXCEPT ![c] = o]
  /\ UNCHANGED <<kind, rows, threads, history, up, faults, crashes, leaked>>

(* No row, or a decision: the late output goes to the Trash.               *)
LinkReads(c) ==
  /\ linker = Idle /\ job[c] \in {"done", "failed"}
  /\ IF status[c] \in {"none", "keep", "reject"}
     THEN job' = [job EXCEPT ![c] = "over"] /\ UNCHANGED linker
     ELSE linker' = [pc |-> "link", on |-> c, read |-> status[c]] /\ UNCHANGED job
  /\ UNCHANGED <<kind, rows, improver, curator, resolver, stopper, history, up,
                 faults, crashes, leaked>>

(* The picture and "pending", or "failed" also when the output cannot be   *)
(* fetched.  A status is written when it differs from the one read.        *)
LinkCommits(ok) ==
  /\ linker.pc = "link"
  /\ LET c == linker.on
         new == IF ok THEN "pending" ELSE "failed"
     IN /\ ok => job[c] = "done"
        /\ status' = IF status[c] = "none" \/ new = linker.read THEN status
                     ELSE [status EXCEPT ![c] = new]
        /\ pics' = IF ok /\ status[c] # "none" THEN pics \cup {c} ELSE pics
        /\ job' = [job EXCEPT ![c] = "over"]
  /\ linker' = Idle
  /\ UNCHANGED <<kind, improver, curator, resolver, stopper, history, up, faults, crashes,
                 leaked>>

(* cancel_pending keeps the candidate as failed, so that the source can    *)
(* still be admitted.                                                      *)
StopReads ==
  /\ stopper = Idle
  /\ \E c \in Candidates : InFlight(c)
  /\ stopper' = [pc |-> "stop", on |-> {c \in Candidates : InFlight(c)}]
  /\ job' \in Cancelled(stopper'.on)
  /\ UNCHANGED <<kind, rows, improver, curator, resolver, linker, history, up,
                 faults, crashes, leaked>>

StopCommits ==
  /\ stopper.pc = "stop"
  /\ status' = [i \in Rows |-> IF i \in stopper.on /\ status[i] # "none" THEN "failed"
                               ELSE status[i]]
  /\ stopper' = Idle
  /\ UNCHANGED <<kind, pics, job, improver, curator, resolver, linker, history, up,
                 faults, crashes, leaked>>

-----------------------------------------------------------------------------
(* Death and start of the server                                           *)

Crash ==
  /\ crashes < MaxCrashes /\ crashes' = crashes + 1
  /\ up' = FALSE
  /\ improver' = Idle /\ curator' = Idle /\ linker' = Idle /\ stopper' = Idle
  /\ resolver' = [r \in Requests |-> Idle]
  /\ job' = [c \in Candidates |-> IF job[c] = "unqueued" THEN "over" ELSE job[c]]
  /\ UNCHANGED <<kind, rows, history, faults, leaked>>

(* normalize_legacy_image_improvement_rows: the latest candidate that has  *)
(* a picture, or the latest, is reviewed; the others stay as provenance.   *)
Latest ==
  LET best == IF Group \cap pics # {} THEN Group \cap pics ELSE Group
  IN CHOOSE c \in best : \A d \in best : d <= c
Kept == {c \in Group : status[c] = "keep"}
Normalized ==
  IF status[Source] = "reject" /\ Cardinality(Kept) = 1
  THEN [i \in Rows |-> IF i \in Group \ Kept THEN "reject" ELSE status[i]]
  ELSE [i \in Rows |->
          CASE i = Source -> "pending"
            [] i = Latest -> IF i \in pics \/ (status[i] = "pending" /\ job[i] # "none")
                             THEN "pending" ELSE "failed"
            [] i \in Group \ {Latest} -> "reject"
            [] OTHER -> status[i]]

Start ==
  /\ ~up /\ up' = TRUE
  /\ status' = IF kind = "improve" /\ Cardinality(Group) > 1 /\ Unresolved
               THEN Normalized ELSE status
  /\ UNCHANGED <<kind, pics, job, threads, history, faults, crashes, leaked>>

PairServes ==
  \/ ImproveReads \/ ImproveCommits \/ ImproveEnqueues \/ ImproveFails
  \/ \E s \in Decisions : SetStatusReads(s)
  \/ SetStatusCommits
  \/ \E b \in DOMAIN history : UndoReads(b)
  \/ UndoCommits
  \/ \E r \in Requests, c \in Candidates, choice \in {"original", "improved", "reject"} :
       ResolveReads(r, c, choice)
  \/ \E r \in Requests : ResolveCancels(r) \/ ResolveCommits(r)
  \/ \E c \in Candidates : Generated(c) \/ LinkReads(c)
  \/ \E ok \in BOOLEAN : LinkCommits(ok)
  \/ StopReads \/ StopCommits

PairNext == (up /\ PairServes) \/ Crash \/ Start

PairSpec == PairInit /\ [][PairNext]_pairVars

-----------------------------------------------------------------------------
(* Properties                                                              *)

(* Types; a row without a picture is never kept.                           *)
PairTypeOK ==
  /\ status \in [Rows -> Decisions \cup {"none", "failed"}]
  /\ pics \subseteq Rows
  /\ job \in [Candidates -> {"none", "unqueued", "running", "done", "failed", "over"}]
  /\ \A i \in Rows : status[i] = "keep" => i \in pics

(* The photo and a version made of it are never both admitted to training  *)
(* while the server runs, whatever requests, callbacks and restarts do,    *)
(* unless a decision older than the pair was undone or written late.       *)
OneVersionAdmitted ==
  up /\ ~leaked =>
    Cardinality({i \in Rows : status[i] = "keep" /\ HasPair}) <= 1

(* A write of what was read before: callback, failing enqueue, Stop, undo. *)
StaleWriter ==
  \/ linker.pc = "link" /\ linker.read \in {"pending", "failed"} /\ linker' = Idle
  \/ improver.pc = "enqueue" /\ improver' = Idle
  \/ stopper.pc = "stop" /\ stopper' = Idle
  \/ curator.pc \in {"undo", "status"} /\ curator' = Idle

(* A decision on the pair is changed only by an undo, or by a callback, a  *)
(* failing enqueue, a Stop or a status request that read the pair before   *)
(* the decision: the other resolver, late answers and restarts leave it.   *)
DecisionStands ==
  [][HasPair /\ Choice # "open" => Choice' = Choice \/ StaleWriter]_pairVars

(* Statements the code does not keep: of a pair one version is admitted at *)
(* most, also when older decisions are undone (resolve_image_improvement); *)
(* a decision outlives the failure of the job it cancelled (the comment in *)
(* link_completed_dataset_image); the source is out of training while its  *)
(* replacement is unresolved (_improve_existing_image_locked).             *)
NeverBothKept ==
  up /\ HasPair => Cardinality({i \in Rows : status[i] = "keep"}) <= 1
FailureKeepsDecision ==
  [][HasPair /\ Choice # "open" /\ linker.pc = "link" /\ linker' = Idle
       => Choice' = Choice]_pairVars
SourceIsSuspended ==
  up /\ kind = "improve" /\ ~leaked /\ HasPair /\ Unresolved => status[Source] # "keep"
=============================================================================
