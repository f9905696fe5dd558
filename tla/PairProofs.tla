------------------------------ MODULE PairProofs ------------------------------
(***************************************************************************)
(* Proofs about Pairs, for any number of candidates, requests, recorded    *)
(* decisions, crashes and failing enqueues.                                *)
(*                                                                         *)
(* A decision is taken only on an open pair, and a pair that is not open   *)
(* has one kept version at most (ResolvedIsExclusive).  What is left is    *)
(* undo, which writes some of the rows and not the others.  Two kinds of   *)
(* pair have different reasons why it does not keep a second version:      *)
(*   - OldPair, several candidates of an old release: no job of theirs is  *)
(*     left, so nothing opens a resolved pair but the undo of its newest   *)
(*     decision, and an open one has no kept version;                      *)
(*   - NewPair, one candidate with its job: a late answer can open the     *)
(*     pair again, but a decision that displaces a kept version has        *)
(*     changed both rows, and its undo writes both.                        *)
(***************************************************************************)
EXTENDS Pairs, TLAPS, FiniteSetTheorems, SequenceTheorems

Written == Decisions \cup {"failed"}
Partial == UNION {[D -> Written] : D \in SUBSET Rows}
Batches == [before : Partial, after : Partial, reverted : BOOLEAN, pair : BOOLEAN]

ImproveType == [pc : {"insert", "enqueue"}, prev : Decisions]
StatusType == [pc : {"status"}, read : Decisions, new : Decisions]
UndoType == [pc : {"undo"}, batch : Nat]
ResolveType == [pc : {"cancel", "commit"}, choice : {"original", "improved", "reject"},
                on : Candidates, cancel : SUBSET Candidates]
LinkType == [pc : {"link"}, on : Candidates, read : {"pending", "failed"}]
StopType == [pc : {"stop"}, on : SUBSET Candidates]

ThreadsOK ==
  /\ improver \in ImproveType \cup {Idle}
  /\ curator \in StatusType \cup UndoType \cup {Idle}
  /\ curator.pc = "undo" => curator.batch \in DOMAIN history
  /\ resolver \in [Requests -> ResolveType \cup {Idle}]
  /\ linker \in LinkType \cup {Idle}
  /\ stopper \in StopType \cup {Idle}

(* A version that an undo would keep has a picture.                        *)
HistoryOK ==
  /\ history \in Seq(Batches)
  /\ \A b \in DOMAIN history : \A i \in Touched(b) :
       /\ history[b].before[i] = "keep" => i \in pics
       /\ i = Source => history[b].before[i] \in Decisions

(* The photo is never without a picture, nor waits for one, and a request  *)
(* makes a candidate only where there is none.                             *)
SourceOK ==
  /\ Source \in pics /\ status[Source] \in Decisions
  /\ improver.pc = "insert" => ~HasPair

PairTypes == PairTypeOK /\ ThreadsOK /\ HistoryOK /\ SourceOK

-----------------------------------------------------------------------------
(* Pairs that are not open.                                                *)

LEMMA OneKept ==
  ASSUME NEW G \in SUBSET Candidates, NEW s
  PROVE  Cardinality({c \in G : s[c] = "keep"}) = 1 <=>
           \E c \in G : s[c] = "keep" /\ \A d \in G : s[d] = "keep" => d = c
<1> DEFINE K == {c \in G : s[c] = "keep"}
<1>1. IsFiniteSet(K)
  <2>1. IsFiniteSet(Candidates)
    BY FS_Interval, PairAssumption DEF Candidates
  <2> QED BY <2>1, FS_Subset
<1>2. Cardinality(K) = 1 <=> \E c : K = {c}
  BY <1>1, FS_Singleton
<1>3. ASSUME NEW c, K = {c}
      PROVE  c \in G /\ s[c] = "keep" /\ \A d \in G : s[d] = "keep" => d = c
  BY <1>3
<1>4. ASSUME NEW c \in G, s[c] = "keep", \A d \in G : s[d] = "keep" => d = c
      PROVE  K = {c}
  BY <1>4
<1> HIDE DEF K
<1>5. Cardinality(K) = 1 <=>
           \E c \in G : s[c] = "keep" /\ \A d \in G : s[d] = "keep" => d = c
  BY <1>2, <1>3, <1>4
<1> QED BY <1>5 DEF K

(* The statuses of a pair that is not open.                                *)
Settled(s, G) ==
  \/ G = {}
  \/ s[Source] \in {"keep", "reject"} /\ \A c \in G : s[c] = "reject"
  \/ /\ s[Source] = "reject" /\ \A c \in G : s[c] \in {"keep", "reject"}
     /\ \E c \in G : s[c] = "keep" /\ \A d \in G : s[d] = "keep" => d = c

LEMMA ResolvedIsSettled ==
  /\ Unresolved <=> ~Settled(status, Group)
  /\ Unresolved' <=> ~Settled(status', Group')
<1>1. Group \in SUBSET Candidates /\ Group' \in SUBSET Candidates
  BY DEF Group, Candidates
<1>2. Unresolved <=> ~Settled(status, Group)
  BY <1>1, OneKept DEF Unresolved, Choice, Settled
<1>3. Unresolved' <=> ~Settled(status', Group')
  BY <1>1, OneKept DEF Unresolved, Choice, Settled
<1> QED BY <1>2, <1>3

(* Of the versions of a pair one is kept at most.                          *)
Exclusive ==
  HasPair => \A i, k \in Rows : status[i] = "keep" /\ status[k] = "keep" => i = k

LEMMA ResolvedIsExclusive ==
  ASSUME ~Unresolved PROVE Exclusive
BY ResolvedIsSettled DEF Settled, HasPair, Exclusive, Rows, Group

-----------------------------------------------------------------------------
(* What a decision writes.                                                 *)

LEMMA PartialIs ==
  ASSUME NEW f
  PROVE  /\ f \in Partial => DOMAIN f \subseteq Rows /\ \A i \in DOMAIN f : f[i] \in Written
         /\ \A D \in SUBSET Rows : (\A i \in D : f[i] \in Written) => [i \in D |-> f[i]] \in Partial
BY DEF Partial

(* The batch of a decision: a row is in it unless it keeps its status, and *)
(* what undo will write is the status it had, or "failed".                 *)
LEMMA DecisionEffect ==
  ASSUME PairTypes, NEW r \in Requests, resolver[r] \in ResolveType,
         resolver[r].on \in Group, Decide(r)
  PROVE  /\ status' \in [Rows -> Decisions \cup {"none", "failed"}]
         /\ \A i \in Rows \ (Group \cup {Source}) : status'[i] = status[i]
         /\ status'[Source] = IF resolver[r].choice = "original" THEN "keep" ELSE "reject"
         /\ \A c \in Group :
              status'[c] = IF c = resolver[r].on /\ resolver[r].choice = "improved"
                           THEN "keep" ELSE "reject"
         /\ \/ history' = history
            \/ \E e \in Batches :
                 /\ history' = Append(history, e) /\ ~e.reverted /\ e.pair
                 /\ \A i \in DOMAIN e.before :
                      /\ i \in Group \cup {Source}
                      /\ e.before[i] \in {status[i], "failed"}
                      /\ i = Source \/ status[i] = "keep" => e.before[i] = status[i]
                 /\ \A i \in Group \cup {Source} :
                      i \notin DOMAIN e.before => status'[i] = status[i]
<1> DEFINE q == resolver[r]
           A == After(q.on, q.choice)
           B == Before(q.cancel)
           all == Group \cup {Source}
           changed == {i \in all : B[i] # A[i]}
           e == [before |-> [i \in changed |-> B[i]], after |-> [i \in changed |-> A[i]],
                 reverted |-> FALSE, pair |-> HasPair]
<1>1. /\ all \subseteq Rows /\ Source \notin Group
      /\ status \in [Rows -> Decisions \cup {"none", "failed"}]
      /\ status[Source] \in Decisions /\ \A c \in Group : status[c] # "none"
      /\ Source \in pics /\ q.cancel \subseteq Candidates
  BY PairAssumption DEF PairTypes, PairTypeOK, SourceOK, Group, Rows, Candidates, Source, ResolveType
<1>2. /\ DOMAIN A = all /\ DOMAIN B = all
      /\ A[Source] = IF q.choice = "original" THEN "keep" ELSE "reject"
      /\ \A c \in Group : A[c] = IF c = q.on /\ q.choice = "improved" THEN "keep" ELSE "reject"
      /\ \A i \in all : B[i] \in {status[i], "failed"} /\ (B[i] # status[i] => status[i] = "pending")
      /\ B[Source] = status[Source]
  BY <1>1 DEF After, Before, InFlight
<1>3. status' = [i \in Rows |-> IF i \in all THEN A[i] ELSE status[i]]
  BY DEF Decide
<1>4. history' = history \/ history' = Append(history, e)
  <2>1. DOMAIN B = all
    BY <1>2
  <2> HIDE DEF A, B
  <2>2. history' = Recorded(Batch(B, A))
    BY DEF Decide, A, B
  <2> QED BY <2>1, <2>2 DEF Recorded, Batch
<1>5. e \in Batches
  <2>1. \A i \in all : A[i] \in Written /\ B[i] \in Written
    BY <1>1, <1>2 DEF Written, Decisions
  <2> HIDE DEF A, B
  <2>2. changed \in SUBSET Rows
    BY <1>1
  <2>3. [i \in changed |-> B[i]] \in Partial /\ [i \in changed |-> A[i]] \in Partial
    BY <2>1, <2>2, PartialIs
  <2>4. HasPair \in BOOLEAN
    BY DEF HasPair
  <2> QED BY <2>3, <2>4 DEF Batches
<1>6. /\ ~e.reverted /\ e.pair
      /\ \A i \in DOMAIN e.before :
           /\ i \in all
           /\ e.before[i] \in {status[i], "failed"}
           /\ i = Source \/ status[i] = "keep" => e.before[i] = status[i]
      /\ \A i \in all : i \notin DOMAIN e.before => A[i] = status[i]
  <2>1. HasPair
    BY DEF HasPair
  <2>2. DOMAIN e.before = changed /\ \A i \in changed : e.before[i] = B[i]
    OBVIOUS
  <2> HIDE DEF A, B
  <2>3. \A i \in all : A[i] \in {"keep", "reject"}
    BY <1>2
  <2> QED BY <1>2, <2>1, <2>2, <2>3
<1> HIDE DEF A, B, e
<1>7. /\ \A i \in Rows \ all : status'[i] = status[i]
      /\ \A i \in all : status'[i] = A[i]
      /\ status' \in [Rows -> Decisions \cup {"none", "failed"}]
  BY <1>1, <1>2, <1>3 DEF Decisions
<1>8. \A i \in all : i \notin DOMAIN e.before => status'[i] = status[i]
  BY <1>6, <1>7
<1> QED BY <1>2, <1>4, <1>5, <1>6, <1>7, <1>8
-----------------------------------------------------------------------------
(* Types.                                                                  *)

LEMMA ThreadFields ==
  /\ \A q \in ResolveType : /\ [q EXCEPT !.pc = "commit"] \in ResolveType
                            /\ q.on \in Candidates /\ q.cancel \subseteq Candidates
  /\ \A m \in ImproveType : /\ [m EXCEPT !.pc = "enqueue"] \in ImproveType
                            /\ m.prev \in Decisions
  /\ \A q \in StatusType : q.new \in Decisions /\ q.read \in Decisions
  /\ \A q \in LinkType : q.on \in Candidates /\ q.read \in {"pending", "failed"}
  /\ \A q \in StopType : q.on \subseteq Candidates
BY DEF ResolveType, ImproveType, StatusType, LinkType, StopType

(* What a thread is at each of its places.                                 *)
LEMMA ThreadPlaces ==
  ASSUME ThreadsOK
  PROVE  /\ improver.pc \in {"insert", "enqueue"} => improver \in ImproveType
         /\ curator.pc = "status" => curator \in StatusType
         /\ curator.pc = "undo" => curator \in UndoType /\ curator.batch \in DOMAIN history
         /\ \A r \in Requests : resolver[r].pc \in {"cancel", "commit"} => resolver[r] \in ResolveType
         /\ linker.pc = "link" => linker \in LinkType
         /\ stopper.pc = "stop" => stopper \in StopType
BY DEF ThreadsOK, Idle, StatusType, UndoType

(* Normalisation keeps no version that was not kept, and no row goes.      *)
LEMMA NormalizedRows ==
  ASSUME PairTypes
  PROVE  /\ Normalized \in [Rows -> Decisions \cup {"none", "failed"}]
         /\ \A i \in Rows : /\ Normalized[i] = "keep" => status[i] = "keep"
                            /\ status[i] # "none" => Normalized[i] # "none"
         /\ Normalized[Source] \in Decisions
BY PairAssumption DEF PairTypes, PairTypeOK, SourceOK, Normalized, Kept, Group, Rows, Candidates, Source, Decisions

(* What an undo writes, unless a row is gone.                              *)
LEMMA UndoEffect ==
  ASSUME PairTypes, UndoCommits
  PROVE  /\ curator.batch \in DOMAIN history /\ curator' = Idle
         /\ LET b == curator.batch IN
              \/ UNCHANGED <<status, history, leaked>>
              \/ /\ \A i \in Touched(b) : status[i] # "none"
                 /\ status' = [i \in Rows |-> IF i \in Touched(b) THEN history[b].before[i]
                                              ELSE status[i]]
                 /\ history' = [history EXCEPT ![b].reverted = TRUE]
                 /\ leaked' = (leaked \/ (HasPair /\ ~history[b].pair))
BY ThreadPlaces DEF PairTypes, UndoCommits

LEMMA UndoHistory ==
  ASSUME HistoryOK, NEW b \in DOMAIN history, history' = [history EXCEPT ![b].reverted = TRUE]
  PROVE  /\ history' \in Seq(Batches) /\ Len(history') = Len(history)
         /\ DOMAIN history' = DOMAIN history /\ history'[b].reverted
         /\ \A n \in DOMAIN history : /\ history'[n].before = history[n].before
                                      /\ history'[n].pair = history[n].pair
                                      /\ n # b => history'[n] = history[n]
<1>1. \A n \in DOMAIN history : history[n] \in Batches
  BY DEF HistoryOK
<1>2. [history[b] EXCEPT !.reverted = TRUE] \in Batches
  BY <1>1 DEF Batches
<1>3. history' = [history EXCEPT ![b] = [history[b] EXCEPT !.reverted = TRUE]]
  OBVIOUS
<1>4. history' \in Seq(Batches) /\ Len(history') = Len(history) /\ DOMAIN history' = DOMAIN history
  BY <1>2, <1>3 DEF HistoryOK
<1>5. \A n \in DOMAIN history : n # b => history'[n] = history[n]
  BY <1>3 DEF HistoryOK
<1>6. /\ history'[b].before = history[b].before /\ history'[b].pair = history[b].pair
      /\ history'[b].reverted
  BY <1>1, <1>3 DEF Batches, HistoryOK
<1> QED BY <1>4, <1>5, <1>6

LEMMA BatchFields ==
  ASSUME HistoryOK
  PROVE  \A n \in DOMAIN history :
           /\ history[n] \in Batches /\ history[n].reverted \in BOOLEAN /\ history[n].pair \in BOOLEAN
           /\ Touched(n) \subseteq Rows /\ \A i \in Touched(n) : history[n].before[i] \in Written
<1>1. \A n \in DOMAIN history : history[n] \in Batches
  BY DEF HistoryOK
<1> QED BY <1>1, PartialIs DEF Batches, Touched

(* One more batch.                                                         *)
LEMMA OneMore ==
  ASSUME history \in Seq(Batches), NEW e \in Batches, history' = Append(history, e)
  PROVE  /\ history' \in Seq(Batches) /\ Len(history') = Len(history) + 1
         /\ DOMAIN history' = DOMAIN history \cup {Len(history) + 1}
         /\ Len(history) \in Nat /\ DOMAIN history = 1 .. Len(history)
         /\ history'[Len(history) + 1] = e
         /\ \A n \in DOMAIN history : history'[n] = history[n]
OBVIOUS

(* A status request records the row it wrote.                              *)
LEMMA StatusEffect ==
  ASSUME PairTypes, SetStatusCommits
  PROVE  /\ status' = [status EXCEPT ![Source] = curator.new] /\ curator.new \in Decisions
         /\ \E e \in Batches : /\ history' = Append(history, e) /\ ~e.pair
                               /\ DOMAIN e.before = {Source}
                               /\ e.before[Source] = curator.read /\ curator.read \in Decisions
<1> DEFINE e == [before |-> [i \in {Source} |-> curator.read],
                 after |-> [i \in {Source} |-> curator.new], reverted |-> FALSE, pair |-> FALSE]
<1>1. curator.new \in Decisions /\ curator.read \in Decisions
  BY ThreadPlaces, ThreadFields DEF PairTypes, SetStatusCommits
<1>2. {Source} \in SUBSET Rows
  BY DEF Rows
<1>3. [i \in {Source} |-> curator.read] \in Partial /\ [i \in {Source} |-> curator.new] \in Partial
  BY <1>1, <1>2, PartialIs DEF Written
<1>4. e \in Batches
  BY <1>3 DEF Batches
<1>5. history' = Append(history, e) /\ ~e.pair
  BY DEF SetStatusCommits
<1>6. DOMAIN e.before = {Source} /\ e.before[Source] = curator.read
  OBVIOUS
<1> QED BY <1>1, <1>4, <1>5, <1>6 DEF SetStatusCommits

LEMMA TypeStep ==
  ASSUME PairTypes, [PairNext]_pairVars
  PROVE  PairTypeOK'
<1> USE DEF PairTypes, PairTypeOK, rows, threads
<1>0. /\ Source \in Rows /\ Candidates \subseteq Rows /\ Source \notin Candidates /\ 1 \in Candidates
      /\ Source \in pics
  BY PairAssumption DEF Rows, Candidates, Source, SourceOK
<1>1. CASE ImproveReads
  BY <1>1, <1>0 DEF ImproveReads, Decisions
<1>2. CASE ImproveCommits
  BY <1>2, <1>0 DEF ImproveCommits, Decisions
<1>3. CASE ImproveEnqueues
  BY <1>3, <1>0 DEF ImproveEnqueues, Decisions
<1>4. CASE ImproveFails
  <2>1. improver.prev \in Decisions
    BY <1>4, ThreadPlaces, ThreadFields DEF ImproveFails
  <2> QED BY <1>4, <1>0, <2>1 DEF ImproveFails, Decisions
<1>5. ASSUME NEW s \in Decisions, SetStatusReads(s) PROVE PairTypeOK'
  BY <1>5, <1>0 DEF SetStatusReads, Decisions
<1>6. CASE SetStatusCommits
  BY <1>6, <1>0, StatusEffect DEF SetStatusCommits, Decisions
<1>7. ASSUME NEW b \in DOMAIN history, UndoReads(b) PROVE PairTypeOK'
  BY <1>7, <1>0 DEF UndoReads, Decisions
<1>8. CASE UndoCommits
  <2>1. /\ status' \in [Rows -> Decisions \cup {"none", "failed"}]
        /\ \A i \in Rows : status'[i] = "keep" => i \in pics
    BY <1>8, UndoEffect, BatchFields DEF HistoryOK, Written
  <2> QED BY <1>8, <2>1 DEF UndoCommits
<1>9. ASSUME NEW r \in Requests, NEW c \in Candidates,
             NEW choice \in {"original", "improved", "reject"}, ResolveReads(r, c, choice)
       PROVE  PairTypeOK'
  BY <1>9, <1>0 DEF ResolveReads, Decisions
<1>10. ASSUME NEW r \in Requests, ResolveCancels(r) PROVE PairTypeOK'
  BY <1>10, <1>0 DEF ResolveCancels, Cancelled, Decisions
<1>11. ASSUME NEW r \in Requests, ResolveCommits(r) PROVE PairTypeOK'
  <2>1. CASE UNCHANGED status
    BY <1>11, <2>1 DEF ResolveCommits
  <2>2. CASE /\ resolver[r].on \in Group /\ Admits(resolver[r].on, resolver[r].choice)
             /\ Decide(r)
    <3>1. resolver[r] \in ResolveType
      BY <1>11, ThreadPlaces DEF ResolveCommits
    <3>2. \A i \in Rows : status'[i] = "keep" => i \in pics
      BY <1>0, <2>2, <3>1, DecisionEffect DEF Admits, Rows
    <3> QED BY <1>11, <2>2, <3>1, <3>2, DecisionEffect DEF ResolveCommits
  <2> QED BY <1>11, <2>1, <2>2 DEF ResolveCommits
<1>12. ASSUME NEW c \in Candidates, Generated(c) PROVE PairTypeOK'
  BY <1>12, <1>0 DEF Generated, Decisions
<1>13. ASSUME NEW c \in Candidates, LinkReads(c) PROVE PairTypeOK'
  BY <1>13, <1>0 DEF LinkReads, Decisions
<1>14. ASSUME NEW ok \in BOOLEAN, LinkCommits(ok) PROVE PairTypeOK'
  <2>1. linker.on \in Candidates
    BY <1>14, ThreadPlaces, ThreadFields DEF LinkCommits
  <2> QED BY <1>14, <1>0, <2>1 DEF LinkCommits, Decisions
<1>15. CASE StopReads
  BY <1>15, <1>0 DEF StopReads, Cancelled, Decisions
<1>16. CASE StopCommits
  BY <1>16, <1>0 DEF StopCommits, Decisions
<1>17. CASE Crash
  BY <1>17, <1>0 DEF Crash, Decisions
<1>18. CASE Start
  BY <1>18, NormalizedRows DEF Start
<1>19. CASE UNCHANGED pairVars
  BY <1>19 DEF pairVars
<1> QED
  BY <1>1, <1>2, <1>3, <1>4, <1>5, <1>6, <1>7, <1>8, <1>9, <1>10, <1>11,
     <1>12, <1>13, <1>14, <1>15, <1>16, <1>17, <1>18, <1>19
     DEF PairNext, PairServes

(* A batch is never removed; a new one has the rows its request wrote.     *)
LEMMA HistoryGrows ==
  ASSUME PairTypes, [PairNext]_pairVars
  PROVE  DOMAIN history \subseteq DOMAIN history' /\ history' \in Seq(Batches)
<1> USE DEF PairTypes
<1>1. CASE UNCHANGED history
  BY <1>1 DEF HistoryOK
<1>2. CASE SetStatusCommits
  BY <1>2, StatusEffect, OneMore DEF HistoryOK
<1>3. CASE UndoCommits
  BY <1>3, UndoEffect, UndoHistory DEF HistoryOK
<1>4. ASSUME NEW r \in Requests, ResolveCommits(r)
      PROVE  DOMAIN history \subseteq DOMAIN history' /\ history' \in Seq(Batches)
  <2>1. CASE /\ resolver[r].on \in Group /\ Decide(r)
    <3>1. resolver[r] \in ResolveType
      BY <1>4, ThreadPlaces DEF ResolveCommits
    <3> QED BY <2>1, <3>1, DecisionEffect, OneMore DEF HistoryOK
  <2> QED BY <1>1, <1>4, <2>1 DEF ResolveCommits
<1> QED
  BY <1>1, <1>2, <1>3, <1>4
     DEF PairNext, PairServes, pairVars, ImproveReads, ImproveCommits, ImproveEnqueues,
         ImproveFails, SetStatusReads, UndoReads, ResolveReads, ResolveCancels, Generated,
         LinkReads, LinkCommits, StopReads, StopCommits, Crash, Start

LEMMA ThreadsStep ==
  ASSUME PairTypes, [PairNext]_pairVars
  PROVE  ThreadsOK'
<1> USE DEF PairTypes, ThreadsOK, rows, threads
<1>0. /\ DOMAIN history \subseteq DOMAIN history' /\ Source \in Rows
      /\ status \in [Rows -> Decisions \cup {"none", "failed"}] /\ status[Source] \in Decisions
      /\ Candidates \subseteq Rows
  BY HistoryGrows DEF PairTypeOK, SourceOK, Rows
<1>1. CASE ImproveReads
  <2>1. [pc |-> "insert", prev |-> status[Source]] \in ImproveType
    BY <1>0 DEF ImproveType
  <2> QED BY <1>1, <2>1 DEF ImproveReads
<1>2. CASE ImproveCommits
  <2>1. improver' \in ImproveType
    BY <1>2, ThreadPlaces, ThreadFields DEF ImproveCommits
  <2> QED BY <1>2, <2>1 DEF ImproveCommits
<1>3. CASE ImproveEnqueues
  BY <1>3 DEF ImproveEnqueues
<1>4. CASE ImproveFails
  BY <1>4 DEF ImproveFails
<1>5. ASSUME NEW s \in Decisions, SetStatusReads(s) PROVE ThreadsOK'
  <2>1. curator' \in StatusType /\ curator'.pc # "undo"
    BY <1>5, <1>0 DEF SetStatusReads, StatusType
  <2> QED BY <1>5, <2>1 DEF SetStatusReads
<1>6. CASE SetStatusCommits
  BY <1>6 DEF SetStatusCommits, Idle
<1>7. ASSUME NEW b \in DOMAIN history, UndoReads(b) PROVE ThreadsOK'
  <2>1. /\ curator' \in UndoType /\ curator'.batch \in DOMAIN history
        /\ history' = history
    BY <1>7 DEF UndoReads, UndoType, HistoryOK
  <2> QED BY <1>7, <2>1 DEF UndoReads
<1>8. CASE UndoCommits
  BY <1>8 DEF UndoCommits, Idle
<1>9. ASSUME NEW r \in Requests, NEW c \in Candidates,
             NEW choice \in {"original", "improved", "reject"}, ResolveReads(r, c, choice)
       PROVE  ThreadsOK'
  <2>1. /\ Group \subseteq Candidates
        /\ \A K : K = {d \in Group : /\ job[d] # "none" /\ d \notin pics
                                     /\ choice # "improved" \/ (kind = "improve" /\ d # c)}
                 => K \subseteq Candidates
    BY DEF Group
  <2>2. [pc |-> "cancel", choice |-> choice, on |-> c,
         cancel |-> {d \in Group : /\ job[d] # "none" /\ d \notin pics
                                   /\ choice # "improved" \/ (kind = "improve" /\ d # c)}]
          \in ResolveType
    BY <2>1 DEF ResolveType
  <2>3. resolver' \in [Requests -> ResolveType \cup {Idle}]
    BY <1>9, <2>2 DEF ResolveReads
  <2> QED BY <1>9, <2>3 DEF ResolveReads
<1>10. ASSUME NEW r \in Requests, ResolveCancels(r) PROVE ThreadsOK'
  <2>1. resolver' \in [Requests -> ResolveType \cup {Idle}]
    BY <1>10, ThreadPlaces, ThreadFields DEF ResolveCancels
  <2> QED BY <1>10, <2>1 DEF ResolveCancels
<1>11. ASSUME NEW r \in Requests, ResolveCommits(r) PROVE ThreadsOK'
  BY <1>11, <1>0 DEF ResolveCommits
<1>12. ASSUME NEW c \in Candidates, Generated(c) PROVE ThreadsOK'
  BY <1>12 DEF Generated
<1>13. ASSUME NEW c \in Candidates, LinkReads(c) PROVE ThreadsOK'
  <2>1. CASE status[c] \in {"none", "keep", "reject"}
    BY <1>13, <2>1 DEF LinkReads
  <2>2. CASE status[c] \notin {"none", "keep", "reject"}
    <3>1. status[c] \in {"pending", "failed"}
      BY <1>0, <2>2 DEF Decisions
    <3>2. [pc |-> "link", on |-> c, read |-> status[c]] \in LinkType
      BY <3>1 DEF LinkType
    <3> QED BY <1>13, <2>2, <3>2 DEF LinkReads
  <2> QED BY <2>1, <2>2
<1>14. ASSUME NEW ok \in BOOLEAN, LinkCommits(ok) PROVE ThreadsOK'
  BY <1>14 DEF LinkCommits
<1>15. CASE StopReads
  <2>1. [pc |-> "stop", on |-> {c \in Candidates : InFlight(c)}] \in StopType
    BY DEF StopType
  <2> QED BY <1>15, <2>1 DEF StopReads
<1>16. CASE StopCommits
  BY <1>16 DEF StopCommits
<1>17. CASE Crash
  BY <1>17 DEF Crash, Idle
<1>18. CASE Start
  BY <1>18 DEF Start
<1>19. CASE UNCHANGED pairVars
  BY <1>19 DEF pairVars
<1> QED
  BY <1>1, <1>2, <1>3, <1>4, <1>5, <1>6, <1>7, <1>8, <1>9, <1>10, <1>11,
     <1>12, <1>13, <1>14, <1>15, <1>16, <1>17, <1>18, <1>19
     DEF PairNext, PairServes

(* Undo and decisions write pictures that are there, and the photo stays.  *)
LEMMA HistoryStep ==
  ASSUME PairTypes, [PairNext]_pairVars
  PROVE  HistoryOK'
<1> USE DEF PairTypes
<1> DEFINE Fits(e) == \A i \in DOMAIN e.before :
                        /\ e.before[i] = "keep" => i \in pics
                        /\ i = Source => e.before[i] \in Decisions
<1>0. /\ history' \in Seq(Batches) /\ Source \in pics /\ status[Source] \in Decisions
      /\ \A i \in Rows : status[i] = "keep" => i \in pics
  BY HistoryGrows DEF SourceOK, PairTypeOK
<1>1. pics \subseteq pics'
  BY DEF PairNext, PairServes, pairVars, rows, ImproveReads, ImproveCommits, ImproveEnqueues,
         ImproveFails, SetStatusReads, SetStatusCommits, UndoReads, UndoCommits, ResolveReads,
         ResolveCancels, ResolveCommits, Generated, LinkReads, LinkCommits, StopReads,
         StopCommits, Crash, Start
<1>2. \A n \in DOMAIN history : Fits(history[n])
  BY DEF HistoryOK, Touched
<1>3. SUFFICES \A n \in DOMAIN history' : Fits(history'[n])
  BY <1>0, <1>1 DEF HistoryOK, Touched
<1>4. CASE UNCHANGED history
  BY <1>2, <1>4
<1>5. CASE SetStatusCommits
  <2>1. PICK e \in Batches : /\ history' = Append(history, e) /\ DOMAIN e.before = {Source}
                             /\ e.before[Source] = curator.read /\ curator.read \in Decisions
    BY <1>5, StatusEffect
  <2>2. Fits(e)
    BY <1>0, <2>1
  <2> QED BY <1>2, <2>1, <2>2, OneMore DEF HistoryOK
<1>6. CASE UndoCommits
  <2>1. \A n \in DOMAIN history' : n \in DOMAIN history /\ history'[n].before = history[n].before
    BY <1>6, UndoEffect, UndoHistory
  <2> QED BY <1>2, <2>1
<1>7. ASSUME NEW r \in Requests, ResolveCommits(r)
      PROVE  \A n \in DOMAIN history' : Fits(history'[n])
  <2>1. CASE /\ resolver[r].on \in Group /\ Decide(r)
    <3>1. resolver[r] \in ResolveType
      BY <1>7, ThreadPlaces DEF ResolveCommits
    <3>2. CASE history' = history
      BY <1>2, <3>2
    <3>3. ASSUME NEW e \in Batches, history' = Append(history, e),
                 \A i \in DOMAIN e.before :
                   /\ i \in Group \cup {Source}
                   /\ e.before[i] \in {status[i], "failed"}
                   /\ i = Source \/ status[i] = "keep" => e.before[i] = status[i]
          PROVE  \A n \in DOMAIN history' : Fits(history'[n])
      <4>1. Group \cup {Source} \subseteq Rows
        BY DEF Group, Rows
      <4>2. Fits(e)
        BY <1>0, <3>3, <4>1
      <4> QED BY <1>2, <3>3, <4>2, OneMore DEF HistoryOK
    <3> QED BY <2>1, <3>1, <3>2, <3>3, DecisionEffect
  <2> QED BY <1>4, <1>7, <2>1 DEF ResolveCommits
<1> QED
  BY <1>4, <1>5, <1>6, <1>7
     DEF PairNext, PairServes, pairVars, ImproveReads, ImproveCommits, ImproveEnqueues,
         ImproveFails, SetStatusReads, UndoReads, ResolveReads, ResolveCancels, Generated,
         LinkReads, LinkCommits, StopReads, StopCommits, Crash, Start

LEMMA SourceStep ==
  ASSUME PairTypes, [PairNext]_pairVars
  PROVE  SourceOK'
<1> USE DEF PairTypes, SourceOK, rows, threads
<1>0. /\ Source \in Rows /\ Candidates \subseteq Rows /\ Source \notin Candidates
      /\ status \in [Rows -> Decisions \cup {"none", "failed"}]
      /\ (HasPair <=> \E c \in Candidates : status[c] # "none")
      /\ (HasPair' <=> \E c \in Candidates : status'[c] # "none")
      /\ {"pending", "keep", "reject"} = Decisions
  BY PairAssumption DEF PairTypeOK, Rows, Candidates, Source, HasPair, Group, Decisions
<1>1. CASE ImproveReads
  BY <1>1, <1>0 DEF ImproveReads
<1>2. CASE ImproveCommits
  <2>1. improver' \in ImproveType /\ improver'.pc = "enqueue"
    BY <1>2, ThreadPlaces DEF ImproveCommits, ImproveType
  <2>2. status'[Source] \in Decisions
    BY <1>2, <1>0, PairAssumption DEF ImproveCommits, Candidates
  <2> QED BY <1>2, <2>1, <2>2 DEF ImproveCommits
<1>3. CASE ImproveEnqueues
  BY <1>3, <1>0 DEF ImproveEnqueues, Idle
<1>4. CASE ImproveFails
  <2>1. improver.prev \in Decisions
    BY <1>4, ThreadPlaces, ThreadFields DEF ImproveFails
  <2>2. status'[Source] \in Decisions
    BY <1>4, <1>0, <2>1, PairAssumption DEF ImproveFails, Candidates
  <2> QED BY <1>4, <2>2 DEF ImproveFails, Idle
<1>5. ASSUME NEW s \in Decisions, SetStatusReads(s) PROVE SourceOK'
  BY <1>5, <1>0 DEF SetStatusReads
<1>6. CASE SetStatusCommits
  <2>1. status' = [status EXCEPT ![Source] = curator.new] /\ curator.new \in Decisions
    BY <1>6, StatusEffect
  <2> QED BY <1>6, <1>0, <2>1 DEF SetStatusCommits
<1>7. ASSUME NEW b \in DOMAIN history, UndoReads(b) PROVE SourceOK'
  BY <1>7, <1>0 DEF UndoReads
<1>8. CASE UndoCommits
  <2>1. \A n \in DOMAIN history : \A i \in Touched(n) :
          /\ i = Source => history[n].before[i] \in Decisions
    BY DEF HistoryOK
  <2>2. status'[Source] \in Decisions /\ (HasPair' => HasPair)
    BY <1>8, <1>0, <2>1, UndoEffect
  <2> QED BY <1>8, <2>2 DEF UndoCommits
<1>9. ASSUME NEW r \in Requests, NEW c \in Candidates,
             NEW choice \in {"original", "improved", "reject"}, ResolveReads(r, c, choice)
       PROVE  SourceOK'
  BY <1>9, <1>0 DEF ResolveReads
<1>10. ASSUME NEW r \in Requests, ResolveCancels(r) PROVE SourceOK'
  BY <1>10, <1>0 DEF ResolveCancels
<1>11. ASSUME NEW r \in Requests, ResolveCommits(r) PROVE SourceOK'
  <2>1. CASE UNCHANGED status
    BY <1>11, <1>0, <2>1 DEF ResolveCommits
  <2>2. CASE /\ resolver[r].on \in Group /\ Decide(r)
    <3>1. resolver[r] \in ResolveType
      BY <1>11, ThreadPlaces DEF ResolveCommits
    <3>2. status'[Source] \in Decisions /\ HasPair
      BY <1>0, <2>2, <3>1, DecisionEffect DEF HasPair
    <3> QED BY <1>11, <3>2 DEF ResolveCommits
  <2> QED BY <1>11, <2>1, <2>2 DEF ResolveCommits
<1>12. ASSUME NEW c \in Candidates, Generated(c) PROVE SourceOK'
  BY <1>12, <1>0 DEF Generated
<1>13. ASSUME NEW c \in Candidates, LinkReads(c) PROVE SourceOK'
  BY <1>13, <1>0 DEF LinkReads
<1>14. ASSUME NEW ok \in BOOLEAN, LinkCommits(ok) PROVE SourceOK'
  <2>1. linker.on \in Candidates
    BY <1>14, ThreadPlaces, ThreadFields DEF LinkCommits
  <2>2. status'[Source] = status[Source] /\ (HasPair' => HasPair) /\ pics \subseteq pics'
    BY <1>14, <1>0, <2>1 DEF LinkCommits
  <2> QED BY <1>14, <2>2 DEF LinkCommits
<1>15. CASE StopReads
  BY <1>15, <1>0 DEF StopReads
<1>16. CASE StopCommits
  <2>1. stopper.on \subseteq Candidates
    BY <1>16, ThreadPlaces, ThreadFields DEF StopCommits
  <2> QED BY <1>16, <1>0, <2>1 DEF StopCommits
<1>17. CASE Crash
  BY <1>17, <1>0 DEF Crash, Idle
<1>18. CASE Start
  <2>1. status'[Source] \in Decisions
    BY <1>18, NormalizedRows DEF Start
  <2>2. ~HasPair => status' = status
    BY <1>18, FS_EmptySet DEF Start, HasPair
  <2> QED BY <1>18, <1>0, <2>1, <2>2 DEF Start
<1>19. CASE UNCHANGED pairVars
  BY <1>19, <1>0 DEF pairVars
<1> QED
  BY <1>1, <1>2, <1>3, <1>4, <1>5, <1>6, <1>7, <1>8, <1>9, <1>10, <1>11,
     <1>12, <1>13, <1>14, <1>15, <1>16, <1>17, <1>18, <1>19
     DEF PairNext, PairServes

LEMMA PairIsTyped == PairSpec => []PairTypes
<1>1. PairInit => PairTypes
  <2> SUFFICES ASSUME PairInit PROVE PairTypes
    OBVIOUS
  <2> USE PairAssumption DEF PairInit, Rows, Candidates, Source, Decisions
  <2>1. PairTypeOK
    BY DEF PairTypeOK
  <2>2. ThreadsOK
    BY DEF ThreadsOK, Idle, ImproveType
  <2>3. HistoryOK
    BY DEF HistoryOK
  <2>4. SourceOK
    BY DEF SourceOK, HasPair, Group, Idle
  <2> QED BY <2>1, <2>2, <2>3, <2>4 DEF PairTypes
<1>2. PairTypes /\ [PairNext]_pairVars => PairTypes'
  BY TypeStep, ThreadsStep, HistoryStep, SourceStep DEF PairTypes
<1> QED BY <1>1, <1>2, PTL DEF PairSpec

-----------------------------------------------------------------------------
(* An old pair: several candidates, without jobs.                          *)

NoneKept == \A i \in Rows : status[i] # "keep"

(* Nobody writes its rows but curation, and no row waits for a picture.    *)
OldRows ==
  /\ MaxCandidates > 1 /\ kind = "improve"
  /\ \A c \in Candidates : status[c] # "none" /\ job[c] = "none"
  /\ improver = Idle /\ linker = Idle /\ stopper = Idle /\ curator.pc # "status"
  /\ \A i \in Rows : status[i] = "pending" => i \in pics

(* The last decision stands until it is undone, and undone it leaves no    *)
(* version kept.                                                           *)
OldBatches ==
  /\ \A b \in DOMAIN history : \A i \in Touched(b) :
       history[b].before[i] = "pending" => i \in pics
  /\ \A b \in DOMAIN history : ~history[b].reverted =>
       /\ b = Len(history) /\ ~Unresolved
       /\ \A i \in Rows : IF i \in Touched(b) THEN history[b].before[i] # "keep"
                          ELSE status[i] # "keep"
  /\ curator.pc = "undo" => ~history[curator.batch].reverted

OldPair ==
  /\ OldRows /\ OldBatches
  /\ up => Exclusive /\ (Unresolved => NoneKept)

(* What can happen to one.                                                 *)
LEMMA OldActions ==
  ASSUME PairTypes, OldPair, [PairNext]_pairVars
  PROVE  \/ /\ UNCHANGED <<kind, status, pics, job, history, improver, linker, stopper, up>>
            /\ curator' = curator \/ \E b \in DOMAIN history : UndoReads(b)
         \/ up /\ UndoCommits
         \/ up /\ \E r \in Requests : ResolveCommits(r)
         \/ Crash
         \/ Start
<1> USE DEF OldPair, OldRows, rows, threads
<1>1. /\ HasPair /\ \A c \in Candidates : ~InFlight(c)
      /\ job \in [Candidates -> {"none", "unqueued", "running", "done", "failed", "over"}]
  BY PairAssumption DEF HasPair, Group, Candidates, Rows, InFlight, PairTypes, PairTypeOK
<1>2. \A cs : Cancelled(cs) = {job}
  BY <1>1 DEF Cancelled
<1>3. ~ImproveReads /\ ~ImproveCommits /\ ~ImproveEnqueues /\ ~ImproveFails
  BY <1>1 DEF Idle, ImproveReads, ImproveCommits, ImproveEnqueues, ImproveFails
<1>4. ~SetStatusCommits /\ \A s \in Decisions : ~SetStatusReads(s)
  BY <1>1 DEF SetStatusCommits, SetStatusReads
<1>5. /\ \A c \in Candidates : ~Generated(c) /\ ~LinkReads(c)
      /\ \A ok \in BOOLEAN : ~LinkCommits(ok)
      /\ ~StopReads /\ ~StopCommits
  BY <1>1 DEF Idle, Generated, LinkReads, LinkCommits, StopReads, StopCommits
<1>6. \A r \in Requests : ResolveCancels(r) => job' = job
  BY <1>2 DEF ResolveCancels
<1> QED
  BY <1>3, <1>4, <1>5, <1>6
     DEF PairNext, PairServes, pairVars, UndoReads, ResolveReads, ResolveCancels

(* The decision taken on an old pair is its only one to undo.              *)
LEMMA OldDecides ==
  ASSUME PairTypes, PairTypes', OldPair, up, NEW r \in Requests, ResolveCommits(r)
  PROVE  OldPair'
<1> USE DEF PairTypes
<1>1. UNCHANGED <<kind, pics, job, improver, curator, linker, stopper, up>>
  BY DEF ResolveCommits
<1>2. CASE UNCHANGED <<status, history>>
  BY <1>1, <1>2 DEF OldPair, OldRows, OldBatches, Touched, NoneKept, Exclusive, Unresolved,
                    Choice, HasPair, Group, Kept
<1>3. CASE resolver[r].on \in Group /\ Unresolved /\ Decide(r)
  <2>1. resolver[r] \in ResolveType
    BY ThreadPlaces DEF ResolveCommits
  <2>2. /\ Group = Candidates /\ Group \cup {Source} = Rows /\ Source \notin Group
        /\ \A i \in Rows : status[i] = "pending" => i \in pics
    BY PairAssumption DEF OldPair, OldRows, Group, Rows, Candidates, Source
  <2>3. /\ NoneKept /\ \A b \in DOMAIN history : history[b].reverted
        /\ curator.pc # "undo"
    BY <1>3, ThreadPlaces DEF OldPair, OldBatches
  <2>4. /\ status'[Source] = IF resolver[r].choice = "original" THEN "keep" ELSE "reject"
        /\ \A c \in Group :
              status'[c] = IF c = resolver[r].on /\ resolver[r].choice = "improved"
                           THEN "keep" ELSE "reject"
    BY <1>3, <2>1, DecisionEffect
  <2>5. /\ Group' = Group /\ HasPair' = HasPair
        /\ \A i \in Rows : status'[i] \in {"keep", "reject"}
    BY <2>2, <2>4 DEF Group, HasPair
  <2>6. Settled(status', Group')
    BY <1>3, <2>4, <2>5 DEF Settled
  <2>7. ~Unresolved'
    BY <2>6, ResolvedIsSettled
  <2>8. Exclusive'
    BY <2>2, <2>4, <2>5 DEF Exclusive
  <2>9. OldRows'
    BY <1>1, <2>2, <2>3, <2>5 DEF OldPair, OldRows
  <2>10. CASE UNCHANGED history
    <3>1. OldBatches'
      BY <1>1, <2>3, <2>10 DEF OldPair, OldBatches, Touched
    <3> QED BY <2>7, <2>8, <2>9, <3>1 DEF OldPair
  <2>11. ASSUME NEW e \in Batches, history' = Append(history, e),
                \A i \in DOMAIN e.before :
                  /\ i \in Group \cup {Source}
                  /\ e.before[i] \in {status[i], "failed"},
                \A i \in Group \cup {Source} : i \notin DOMAIN e.before => status'[i] = status[i]
         PROVE  OldPair'
    <3>1. /\ DOMAIN history' = DOMAIN history \cup {Len(history) + 1}
          /\ Len(history') = Len(history) + 1 /\ history'[Len(history) + 1] = e
          /\ \A n \in DOMAIN history : history'[n] = history[n]
      BY <2>11, OneMore DEF HistoryOK
    <3>2. \A i \in DOMAIN e.before : e.before[i] # "keep" /\ (e.before[i] = "pending" => i \in pics)
      BY <2>2, <2>3, <2>11 DEF NoneKept
    <3>3. \A i \in Rows : i \notin DOMAIN e.before => status'[i] # "keep"
      BY <2>2, <2>3, <2>11 DEF NoneKept
    <3>4. \A b \in DOMAIN history' : \A i \in DOMAIN history'[b].before :
             history'[b].before[i] = "pending" => i \in pics
      BY <3>1, <3>2 DEF OldPair, OldBatches, Touched
    <3>5. OldBatches'
      BY <1>1, <2>3, <2>7, <3>1, <3>2, <3>3, <3>4 DEF OldBatches, Touched
    <3> QED BY <2>7, <2>8, <2>9, <3>5 DEF OldPair
  <2> QED BY <1>3, <2>1, <2>10, <2>11, DecisionEffect
<1> QED BY <1>2, <1>3 DEF ResolveCommits

(* Undo of its newest decision leaves no version kept.                     *)
LEMMA OldUndoes ==
  ASSUME PairTypes, PairTypes', OldPair, up, UndoCommits
  PROVE  OldPair'
<1> USE DEF PairTypes
<1>1. UNCHANGED <<kind, pics, job, improver, linker, stopper, up>> /\ curator' = Idle
  BY DEF UndoCommits
<1>2. CASE UNCHANGED <<status, history>>
  BY <1>1, <1>2 DEF OldPair, OldRows, OldBatches, Touched, NoneKept, Exclusive, Unresolved,
                    Choice, HasPair, Group, Kept, Idle
<1>3. CASE ~UNCHANGED <<status, history>>
  <2> DEFINE b == curator.batch
  <2>1. /\ b \in DOMAIN history
        /\ status' = [i \in Rows |-> IF i \in Touched(b) THEN history[b].before[i] ELSE status[i]]
        /\ history' = [history EXCEPT ![b].reverted = TRUE]
    BY <1>3, UndoEffect
  <2>2. /\ ~history[b].reverted
        /\ \A i \in Rows : IF i \in Touched(b) THEN history[b].before[i] # "keep"
                           ELSE status[i] # "keep"
    BY <2>1 DEF OldPair, OldBatches, UndoCommits
  <2>3. NoneKept'
    BY <2>1, <2>2 DEF NoneKept
  <2>4. /\ Candidates \subseteq Rows
        /\ \A i \in Touched(b) : /\ history[b].before[i] \in Written
                                 /\ history[b].before[i] = "pending" => i \in pics
    BY <2>1, BatchFields DEF OldPair, OldBatches, Rows
  <2>5. OldRows'
    BY <1>1, <2>1, <2>4 DEF OldPair, OldRows, Idle, Written, Decisions
  <2>6. /\ DOMAIN history' = DOMAIN history /\ history'[b].reverted
        /\ \A n \in DOMAIN history : /\ history'[n].before = history[n].before
                                     /\ n # b => history'[n].reverted
    <3>1. \A n \in DOMAIN history : n # b => history[n].reverted
      BY <2>1, <2>2 DEF OldPair, OldBatches
    <3> QED BY <2>1, <3>1, UndoHistory
  <2>7. OldBatches'
    BY <1>1, <2>6 DEF OldPair, OldBatches, Touched, Idle
  <2> QED BY <2>3, <2>5, <2>7 DEF OldPair, Exclusive, NoneKept
<1> QED BY <1>2, <1>3

(* Normalisation decides an old pair or leaves no version kept.            *)
LEMMA OldStarts ==
  ASSUME PairTypes, PairTypes', OldPair, Start
  PROVE  OldPair'
<1> USE DEF PairTypes
<1>1. UNCHANGED <<kind, pics, job, improver, curator, linker, stopper, history>> /\ up'
  BY DEF Start, threads
<1>2. /\ Group = Candidates /\ Candidates \subseteq Rows /\ Source \in Rows /\ Source \notin Candidates
      /\ Source \in pics /\ Cardinality(Group) = MaxCandidates
      /\ status \in [Rows -> Decisions \cup {"none", "failed"}]
  <2>1. MaxCandidates \in Nat /\ Candidates = 1 .. MaxCandidates
    BY PairAssumption DEF Candidates
  <2>2. Cardinality(Candidates) = MaxCandidates
    BY <2>1, FS_Interval
  <2>3. Group = Candidates
    BY DEF OldPair, OldRows, Group
  <2>4. Source \notin Candidates
    BY <2>1 DEF Source
  <2> QED BY <2>2, <2>3, <2>4 DEF Rows, SourceOK, PairTypeOK
<1>3. CASE ~Unresolved
  <2>1. status' = status
    BY <1>3 DEF Start
  <2>2. ~Unresolved' /\ Exclusive'
    <3>1. Unresolved' = Unresolved /\ Exclusive' = Exclusive
      BY <1>1, <2>1 DEF Unresolved, Choice, Exclusive, HasPair, Group
    <3> QED BY <1>3, <3>1, ResolvedIsExclusive
  <2>3. OldRows' /\ OldBatches'
    BY <1>1, <1>3, <2>1, <2>2 DEF OldPair, OldRows, OldBatches, Touched
  <2> QED BY <2>2, <2>3 DEF OldPair
<1>4. CASE Unresolved
  <2>1. status' = Normalized
    BY <1>2, <1>4 DEF Start, OldPair, OldRows
  <2>2. \A b \in DOMAIN history : history[b].reverted
    BY <1>4 DEF OldPair, OldBatches
  <2>3. curator.pc # "undo"
    BY <2>2, ThreadPlaces DEF OldPair, OldBatches
  <2>4. \A i \in Rows : /\ status'[i] = "pending" => i \in pics
                        /\ i \in Candidates => status'[i] # "none"
    <3>1. \A i \in Rows : status[i] = "pending" => i \in pics
      BY DEF OldPair, OldRows
    <3>2. \A c \in Candidates : job[c] = "none" /\ status[c] # "none"
      BY DEF OldPair, OldRows
    <3>3. \A i \in Rows : i \in Group \/ i = Source
      BY <1>2 DEF Rows
    <3> QED BY <1>2, <2>1, <3>1, <3>2, <3>3, NormalizedRows DEF Normalized, Rows
  <2>5. OldRows' /\ OldBatches'
    BY <1>1, <2>2, <2>3, <2>4, <1>2 DEF OldPair, OldRows, OldBatches, Touched
  <2>6. Group' = Candidates /\ HasPair' = HasPair
    BY <1>2, <2>4 DEF Group, HasPair
  <2>7. CASE status[Source] = "reject" /\ Cardinality(Kept) = 1
    <3>1. PICK c \in Candidates : status[c] = "keep" /\ \A d \in Candidates : status[d] = "keep" => d = c
      BY <1>2, <2>7, OneKept DEF Kept
    <3>2. /\ status'[Source] = "reject" /\ status'[c] = "keep"
          /\ \A d \in Candidates : d # c => status'[d] = "reject"
      BY <1>2, <2>1, <2>7, <3>1 DEF Normalized, Kept
    <3>3. Settled(status', Group')
      BY <2>6, <3>2 DEF Settled
    <3>4. ~Unresolved' /\ Exclusive'
      <4>1. ~Unresolved'
        BY <3>3, ResolvedIsSettled
      <4>2. Exclusive'
        BY <3>2 DEF Exclusive, Rows
      <4> QED BY <4>1, <4>2
    <3> QED BY <2>5, <3>4 DEF OldPair
  <2>8. CASE ~(status[Source] = "reject" /\ Cardinality(Kept) = 1)
    <3>1. \A i \in Rows : i \in Group \/ i = Source
      BY <1>2 DEF Rows
    <3>2. NoneKept'
      BY <1>2, <2>1, <2>8, <3>1 DEF Normalized, NoneKept
    <3> QED BY <2>5, <3>2 DEF OldPair, NoneKept, Exclusive
  <2> QED BY <2>7, <2>8
<1> QED BY <1>3, <1>4

LEMMA OldStep ==
  ASSUME PairTypes, PairTypes', OldPair, [PairNext]_pairVars
  PROVE  OldPair'
<1>1. CASE /\ UNCHANGED <<kind, status, pics, job, history, improver, linker, stopper, up>>
           /\ curator' = curator \/ \E b \in DOMAIN history : UndoReads(b)
  <2>1. /\ curator'.pc # "status"
        /\ curator'.pc = "undo" => ~history[curator'.batch].reverted
    <3>1. CASE curator' = curator
      BY <3>1 DEF OldPair, OldRows, OldBatches
    <3>2. ASSUME NEW b \in DOMAIN history, UndoReads(b)
          PROVE  /\ curator'.pc # "status"
                 /\ ~history[curator'.batch].reverted
      BY <3>2 DEF UndoReads
    <3> QED BY <1>1, <3>1, <3>2
  <2>2. /\ Exclusive' = Exclusive /\ NoneKept' = NoneKept /\ Unresolved' = Unresolved
    BY <1>1 DEF Exclusive, NoneKept, Unresolved, Choice, HasPair, Group
  <2> QED BY <1>1, <2>1, <2>2 DEF OldPair, OldRows, OldBatches, Touched
<1>2. CASE Crash
  <2>1. /\ UNCHANGED <<kind, status, pics, history>> /\ up' = FALSE
        /\ job' = [c \in Candidates |-> IF job[c] = "unqueued" THEN "over" ELSE job[c]]
        /\ improver' = Idle /\ linker' = Idle /\ stopper' = Idle /\ curator' = Idle
    BY <1>2 DEF Crash, rows
  <2>2. Unresolved' = Unresolved
    BY <2>1 DEF Unresolved, Choice, HasPair, Group
  <2> QED BY <2>1, <2>2 DEF OldPair, OldRows, OldBatches, Touched, Idle
<1> QED BY <1>1, <1>2, OldActions, OldDecides, OldUndoes, OldStarts

-----------------------------------------------------------------------------
(* A new pair: one candidate, with its job.                                *)

NewRows ==
  /\ \A c \in Candidates \ {1} : status[c] = "none" /\ job[c] = "none"
  /\ linker.pc = "link" => linker.on = 1

(* A decision that displaced a kept version has changed both rows, so that *)
(* its undo writes both; a status request writes the photo alone.          *)
Undone(e, old) ==
  /\ ~e.pair => DOMAIN e.before = {Source}
  /\ ~old /\ e.pair =>
       \/ \A i \in DOMAIN e.before : e.before[i] # "keep"
       \/ DOMAIN e.before = {Source, 1} /\ ~(e.before[Source] = "keep" /\ e.before[1] = "keep")

NewPair ==
  /\ NewRows
  /\ \A b \in DOMAIN history : Undone(history[b], leaked)
  /\ ~leaked => Exclusive

LEMMA UndoneStays ==
  ASSUME NEW e, NEW f, NEW old, NEW new, Undone(e, old), ~new => ~old,
         f.before = e.before, f.pair = e.pair
  PROVE  Undone(f, new)
BY DEF Undone

(* A step after which no more versions are kept.                           *)
LEMMA ExclusiveShrinks ==
  ASSUME Exclusive, HasPair' => HasPair,
         \A i \in Rows : status'[i] = "keep" => status[i] = "keep"
  PROVE  Exclusive'
BY DEF Exclusive

LEMMA NewRowsStep ==
  ASSUME PairTypes, NewRows, [PairNext]_pairVars
  PROVE  NewRows'
<1> USE DEF PairTypes, NewRows, rows, threads
<1>0. /\ Candidates \subseteq Rows /\ Source \notin Candidates
      /\ status \in [Rows -> Decisions \cup {"none", "failed"}]
      /\ job \in [Candidates -> {"none", "unqueued", "running", "done", "failed", "over"}]
  BY PairAssumption DEF PairTypeOK, Rows, Candidates, Source
<1>1. CASE ImproveReads
  BY <1>1, <1>0 DEF ImproveReads
<1>2. CASE ImproveCommits
  BY <1>2, <1>0 DEF ImproveCommits
<1>3. CASE ImproveEnqueues
  BY <1>3, <1>0 DEF ImproveEnqueues
<1>4. CASE ImproveFails
  BY <1>4, <1>0 DEF ImproveFails
<1>5. ASSUME NEW s \in Decisions, SetStatusReads(s) PROVE NewRows'
  BY <1>5, <1>0 DEF SetStatusReads
<1>6. CASE SetStatusCommits
  <2>1. \A c \in Candidates : status'[c] = status[c]
    BY <1>6, <1>0 DEF SetStatusCommits
  <2> QED BY <1>6, <2>1 DEF SetStatusCommits
<1>7. ASSUME NEW b \in DOMAIN history, UndoReads(b) PROVE NewRows'
  BY <1>7, <1>0 DEF UndoReads
<1>8. CASE UndoCommits
  <2>1. \A c \in Candidates : status[c] = "none" => status'[c] = "none"
    BY <1>8, <1>0, UndoEffect
  <2> QED BY <1>8, <2>1 DEF UndoCommits
<1>9. ASSUME NEW r \in Requests, NEW c \in Candidates,
             NEW choice \in {"original", "improved", "reject"}, ResolveReads(r, c, choice)
       PROVE  NewRows'
  BY <1>9, <1>0 DEF ResolveReads
<1>10. ASSUME NEW r \in Requests, ResolveCancels(r) PROVE NewRows'
  BY <1>10, <1>0 DEF ResolveCancels, Cancelled
<1>11. ASSUME NEW r \in Requests, ResolveCommits(r) PROVE NewRows'
  <2>1. CASE UNCHANGED status
    BY <1>11, <2>1 DEF ResolveCommits
  <2>2. CASE /\ resolver[r].on \in Group /\ Decide(r)
    <3>1. resolver[r] \in ResolveType
      BY <1>11, ThreadPlaces DEF ResolveCommits
    <3>2. \A c \in Candidates : status[c] = "none" => status'[c] = "none"
      BY <1>0, <2>2, <3>1, DecisionEffect DEF Group
    <3> QED BY <1>11, <3>2 DEF ResolveCommits
  <2> QED BY <1>11, <2>1, <2>2 DEF ResolveCommits
<1>12. ASSUME NEW c \in Candidates, Generated(c) PROVE NewRows'
  BY <1>12, <1>0 DEF Generated
<1>13. ASSUME NEW c \in Candidates, LinkReads(c) PROVE NewRows'
  <2>1. c = 1
    BY <1>13 DEF LinkReads
  <2>2. \A d \in Candidates \ {1} : job'[d] = job[d]
    BY <1>13, <1>0, <2>1 DEF LinkReads
  <2>3. linker'.pc = "link" => linker'.on = 1
    BY <1>13, <2>1 DEF LinkReads
  <2> QED BY <1>13, <2>2, <2>3 DEF LinkReads
<1>14. ASSUME NEW ok \in BOOLEAN, LinkCommits(ok) PROVE NewRows'
  <2>1. linker.on = 1 /\ linker'.pc # "link"
    BY <1>14 DEF LinkCommits, Idle
  <2> QED BY <1>14, <1>0, <2>1 DEF LinkCommits
<1>15. CASE StopReads
  BY <1>15, <1>0 DEF StopReads, Cancelled
<1>16. CASE StopCommits
  BY <1>16, <1>0 DEF StopCommits
<1>17. CASE Crash
  BY <1>17, <1>0 DEF Crash, Idle
<1>18. CASE Start
  <2>1. Group = {} \/ Group = {1}
    BY DEF Group
  <2>2. Cardinality(Group) \in {0, 1}
    BY <2>1, FS_EmptySet, FS_Singleton
  <2>3. ~(Cardinality(Group) > 1)
    BY <2>2
  <2> QED BY <1>18, <2>3 DEF Start
<1>19. CASE UNCHANGED pairVars
  BY <1>19 DEF pairVars
<1> QED
  BY <1>1, <1>2, <1>3, <1>4, <1>5, <1>6, <1>7, <1>8, <1>9, <1>10, <1>11,
     <1>12, <1>13, <1>14, <1>15, <1>16, <1>17, <1>18, <1>19
     DEF PairNext, PairServes

(* A pair that a decision leaves open, or finds resolved, has the versions *)
(* the undo of that decision will keep in the rows it wrote.               *)
LEMMA NewDecides ==
  ASSUME PairTypes, PairTypes', NewPair, NewRows', NEW r \in Requests, ResolveCommits(r)
  PROVE  NewPair'
<1> USE DEF PairTypes
<1>1. leaked' = leaked
  BY DEF ResolveCommits
<1>2. CASE UNCHANGED <<status, history>>
  BY <1>1, <1>2 DEF NewPair, Undone, Exclusive, HasPair, Group
<1>3. CASE resolver[r].on \in Group /\ Unresolved /\ Decide(r)
  <2>1. resolver[r] \in ResolveType
    BY ThreadPlaces DEF ResolveCommits
  <2>2. /\ Group = {1} /\ Source \in Rows /\ 1 \in Rows /\ Source # 1 /\ resolver[r].on = 1
        /\ HasPair
    BY <1>3, PairAssumption DEF NewPair, NewRows, Group, Rows, Candidates, Source, HasPair
  <2>3. /\ \A i \in Rows \ {Source, 1} : status'[i] = status[i]
        /\ status'[Source] = IF resolver[r].choice = "original" THEN "keep" ELSE "reject"
        /\ status'[1] = IF resolver[r].choice = "improved" THEN "keep" ELSE "reject"
    BY <1>3, <2>1, <2>2, DecisionEffect
  <2>4. \A i \in Rows \ {Source, 1} : status[i] # "keep"
    BY DEF NewPair, NewRows, Rows, Source
  <2>5. Exclusive'
    BY <2>3, <2>4 DEF Exclusive
  <2>6. CASE UNCHANGED history
    BY <1>1, <2>5, <2>6 DEF NewPair, Undone
  <2>7. ASSUME NEW e \in Batches, history' = Append(history, e), e.pair,
               \A i \in DOMAIN e.before :
                 /\ i \in Group \cup {Source}
                 /\ e.before[i] \in {status[i], "failed"}
                 /\ i = Source \/ status[i] = "keep" => e.before[i] = status[i],
               \A i \in Group \cup {Source} : i \notin DOMAIN e.before => status'[i] = status[i]
        PROVE  NewPair'
    <3>1. /\ DOMAIN history' = DOMAIN history \cup {Len(history) + 1}
          /\ history'[Len(history) + 1] = e
          /\ \A n \in DOMAIN history : history'[n] = history[n]
      BY <2>7, OneMore DEF HistoryOK
    <3>2. ASSUME ~leaked, Source \in DOMAIN e.before, e.before[Source] = "keep"
          PROVE  DOMAIN e.before = {Source, 1} /\ e.before[1] # "keep"
      <4>1. status[Source] = "keep" /\ status[1] # "keep"
        BY <2>2, <2>7, <3>2 DEF NewPair, Exclusive
      <4>2. 1 \in DOMAIN e.before
        <5>1. CASE 1 \notin DOMAIN e.before
          BY <1>3, <2>2, <2>3, <2>7, <4>1, <5>1, ResolvedIsSettled DEF Settled
        <5> QED BY <5>1
      <4>3. e.before[1] \in {status[1], "failed"}
        BY <2>7, <4>2
      <4> QED BY <2>2, <2>7, <3>2, <4>1, <4>2, <4>3
    <3>3. ASSUME ~leaked, 1 \in DOMAIN e.before, e.before[1] = "keep"
          PROVE  DOMAIN e.before = {Source, 1} /\ e.before[Source] # "keep"
      <4>1. status[1] = "keep" /\ status[Source] # "keep"
        BY <2>2, <2>7, <3>3 DEF NewPair, Exclusive
      <4>2. Source \in DOMAIN e.before
        <5>1. CASE Source \notin DOMAIN e.before
          BY <1>3, <2>2, <2>3, <2>7, <4>1, <5>1, ResolvedIsSettled DEF Settled
        <5> QED BY <5>1
      <4>3. e.before[Source] = status[Source]
        BY <2>7, <4>2
      <4> QED BY <2>2, <2>7, <3>3, <4>1, <4>2, <4>3
    <3>4. Undone(e, leaked')
      BY <1>1, <2>2, <2>7, <3>2, <3>3 DEF Undone
    <3>5. \A b \in DOMAIN history' : Undone(history'[b], leaked')
      BY <1>1, <3>1, <3>4 DEF NewPair, Undone
    <3> QED BY <1>1, <2>5, <3>5 DEF NewPair
  <2> QED BY <1>3, <2>1, <2>6, <2>7, DecisionEffect
<1> QED BY <1>2, <1>3 DEF ResolveCommits

LEMMA NewUndoes ==
  ASSUME PairTypes, PairTypes', NewPair, NewRows', UndoCommits
  PROVE  NewPair'
<1> USE DEF PairTypes
<1> DEFINE b == curator.batch
<1>1. CASE UNCHANGED <<status, history, leaked>>
  BY <1>1 DEF NewPair, Undone, Exclusive, HasPair, Group
<1>2. CASE /\ \A i \in Touched(b) : status[i] # "none"
           /\ status' = [i \in Rows |-> IF i \in Touched(b) THEN history[b].before[i]
                                        ELSE status[i]]
           /\ history' = [history EXCEPT ![b].reverted = TRUE]
           /\ leaked' = (leaked \/ (HasPair /\ ~history[b].pair))
  <2>1. /\ b \in DOMAIN history /\ Touched(b) \subseteq Rows
        /\ \A i \in Touched(b) : history[b].before[i] \in Written
        /\ Candidates \subseteq Rows
    BY UndoEffect, BatchFields DEF Rows
  <2>2. /\ DOMAIN history' = DOMAIN history
        /\ \A n \in DOMAIN history : /\ history'[n].before = history[n].before
                                     /\ history'[n].pair = history[n].pair
    BY <1>2, <2>1, UndoHistory
  <2>3. \A n \in DOMAIN history' : Undone(history'[n], leaked')
    <3>1. ~leaked' => ~leaked
      BY <1>2
    <3> QED BY <2>2, <3>1, UndoneStays DEF NewPair
  <2>4. HasPair' => HasPair
    BY <1>2, <2>1 DEF HasPair, Group
  <2>5. ASSUME ~leaked' PROVE Exclusive'
    <3>1. ~leaked /\ (HasPair => history[b].pair) /\ Exclusive /\ Undone(history[b], leaked)
      BY <1>2, <2>1, <2>5 DEF NewPair
    <3>2. CASE ~HasPair
      BY <2>4, <3>2 DEF Exclusive
    <3>3. CASE \A i \in Touched(b) : history[b].before[i] # "keep"
      <4>1. \A i \in Rows : status'[i] = "keep" => status[i] = "keep"
        BY <1>2, <3>3
      <4> QED BY <2>4, <3>1, <4>1, ExclusiveShrinks
    <3>4. CASE /\ Touched(b) = {Source, 1}
               /\ ~(history[b].before[Source] = "keep" /\ history[b].before[1] = "keep")
      <4>1. \A i \in Rows \ {Source, 1} : status[i] # "keep"
        BY DEF NewPair, NewRows, Rows, Source
      <4> QED BY <1>2, <2>1, <3>4, <4>1 DEF Exclusive
    <3> QED BY <3>1, <3>2, <3>3, <3>4 DEF Undone, Touched
  <2> QED BY <2>3, <2>5 DEF NewPair
<1> QED BY <1>1, <1>2, UndoEffect

(* The other steps make no version kept, but the status request of a photo *)
(* that has no pair.                                                       *)
LEMMA NewOthers ==
  ASSUME PairTypes, PairTypes', NewPair, NewRows', [PairNext]_pairVars,
         ~UndoCommits, \A r \in Requests : ~ResolveCommits(r)
  PROVE  NewPair'
<1> USE DEF PairTypes, NewRows, rows, threads
<1>1. /\ Source \in Rows /\ Candidates \subseteq Rows /\ Source \notin Candidates /\ 1 \in Candidates
      /\ status \in [Rows -> Decisions \cup {"none", "failed"}]
      /\ \A i \in Rows : i = Source \/ i = 1 \/ status[i] = "none"
      /\ (HasPair <=> \E c \in Candidates : status[c] # "none")
      /\ (HasPair' <=> \E c \in Candidates : status'[c] # "none")
  BY PairAssumption DEF PairTypeOK, Rows, Candidates, Source, HasPair, Group, NewPair
<1>2. CASE SetStatusCommits
  <2>1. PICK e \in Batches : history' = Append(history, e) /\ ~e.pair /\ DOMAIN e.before = {Source}
    BY <1>2, StatusEffect
  <2>2. /\ leaked' = (leaked \/ HasPair) /\ \A c \in Candidates : status'[c] = status[c]
    BY <1>1, <1>2 DEF SetStatusCommits
  <2>3. /\ DOMAIN history' = DOMAIN history \cup {Len(history) + 1}
        /\ history'[Len(history) + 1] = e
        /\ \A n \in DOMAIN history : history'[n] = history[n]
    BY <2>1, OneMore DEF HistoryOK
  <2>4. \A n \in DOMAIN history' : Undone(history'[n], leaked')
    <3>1. ~leaked' => ~leaked
      BY <2>2
    <3>2. Undone(e, leaked')
      BY <2>1 DEF Undone
    <3> QED BY <2>3, <3>1, <3>2, UndoneStays DEF NewPair
  <2>5. ~leaked' => ~HasPair'
    BY <1>1, <2>2
  <2>6. ~leaked' => Exclusive'
    BY <2>5 DEF Exclusive
  <2> QED BY <2>4, <2>6 DEF NewPair
<1>3. CASE ImproveCommits
  <2>1. \A i \in Rows \ {Source} : status'[i] # "keep"
    BY <1>1, <1>3 DEF ImproveCommits
  <2> QED BY <1>3, <2>1 DEF ImproveCommits, NewPair, Undone, Exclusive
<1>4. CASE ImproveFails
  <2>1. UNCHANGED <<history, leaked>> /\ \A i \in Rows \ {Source} : status'[i] # "keep"
    BY <1>1, <1>4 DEF ImproveFails
  <2> QED BY <2>1 DEF NewPair, Undone, Exclusive
<1>5. ASSUME NEW ok \in BOOLEAN, LinkCommits(ok) PROVE NewPair'
  <2>1. linker.on = 1 /\ UNCHANGED <<history, leaked>>
    BY <1>5 DEF LinkCommits, NewPair
  <2>2. /\ HasPair' => HasPair
        /\ \A i \in Rows : status'[i] = "keep" => status[i] = "keep"
    BY <1>1, <1>5, <2>1 DEF LinkCommits
  <2>3. Exclusive => Exclusive'
    BY <2>2, ExclusiveShrinks
  <2> QED BY <2>1, <2>3 DEF NewPair
<1>6. CASE StopCommits
  <2>1. /\ HasPair' => HasPair
        /\ \A i \in Rows : status'[i] = "keep" => status[i] = "keep"
    BY <1>1, <1>6 DEF StopCommits
  <2>2. UNCHANGED <<history, leaked>>
    BY <1>6 DEF StopCommits
  <2>3. Exclusive => Exclusive'
    BY <2>1, ExclusiveShrinks
  <2> QED BY <2>2, <2>3 DEF NewPair
<1>7. CASE Start
  <2>1. Group = {} \/ Group = {1}
    BY DEF Group, NewPair
  <2>2. Cardinality(Group) \in {0, 1}
    BY <2>1, FS_EmptySet, FS_Singleton
  <2>3. UNCHANGED <<status, history, leaked>>
    <3>1. ~(Cardinality(Group) > 1)
      BY <2>2
    <3> QED BY <1>7, <3>1 DEF Start
  <2> QED BY <1>1, <2>3, ExclusiveShrinks DEF NewPair, Undone
<1>8. CASE UNCHANGED <<status, history, leaked>>
  BY <1>1, <1>8, ExclusiveShrinks DEF NewPair, Undone
<1> QED
  BY <1>2, <1>3, <1>4, <1>5, <1>6, <1>7, <1>8
     DEF PairNext, PairServes, pairVars, ImproveReads, ImproveEnqueues, SetStatusReads,
         UndoReads, ResolveReads, ResolveCancels, Generated, LinkReads, StopReads, Crash

LEMMA NewStep ==
  ASSUME PairTypes, PairTypes', NewPair, [PairNext]_pairVars
  PROVE  NewPair'
BY NewRowsStep, NewDecides, NewUndoes, NewOthers DEF NewPair

-----------------------------------------------------------------------------
(* The theorems.                                                           *)

PairInv == PairTypes /\ (OldPair \/ NewPair)

LEMMA PairIsOldOrNew == PairSpec => []PairInv
<1>1. PairInit /\ PairTypes => PairInv
  <2> SUFFICES ASSUME PairInit, PairTypes PROVE OldPair \/ NewPair
    BY DEF PairInv
  <2> USE PairAssumption DEF PairInit, Rows, Candidates, Source, Decisions
  <2>1. CASE up = TRUE
    <3>1. NewRows /\ Exclusive
      BY <2>1 DEF NewRows, Idle, Exclusive, HasPair, Group
    <3> QED BY <3>1 DEF NewPair
  <2>2. CASE up = FALSE
    <3>1. OldRows
      BY <2>2 DEF OldRows, Idle
    <3> QED BY <2>2, <3>1 DEF OldPair, OldBatches, Idle
  <2> QED BY <2>1, <2>2
<1>2. PairTypes /\ PairTypes' /\ PairInv /\ [PairNext]_pairVars => PairInv'
  BY OldStep, NewStep DEF PairInv
<1> QED BY <1>1, <1>2, PairIsTyped, PTL DEF PairSpec

(* Every row has a known status and every job a known state, and a version *)
(* without a picture is never kept.                                        *)
THEOREM PairTyped == PairSpec => []PairTypeOK
<1>1. PairTypes => PairTypeOK
  BY DEF PairTypes
<1> QED BY <1>1, PairIsTyped, PTL

(* Of a photo and the versions made of it at most one is kept while the    *)
(* server runs, unless a decision older than the pair leaked into it.      *)
THEOREM OneVersionStays == PairSpec => []OneVersionAdmitted
<1>1. PairInv => OneVersionAdmitted
  <2> SUFFICES ASSUME PairInv, up, ~leaked
               PROVE  Cardinality({i \in Rows : status[i] = "keep" /\ HasPair}) <= 1
    BY DEF OneVersionAdmitted
  <2> DEFINE K == {i \in Rows : status[i] = "keep" /\ HasPair}
  <2>1. Exclusive
    BY DEF PairInv, OldPair, NewPair
  <2>2. K = {} \/ \E i \in Rows : K = {i}
    BY <2>1 DEF Exclusive
  <2>3. Cardinality(K) \in {0, 1}
    BY <2>2, FS_EmptySet, FS_Singleton
  <2> QED BY <2>3
<1> QED BY <1>1, PairIsOldOrNew, PTL

(* A decision on the pair is changed by an undo, or by a request, callback *)
(* or Stop that read the pair before it; the other resolver, normalisation *)
(* and the start of a new version leave it.                                *)
THEOREM DecisionIsKept == PairSpec => DecisionStands
<1>1. PairTypes /\ [PairNext]_pairVars
        => [HasPair /\ Choice # "open" => Choice' = Choice \/ StaleWriter]_pairVars
  <2> SUFFICES ASSUME PairTypes, PairNext, HasPair, Choice # "open"
               PROVE  Choice' = Choice \/ StaleWriter
    BY DEF pairVars, rows, threads, Choice, HasPair, Group, StaleWriter
  <2> USE DEF PairTypes
  <2>1. UNCHANGED status => Choice' = Choice
    BY DEF Choice, Group
  <2>2. ~Unresolved
    BY DEF Unresolved
  <2>3. CASE ImproveCommits
    BY <2>3 DEF ImproveCommits, SourceOK
  <2>4. CASE ImproveFails
    BY <2>4 DEF ImproveFails, StaleWriter
  <2>5. CASE SetStatusCommits \/ UndoCommits
    BY <2>5 DEF SetStatusCommits, UndoCommits, StaleWriter
  <2>6. ASSUME NEW r \in Requests, ResolveCommits(r) PROVE Choice' = Choice
    BY <2>1, <2>2, <2>6 DEF ResolveCommits
  <2>7. ASSUME NEW ok \in BOOLEAN, LinkCommits(ok) PROVE StaleWriter
    BY <2>7, ThreadPlaces, ThreadFields DEF LinkCommits, StaleWriter
  <2>8. CASE StopCommits
    BY <2>8 DEF StopCommits, StaleWriter
  <2>9. CASE Start
    BY <2>1, <2>2, <2>9 DEF Start
  <2> QED
    BY <2>1, <2>3, <2>4, <2>5, <2>6, <2>7, <2>8, <2>9
       DEF PairNext, PairServes, rows, ImproveReads, ImproveEnqueues, SetStatusReads,
           UndoReads, ResolveReads, ResolveCancels, Generated, LinkReads, StopReads, Crash
<1> QED BY <1>1, PairIsTyped, PTL DEF PairSpec, DecisionStands
=============================================================================
