---------------------------- MODULE GpuLeaseProofs ----------------------------
(***************************************************************************)
(* Proofs about GpuLease, for any number of uses of the GPU, lapses and    *)
(* crashes.                                                                *)
(*                                                                         *)
(* Exclusion rests on one fact: whoever was admitted, whose lease never    *)
(* lapsed and for whom nobody cleared the state of trainings, is still     *)
(* named by the row.  The row is overwritten only when it is absent or     *)
(* lapsed, and deleted only by its owner, by a thread that clears the      *)
(* token it read, by a start after its owner's death, or inside the lock   *)
(* by somebody who has seen it lapsed.                                     *)
(***************************************************************************)
EXTENDS GpuLease, TLAPS

LEMMA RowsTyped ==
  /\ Absent \in Row
  /\ \A h \in Holds : Fresh(h) \in Row
  /\ \A r \in Row : [r EXCEPT !.stale = TRUE] \in Row
BY DEF Absent, Fresh, Row

(* The records of the clearing threads keep their type, and one that is to *)
(* release a row has read a token.                                         *)
ClearingOK ==
  /\ clearing \in [Clearers -> Clearing]
  /\ \A c \in Clearers : clearing[c].pc = "row" => clearing[c].tok # None

LEMMA ClearingWritten ==
  ASSUME ClearingOK, NEW c \in Clearers, NEW p, NEW t, NEW e, At(c, p, t, e),
         [pc |-> p, tok |-> t, early |-> e] \in Clearing, p = "row" => t # None
  PROVE  ClearingOK'
BY DEF ClearingOK, At

LEMMA ClearingReset ==
  ASSUME clearing' = [c \in Clearers |-> Idle] PROVE ClearingOK'
BY DEF ClearingOK, Idle, Clearing

LEMMA ClearingStep ==
  ASSUME ClearingOK, stored \in Trainings \cup {None}, NEW c \in Clearers,
         BeginsToClear(c, FALSE) \/ Clear(c)
  PROVE  ClearingOK'
<1>1. clearing[c].tok \in Trainings \cup {None} /\ clearing[c].early \in BOOLEAN
  BY DEF ClearingOK, Clearing
<1>2. ASSUME NEW p \in {"token", "flag", "stored"}, Step(c, p) PROVE ClearingOK'
  <2>1. [pc |-> p, tok |-> clearing[c].tok, early |-> clearing[c].early] \in Clearing
    BY <1>1 DEF Clearing
  <2> QED BY <1>2, <2>1, ClearingWritten DEF Step
<1>3. ASSUME NEW e \in BOOLEAN, BeginsToClear(c, e) PROVE ClearingOK'
  <2> DEFINE p == IF stored # None THEN "row" ELSE IF e THEN "stored" ELSE "flag"
  <2>1. [pc |-> p, tok |-> stored, early |-> e] \in Clearing /\ (p = "row" => stored # None)
    BY DEF Clearing
  <2>2. At(c, p, stored, e)
    BY <1>3 DEF BeginsToClear
  <2> HIDE DEF p
  <2> QED BY <2>1, <2>2, ClearingWritten
<1>4. CASE Clears(c) \/ ReadsToken(c)
  BY <1>3, <1>4 DEF Clears, ReadsToken
<1>5. CASE HandsBack(c) \/ ClearStored(c)
  <2>1. /\ [pc |-> "asking", tok |-> None, early |-> TRUE] \in Clearing
        /\ [pc |-> "idle", tok |-> None, early |-> FALSE] \in Clearing
    BY DEF Clearing
  <2> QED BY <1>5, <2>1, ClearingWritten DEF HandsBack, ClearStored
<1>6. CASE ClearRow(c) \/ ClearToken(c) \/ ClearFlag(c)
  BY <1>2, <1>6 DEF ClearRow, ClearToken, ClearFlag
<1> QED
  BY <1>3, <1>4, <1>5, <1>6 DEF Clear

LEMMA InitTyped == Init => TypeOK
<1>1. Init => lapses \in 0 .. MaxLapses /\ crashes \in 0 .. MaxCrashes
  BY LeaseAssumption DEF Init
<1>2. Init => ClearingOK
  BY DEF Init, ClearingOK, Idle, Clearing
<1> QED
  BY <1>1, <1>2, RowsTyped, Zenon DEF Init, TypeOK, PC, ClearingOK

(* Every row, place and history keeps its type.                            *)
THEOREM LeaseTyped == Spec => []TypeOK
<1> USE LeaseAssumption, RowsTyped DEF TypeOK, PC, Move, Refused, rows, past, life
<1>1. Init => TypeOK
  BY InitTyped
<1>2. TypeOK /\ [Next]_vars => TypeOK'
  <2> SUFFICES ASSUME TypeOK, [Next]_vars PROVE TypeOK'
    OBVIOUS
  <2>1. ASSUME NEW h \in Holds, Ask(h) \/ Stop(h) PROVE TypeOK'
    BY <2>1 DEF Ask, Stop
  <2>2. ASSUME NEW h \in Holds, Admit(h) PROVE TypeOK'
    BY <2>2 DEF Admit, Wipe, Compare, Purge, Insert, Begin
  <2>3. ASSUME NEW h \in Holds, GiveBack(h) PROVE TypeOK'
    BY <2>3 DEF GiveBack, Release, Forget
  <2>4. ASSUME NEW v \in Visions, RenewLease(v) \/ RenewFlag(v) PROVE TypeOK'
    BY <2>4 DEF RenewLease, RenewFlag, RenewRow, Holds, Shared
  <2>5. ASSUME NEW v \in Visions, CloseWindow(v) PROVE TypeOK'
    BY <2>5 DEF CloseWindow, Join, ReadFlag, LowerFlag, Holds, Shared
  <2>6. ASSUME NEW t \in Trainings, Train(t) PROVE TypeOK'
    <3>1. CASE Launch(t) \/ Spawn(t) \/ Ends(t)
      BY <3>1 DEF Launch, Spawn, Ends, Holds
    <3>2. CASE Remember(t) \/ Raise(t)
      BY <3>2 DEF Remember, Raise, Holds
    <3>3. CASE RenewTraining(t)
      BY <3>3 DEF RenewTraining, RenewRow, Holds
    <3> QED BY <2>6, <3>1, <3>2, <3>3 DEF Train
  <2>11. ASSUME NEW c \in Clearers, Clear(c) PROVE TypeOK'
    <3>1. ClearingOK'
      BY <2>11, ClearingStep DEF ClearingOK
    <3>2. CASE Clears(c) \/ HandsBack(c) \/ ReadsToken(c)
      BY <3>1, <3>2 DEF ClearingOK, Clears, HandsBack, ReadsToken
    <3>3. CASE ClearRow(c)
      <4>1. clearing[c].pc = "row" /\ clearing[c] \in Clearing /\ clearing[c].tok # None
        BY <3>3 DEF ClearRow
      <4>2. clearing[c].tok \in Trainings
        BY <4>1 DEF Clearing
      <4> QED BY <3>1, <3>3, <4>2 DEF ClearingOK, ClearRow
    <3>4. CASE ClearToken(c)
      BY <3>1, <3>4 DEF ClearingOK, ClearToken
    <3>5. CASE ClearFlag(c) \/ ClearStored(c)
      BY <3>1, <3>5 DEF ClearingOK, ClearFlag, ClearStored
    <3> QED BY <2>11, <3>2, <3>3, <3>4, <3>5 DEF Clear
  <2>12. ASSUME NEW t \in Trainings, NEW c \in Clearers, FailLaunch(t, c) PROVE TypeOK'
    <3>1. ClearingOK'
      BY <2>12, ClearingStep DEF ClearingOK, FailLaunch
    <3> QED BY <2>12, <3>1 DEF ClearingOK, FailLaunch, Holds, Shared
  <2>7. CASE LapseLease \/ LapseFlag
    <3>1. lease.tok # None => lease.tok \in Holds
      BY DEF Row
    <3> QED BY <2>7, <3>1 DEF LapseLease, LapseFlag, Lapse
  <2>8. CASE Crash
    <3>1. pc' \in [Holds -> PC] /\ crashes' \in 0 .. MaxCrashes
      BY <2>8 DEF Crash
    <3>2. renewer' \in [Visions -> {"off", "waiting", "renewing"}] /\ up' \in BOOLEAN
      BY <2>8 DEF Crash
    <3>3. ClearingOK'
      BY <2>8, ClearingReset DEF Crash
    <3> QED BY <2>8, <3>1, <3>2, <3>3 DEF Crash, ClearingOK
  <2>9. CASE Restart
    BY <2>9 DEF Restart
  <2>10. CASE UNCHANGED vars
    BY <2>10 DEF vars
  <2> QED
    BY <2>1, <2>2, <2>3, <2>4, <2>5, <2>6, <2>7, <2>8, <2>9, <2>10, <2>11, <2>12 DEF Next
<1> QED
  BY <1>1, <1>2, PTL DEF Spec

-----------------------------------------------------------------------------
(* Who is inside the lock, and what he has seen of the row.                *)
LockInv ==
  /\ \A h \in Holds : pc[h] \in {"purging", "inserting"} => mutex = h
  /\ \A h \in Holds : pc[h] = "purging" => lease.tok = None \/ lease.tok \in lapsed

(* The row names everybody whose admission was not lost.                   *)
OwnerInv ==
  /\ lease.stale => lease.tok \in lapsed \cup {None}
  /\ \A h \in Holds : pc[h] \in {"held", "remembered", "raised", "using"} =>
       lease.tok = h \/ Lost(h)

(* While the server is down only trainers are left.                        *)
DownInv == ~up => \A h \in Holds : \/ pc[h] \in {"new", "over", "dead"}
                                   \/ h \in Trainings /\ pc[h] = "using"

(* The flag is a window's, and a renewal in flight outlives its window only *)
(* if the join gave up on it.                                              *)
WindowInv ==
  /\ flag.tok \in Visions \cup {None}
  /\ \A v \in Visions : renewer[v] = "renewing" => pc[v] \in {"using", "joining"} \/ v \in late
  /\ ClosedWindowFreesGpu

LeaseInv == TypeOK /\ LockInv /\ OwnerInv /\ DownInv /\ WindowInv

LEMMA LockStep ==
  ASSUME LeaseInv, TypeOK', [Next]_vars PROVE LockInv'
<1> USE LeaseAssumption DEF LeaseInv, TypeOK, LockInv, OwnerInv, Lost, Holds, Row, Absent, Fresh, PC, Move,
        Shared, Refused, rows, past, life
<1>1. ASSUME NEW h \in Holds, Ask(h) \/ Stop(h) PROVE LockInv'
  <2>1. CASE Ask(h)  BY <2>1 DEF Ask
  <2>2. CASE Stop(h) BY <2>2 DEF Stop
  <2> QED BY <1>1, <2>1, <2>2
<1>2. ASSUME NEW h \in Holds, Admit(h) PROVE LockInv'
  <2>1. CASE Wipe(h)    BY <2>1 DEF Wipe
  <2>2. CASE Compare(h) BY <2>2 DEF Compare
  <2>3. CASE Purge(h)   BY <2>3 DEF Purge
  <2>4. CASE Insert(h)  BY <2>4 DEF Insert
  <2>5. CASE Begin(h)   BY <2>5 DEF Begin
  <2> QED BY <1>2, <2>1, <2>2, <2>3, <2>4, <2>5 DEF Admit
<1>3. ASSUME NEW h \in Holds, GiveBack(h) PROVE LockInv'
  BY <1>3 DEF GiveBack, Release, Forget
<1>4. ASSUME NEW v \in Visions, RenewLease(v) \/ RenewFlag(v) PROVE LockInv'
  BY <1>4 DEF RenewLease, RenewFlag, RenewRow
<1>5. ASSUME NEW v \in Visions, CloseWindow(v) PROVE LockInv'
  BY <1>5 DEF CloseWindow, Join, ReadFlag, LowerFlag
<1>6. ASSUME NEW t \in Trainings, Train(t) PROVE LockInv'
  BY <1>6 DEF Train, Launch, Remember, Raise, Spawn, RenewTraining, RenewRow, Ends
<1>11. ASSUME NEW t \in Trainings, NEW c \in Clearers, FailLaunch(t, c) PROVE LockInv'
  BY <1>11 DEF FailLaunch
<1>12. ASSUME NEW c \in Clearers, Clear(c) PROVE LockInv'
  <2>1. CASE ClearRow(c)   BY <2>1 DEF ClearRow
  <2>2. CASE ClearToken(c) BY <2>2 DEF ClearToken
  <2>3. CASE Clears(c) \/ HandsBack(c) \/ ReadsToken(c) BY <2>3 DEF Clears, HandsBack, ReadsToken
  <2>4. CASE ClearFlag(c) \/ ClearStored(c) BY <2>4 DEF ClearFlag, ClearStored
  <2> QED BY <1>12, <2>1, <2>2, <2>3, <2>4 DEF Clear
<1>7. CASE LapseLease \/ LapseFlag
  BY <1>7 DEF LapseLease, LapseFlag
<1>8. CASE Crash
  BY <1>8 DEF Crash
<1>9. CASE Restart
  BY <1>9 DEF Restart, DownInv
<1>10. CASE UNCHANGED vars
  BY <1>10 DEF vars
<1> QED
  BY <1>1, <1>2, <1>3, <1>4, <1>5, <1>6, <1>7, <1>8, <1>9, <1>10,
     <1>11, <1>12 DEF Next

LEMMA OwnerStep ==
  ASSUME LeaseInv, TypeOK', [Next]_vars PROVE OwnerInv'
<1> USE LeaseAssumption DEF LeaseInv, TypeOK, LockInv, OwnerInv, Lost, Holds, Row, Absent, Fresh, PC, Move,
        Shared, Refused, rows, past, life
<1>1. ASSUME NEW h \in Holds, Ask(h) \/ Stop(h) PROVE OwnerInv'
  BY <1>1 DEF Ask, Stop
<1>2. ASSUME NEW h \in Holds, Admit(h) PROVE OwnerInv'
  <2>1. CASE Wipe(h)    BY <2>1 DEF Wipe
  <2>2. CASE Compare(h) BY <2>2 DEF Compare
  <2>3. CASE Purge(h)   BY <2>3 DEF Purge
  <2>4. CASE Insert(h)  BY <2>4 DEF Insert
  <2>5. CASE Begin(h)   BY <2>5 DEF Begin
  <2> QED BY <1>2, <2>1, <2>2, <2>3, <2>4, <2>5 DEF Admit
<1>3. ASSUME NEW h \in Holds, GiveBack(h) PROVE OwnerInv'
  BY <1>3 DEF GiveBack, Release, Forget
<1>4. ASSUME NEW v \in Visions, RenewLease(v) \/ RenewFlag(v) PROVE OwnerInv'
  BY <1>4 DEF RenewLease, RenewFlag, RenewRow
<1>5. ASSUME NEW v \in Visions, CloseWindow(v) PROVE OwnerInv'
  BY <1>5 DEF CloseWindow, Join, ReadFlag, LowerFlag
<1>6. ASSUME NEW t \in Trainings, Train(t) PROVE OwnerInv'
  BY <1>6 DEF Train, Launch, Remember, Raise, Spawn, RenewTraining, RenewRow, Ends
<1>11. ASSUME NEW t \in Trainings, NEW c \in Clearers, FailLaunch(t, c) PROVE OwnerInv'
  BY <1>11 DEF FailLaunch
<1>12. ASSUME NEW c \in Clearers, Clear(c) PROVE OwnerInv'
  <2>1. CASE ClearRow(c)   BY <2>1 DEF ClearRow
  <2>2. CASE ClearToken(c) BY <2>2 DEF ClearToken
  <2>3. CASE Clears(c) \/ HandsBack(c) \/ ReadsToken(c) BY <2>3 DEF Clears, HandsBack, ReadsToken
  <2>4. CASE ClearFlag(c) \/ ClearStored(c) BY <2>4 DEF ClearFlag, ClearStored
  <2> QED BY <1>12, <2>1, <2>2, <2>3, <2>4 DEF Clear
<1>7. CASE LapseLease \/ LapseFlag
  BY <1>7 DEF LapseLease, LapseFlag
<1>8. CASE Crash
  BY <1>8 DEF Crash
<1>9. CASE Restart
  BY <1>9 DEF Restart, DownInv
<1>10. CASE UNCHANGED vars
  BY <1>10 DEF vars
<1> QED
  BY <1>1, <1>2, <1>3, <1>4, <1>5, <1>6, <1>7, <1>8, <1>9, <1>10,
     <1>11, <1>12 DEF Next

LEMMA DownStep ==
  ASSUME LeaseInv, TypeOK', [Next]_vars PROVE DownInv'
<1> USE LeaseAssumption DEF LeaseInv, TypeOK, DownInv, Holds, PC, Move,
        Shared, Refused, rows, past, life
<1>1. ASSUME NEW h \in Holds, Ask(h) \/ Stop(h) PROVE DownInv'
  BY <1>1 DEF Ask, Stop
<1>2. ASSUME NEW h \in Holds, Admit(h) PROVE DownInv'
  BY <1>2 DEF Admit, Wipe, Compare, Purge, Insert, Begin
<1>3. ASSUME NEW h \in Holds, GiveBack(h) PROVE DownInv'
  BY <1>3 DEF GiveBack, Release, Forget
<1>4. ASSUME NEW v \in Visions, RenewLease(v) \/ RenewFlag(v) PROVE DownInv'
  BY <1>4 DEF RenewLease, RenewFlag, RenewRow
<1>5. ASSUME NEW v \in Visions, CloseWindow(v) PROVE DownInv'
  BY <1>5 DEF CloseWindow, Join, ReadFlag, LowerFlag
<1>6. ASSUME NEW t \in Trainings, Train(t) PROVE DownInv'
  BY <1>6 DEF Train, Launch, Remember, Raise, Spawn, RenewTraining, RenewRow, Ends
<1>11. ASSUME NEW t \in Trainings, NEW c \in Clearers, FailLaunch(t, c) PROVE DownInv'
  BY <1>11 DEF FailLaunch
<1>12. ASSUME NEW c \in Clearers, Clear(c) PROVE DownInv'
  BY <1>12 DEF Clear, Clears, HandsBack, ReadsToken, ClearRow, ClearToken, ClearFlag,
               ClearStored
<1>7. CASE LapseLease \/ LapseFlag
  BY <1>7 DEF LapseLease, LapseFlag
<1>8. CASE Crash
  BY <1>8 DEF Crash
<1>9. CASE Restart
  BY <1>9 DEF Restart
<1>10. CASE UNCHANGED vars
  BY <1>10 DEF vars
<1> QED
  BY <1>1, <1>2, <1>3, <1>4, <1>5, <1>6, <1>7, <1>8, <1>9, <1>10,
     <1>11, <1>12 DEF Next

LEMMA WindowStep ==
  ASSUME LeaseInv, TypeOK', [Next]_vars PROVE WindowInv'
<1> USE LeaseAssumption DEF LeaseInv, TypeOK, WindowInv, ClosedWindowFreesGpu, FlagUp,
        Holds, Row, Absent, Fresh, PC, Move,
        Shared, Refused, rows, past, life
<1>1. ASSUME NEW h \in Holds, Ask(h) \/ Stop(h) PROVE WindowInv'
  <2>1. CASE Ask(h)  BY <2>1 DEF Ask
  <2>2. CASE Stop(h) BY <2>2 DEF Stop
  <2> QED BY <1>1, <2>1, <2>2
<1>2. ASSUME NEW h \in Holds, Admit(h) PROVE WindowInv'
  <2>1. CASE Wipe(h)    BY <2>1 DEF Wipe
  <2>2. CASE Compare(h) BY <2>2 DEF Compare
  <2>3. CASE Purge(h)   BY <2>3 DEF Purge
  <2>4. CASE Insert(h)  BY <2>4 DEF Insert
  <2>5. CASE Begin(h)   BY <2>5 DEF Begin
  <2> QED BY <1>2, <2>1, <2>2, <2>3, <2>4, <2>5 DEF Admit
<1>3. ASSUME NEW h \in Holds, GiveBack(h) PROVE WindowInv'
  BY <1>3 DEF GiveBack, Release, Forget
<1>4. ASSUME NEW v \in Visions, RenewLease(v) \/ RenewFlag(v) PROVE WindowInv'
  BY <1>4 DEF RenewLease, RenewFlag, RenewRow
<1>5. ASSUME NEW v \in Visions, CloseWindow(v) PROVE WindowInv'
  BY <1>5 DEF CloseWindow, Join, ReadFlag, LowerFlag
<1>6. ASSUME NEW t \in Trainings, Train(t) PROVE WindowInv'
  BY <1>6 DEF Train, Launch, Remember, Raise, Spawn, RenewTraining, RenewRow, Ends
<1>11. ASSUME NEW t \in Trainings, NEW c \in Clearers, FailLaunch(t, c) PROVE WindowInv'
  BY <1>11 DEF FailLaunch
<1>12. ASSUME NEW c \in Clearers, Clear(c) PROVE WindowInv'
  <2>1. CASE ClearRow(c)   BY <2>1 DEF ClearRow
  <2>2. CASE ClearToken(c) BY <2>2 DEF ClearToken
  <2>3. CASE Clears(c) \/ HandsBack(c) \/ ReadsToken(c) BY <2>3 DEF Clears, HandsBack, ReadsToken
  <2>4. CASE ClearFlag(c) \/ ClearStored(c) BY <2>4 DEF ClearFlag, ClearStored
  <2> QED BY <1>12, <2>1, <2>2, <2>3, <2>4 DEF Clear
<1>7. CASE LapseLease \/ LapseFlag
  BY <1>7 DEF LapseLease, LapseFlag
<1>8. CASE Crash
  BY <1>8 DEF Crash
<1>9. CASE Restart
  BY <1>9 DEF Restart
<1>10. CASE UNCHANGED vars
  BY <1>10 DEF vars
<1> QED
  BY <1>1, <1>2, <1>3, <1>4, <1>5, <1>6, <1>7, <1>8, <1>9, <1>10,
     <1>11, <1>12 DEF Next

LEMMA LeaseInvHolds == Spec => []LeaseInv
<1>1. Init => LeaseInv
  <2>1. Init => LockInv /\ OwnerInv /\ DownInv
    BY DEF Init, LockInv, OwnerInv, DownInv, Absent
  <2>2. Init => WindowInv
    BY DEF Init, WindowInv, ClosedWindowFreesGpu, FlagUp, Absent, Holds, Shared
  <2> QED
    BY <2>1, <2>2, InitTyped DEF LeaseInv
<1>2. LeaseInv /\ TypeOK' /\ [Next]_vars => LeaseInv'
  BY LockStep, OwnerStep, DownStep, WindowStep DEF LeaseInv
<1> QED
  BY <1>1, <1>2, LeaseTyped, PTL DEF Spec

-----------------------------------------------------------------------------
(* Two uses of the GPU never overlap unless one of them lost its lease, by *)
(* a lapse or by a roll-back or stop of trainings: _acquire_gpu_lease, the *)
(* renewals, the releases and the start keep all others apart.             *)
THEOREM GpuIsExclusive == Spec => []ExclusiveWhileLeased
<1>1. LeaseInv => ExclusiveWhileLeased
  BY DEF LeaseInv, OwnerInv, ExclusiveWhileLeased
<1> QED
  BY <1>1, LeaseInvHolds, PTL

(* A vision window leaves neither flag nor lease behind.                   *)
THEOREM WindowsFreeTheGpu == Spec => []ClosedWindowFreesGpu
<1>1. LeaseInv => ClosedWindowFreesGpu
  BY DEF LeaseInv, WindowInv
<1> QED
  BY <1>1, LeaseInvHolds, PTL

(* What ended or died is not renewed: only a renewal that was in flight    *)
(* when its window closed can bring a flag back.                           *)
THEOREM NothingDeadIsRenewed == Spec => DeadStayDead
<1> DEFINE Stays == \A h \in Holds : Gone(h) =>
                      /\ lease' = Fresh(h) => lease = Fresh(h)
                      /\ flag' = Fresh(h) => flag = Fresh(h) \/ h \in late
<1>1. LeaseInv /\ [Next]_vars => [Stays]_vars
  <2> SUFFICES ASSUME LeaseInv, Next PROVE Stays
    OBVIOUS
  <2> USE LeaseAssumption DEF LeaseInv, TypeOK, WindowInv, Gone, Holds, Row, Absent, Fresh, PC, Move,
        Shared, Refused, rows, past, life
  <2>1. ASSUME NEW h \in Holds, Ask(h) \/ Stop(h) PROVE Stays
    BY <2>1 DEF Ask, Stop
  <2>2. ASSUME NEW h \in Holds, Admit(h) PROVE Stays
    BY <2>2 DEF Admit, Wipe, Compare, Purge, Insert, Begin
  <2>3. ASSUME NEW h \in Holds, GiveBack(h) PROVE Stays
    BY <2>3 DEF GiveBack, Release, Forget
  <2>4. ASSUME NEW v \in Visions, RenewLease(v) \/ RenewFlag(v) PROVE Stays
    BY <2>4 DEF RenewLease, RenewFlag, RenewRow
  <2>5. ASSUME NEW v \in Visions, CloseWindow(v) PROVE Stays
    BY <2>5 DEF CloseWindow, Join, ReadFlag, LowerFlag
  <2>6. ASSUME NEW t \in Trainings, Train(t) PROVE Stays
    BY <2>6 DEF Train, Launch, Remember, Raise, Spawn, RenewTraining, RenewRow, Ends
  <2>9. ASSUME NEW t \in Trainings, NEW c \in Clearers, FailLaunch(t, c) PROVE Stays
    BY <2>9 DEF FailLaunch
  <2>10. ASSUME NEW c \in Clearers, Clear(c) PROVE Stays
    <3>1. CASE ClearRow(c)   BY <3>1 DEF ClearRow
    <3>2. CASE ClearToken(c) BY <3>2 DEF ClearToken
    <3>3. CASE Clears(c) \/ HandsBack(c) \/ ReadsToken(c) BY <3>3 DEF Clears, HandsBack, ReadsToken
    <3>4. CASE ClearFlag(c) \/ ClearStored(c) BY <3>4 DEF ClearFlag, ClearStored
    <3> QED BY <2>10, <3>1, <3>2, <3>3, <3>4 DEF Clear
  <2>7. CASE LapseLease \/ LapseFlag
    BY <2>7 DEF LapseLease, LapseFlag
  <2>8. CASE Crash \/ Restart
    BY <2>8 DEF Crash, Restart
  <2> QED
    BY <2>1, <2>2, <2>3, <2>4, <2>5, <2>6, <2>7, <2>8, <2>9, <2>10 DEF Next
<1> QED
  BY <1>1, LeaseInvHolds, PTL DEF Spec, DeadStayDead
=============================================================================
