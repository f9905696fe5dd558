------------------------- MODULE TrainQueueProofs -------------------------
(***************************************************************************)
(* Proofs about TrainQueue, for any number of items, launches, web         *)
(* requests, stops and crashes.                                            *)
(*                                                                         *)
(* LifeInv: an item that was trained in this life of the server is in the  *)
(* launch that trained it or has left the list, and a tick works on a copy *)
(* of the list without it.  Only a crash brings it back.                   *)
(* KeepInv: when the queue works undisturbed a living trainer is the one   *)
(* of the launch record, behind the flag, and every tick that read a PID   *)
(* still finds it; so what lowers the flag has seen no trainer alive, and  *)
(* none starts before it has finished.                                     *)
(***************************************************************************)
EXTENDS TrainQueue, TLAPS, FiniteSetTheorems

-----------------------------------------------------------------------------
(* Types.                                                                  *)

RunOrNone == Runs \cup {NoRun}
ItemOrNone == Items \cup {NoItem}
LaunchType == [phase : {"none", "prepared", "spawning", "running"},
               run : RunOrNone, item : ItemOrNone]
AdvType == [pc : AdvPC, snap : QueueState, pid : RunOrNone, vision : BOOLEAN,
            run : RunOrNone, item : ItemOrNone, step : Steps]
CallType == [pc : CallPC, run : RunOrNone, item : ItemOrNone, step : Steps]
StopType == [pc : {"idle", "adopt", "kill", "empty", "clear"},
             run : RunOrNone, found : RunOrNone, step : Steps]

RowsTyped ==
  /\ queue \in QueueState /\ launchId \in ItemOrNone /\ launch \in LaunchType
  /\ flag \in BOOLEAN /\ pid \in RunOrNone /\ stored \in RunOrNone
  /\ lease \in RunOrNone \cup {Other}
ThreadsTyped ==
  /\ lock \in Callers \cup {"free"} /\ adv \in AdvType /\ stopping \in StopType
  /\ call \in [Callers -> CallType]
WorldTyped ==
  /\ trainer \in [Runs -> {"none", "alive", "ended"}]
  /\ nextRun \in 1 .. MaxRuns + 1
  /\ directs \in 0 .. MaxDirect /\ stops \in 0 .. MaxStops /\ crashes \in 0 .. MaxCrashes
  /\ fate \in [Items -> {"none", "asked", "ran", "removed"}]
  /\ times \in [Items -> Nat]

(* A launch holds a run of its own until it has spawned.                   *)
Unspent == {"check", "prepare", "acquire", "store", "register", "raise", "spawn"}
CountInv ==
  \A i \in Items : /\ times[i] < nextRun
                   /\ call["queue"].pc \in Unspent => times[i] + 1 < nextRun

LEMMA TypesAre ==
  RowsTyped /\ ThreadsTyped /\ WorldTyped /\ CountInv => TrainTypeOK
<1> SUFFICES ASSUME RowsTyped, ThreadsTyped, WorldTyped, CountInv PROVE TrainTypeOK
  OBVIOUS
<1>1. times \in [Items -> 0 .. MaxRuns]
  BY TrainAssumption DEF WorldTyped, CountInv
<1> QED
  BY <1>1 DEF TrainTypeOK, RowsTyped, ThreadsTyped, WorldTyped, RunOrNone, ItemOrNone,
              LaunchType, AdvType, CallType, StopType

LEMMA StepShapes == 1 \in Steps /\ \A k \in Steps : k # 5 => k + 1 \in Steps
BY DEF Steps

LEMMA QueueShapes ==
  /\ Empty \in QueueState
  /\ \A q \in QueueState : \A i : \A s \in {"out", "queued", "launching", "failed"} :
        [q EXCEPT ![i] = s] \in QueueState
  /\ \A q \in QueueState : \A i \in Items : q[i] \in {"out", "queued", "launching", "failed"}
BY DEF QueueState, Empty

LEMMA LaunchShapes ==
  /\ NoLaunch \in LaunchType
  /\ \A l \in LaunchType : /\ [l EXCEPT !.phase = "running"] \in LaunchType
                           /\ l.run \in RunOrNone /\ l.item \in ItemOrNone
  /\ \A p \in {"prepared", "spawning", "running"}, r \in RunOrNone, i \in ItemOrNone :
        [phase |-> p, run |-> r, item |-> i] \in LaunchType
BY DEF LaunchType, NoLaunch, RunOrNone, ItemOrNone

LEMMA AdvFields ==
  /\ IdleAdv \in AdvType
  /\ \A a \in AdvType : /\ a.pid \in RunOrNone /\ a.run \in RunOrNone /\ a.item \in ItemOrNone
                        /\ a.snap \in QueueState /\ a.step \in Steps
<1>1. Empty \in QueueState
  BY QueueShapes
<1>2. IdleAdv \in AdvType
  BY <1>1 DEF AdvType, IdleAdv, AdvPC, RunOrNone, ItemOrNone, Steps
<1> QED BY <1>2 DEF AdvType

LEMMA AdvReads ==
  ASSUME NEW a \in AdvType, NEW q \in QueueState, NEW r \in RunOrNone, NEW v \in BOOLEAN,
         NEW p \in AdvPC
  PROVE  [a EXCEPT !.pc = p, !.snap = q, !.pid = r, !.vision = v] \in AdvType
BY DEF AdvType

LEMMA AdvMoves ==
  ASSUME NEW a \in AdvType, NEW p \in AdvPC
  PROVE  [a EXCEPT !.pc = p] \in AdvType
BY DEF AdvType

LEMMA AdvFinds ==
  ASSUME NEW a \in AdvType, NEW p \in AdvPC, NEW r \in RunOrNone
  PROVE  [a EXCEPT !.pc = p, !.run = r] \in AdvType
BY DEF AdvType

LEMMA AdvClears ==
  ASSUME NEW a \in AdvType, NEW p \in AdvPC, NEW k \in Steps
  PROVE  /\ [a EXCEPT !.pc = p, !.step = k] \in AdvType
         /\ [a EXCEPT !.step = k] \in AdvType
BY DEF AdvType

LEMMA AdvPicks ==
  ASSUME NEW a \in AdvType, NEW q \in QueueState, NEW i \in Items
  PROVE  [a EXCEPT !.pc = "prepared", !.snap = q, !.item = i] \in AdvType
BY DEF AdvType, AdvPC, ItemOrNone

LEMMA CallShapes ==
  /\ IdleCall \in CallType /\ Waiting \in CallType
  /\ \A q \in CallType : /\ q.run \in RunOrNone /\ q.item \in ItemOrNone
                         /\ q.step \in Steps
                         /\ \A p \in CallPC : [q EXCEPT !.pc = p] \in CallType
BY DEF CallType, IdleCall, Waiting, CallPC, RunOrNone, ItemOrNone, Steps

LEMMA CallTakes ==
  ASSUME NEW q \in CallType, NEW p \in CallPC, NEW r \in RunOrNone
  PROVE  [q EXCEPT !.pc = p, !.run = r] \in CallType
BY DEF CallType

LEMMA CallReads ==
  ASSUME NEW q \in CallType, NEW p \in CallPC, NEW i \in ItemOrNone
  PROVE  [q EXCEPT !.pc = p, !.item = i] \in CallType
BY DEF CallType

LEMMA CallFails ==
  ASSUME NEW q \in CallType, NEW p \in CallPC, NEW k \in Steps
  PROVE  /\ [q EXCEPT !.pc = p, !.step = k] \in CallType
         /\ [q EXCEPT !.step = k] \in CallType
BY DEF CallType

(* One caller moves, the other stays.                                      *)
LEMMA OneCallMoves ==
  ASSUME call \in [Callers -> CallType], NEW c \in Callers, NEW q \in CallType,
         NEW f, f = [call EXCEPT ![c] = q]
  PROVE  f \in [Callers -> CallType] /\ f[c] = q /\ \A d \in Callers : d # c => f[d] = call[d]
OBVIOUS

LEMMA StopShapes ==
  /\ IdleStop \in StopType /\ [IdleStop EXCEPT !.pc = "empty"] \in StopType
  /\ \A p \in {"adopt", "kill"}, r, s \in RunOrNone :
        [pc |-> p, run |-> r, found |-> s, step |-> 1] \in StopType
  /\ \A q \in StopType : /\ q.run \in RunOrNone /\ q.found \in RunOrNone
                         /\ [q EXCEPT !.pc = "kill"] \in StopType
                         /\ [q EXCEPT !.pc = "clear"] \in StopType
                         /\ q.step \in Steps
                         /\ \A k \in Steps : [q EXCEPT !.step = k] \in StopType
BY DEF StopType, IdleStop, RunOrNone, Steps

(* What is neither the tick of the queue nor a launch.                     *)
Others ==
  \/ DirectLaunch \/ DirectRefused \/ StopLooks \/ StopRequest
  \/ \E i \in Items : Enqueue(i) \/ Dequeue(i)
  \/ \E r \in Runs : TrainerEnds(r)
  \/ OthersTake \/ OthersRelease \/ LeaseLapses \/ Crash

Typed == RowsTyped /\ ThreadsTyped /\ WorldTyped

(* What the threads have at hand.                                          *)
LEMMA AtHand ==
  ASSUME Typed
  PROVE  /\ {NoRun, pid, adv.pid, adv.run, launch.run, stopping.run, stopping.found} \subseteq RunOrNone
         /\ {NoItem, launchId, adv.item, launch.item} \subseteq ItemOrNone
         /\ adv.snap \in QueueState /\ Empty \in QueueState /\ adv.step \in Steps
         /\ \A c \in Callers : /\ call[c] \in CallType /\ call[c].run \in RunOrNone
                               /\ call[c].item \in ItemOrNone /\ call[c].step \in Steps
         /\ Runs \subseteq RunOrNone /\ Items \subseteq ItemOrNone /\ {"queue", "direct"} = Callers
         /\ \A p \in RunOrNone : Found(p) \in RunOrNone
<1>1. NoRun \in RunOrNone /\ NoItem \in ItemOrNone /\ Runs \subseteq RunOrNone /\ Items \subseteq ItemOrNone
  BY DEF RunOrNone, ItemOrNone
<1>2. pid \in RunOrNone /\ launchId \in ItemOrNone /\ launch.run \in RunOrNone /\ launch.item \in ItemOrNone
  BY LaunchShapes DEF Typed, RowsTyped
<1>3. /\ stopping.run \in RunOrNone /\ stopping.found \in RunOrNone
      /\ adv.pid \in RunOrNone /\ adv.run \in RunOrNone /\ adv.item \in ItemOrNone
      /\ adv.snap \in QueueState /\ adv.step \in Steps
  BY AdvFields, StopShapes DEF Typed, ThreadsTyped
<1>4. \A c \in Callers : call[c] \in CallType
  BY DEF Typed, ThreadsTyped
<1>5. \A p \in RunOrNone : Found(p) \in RunOrNone
  BY <1>2 DEF Found
<1> QED BY <1>1, <1>2, <1>3, <1>4, <1>5, CallShapes, QueueShapes DEF Callers

LEMMA ClearTyped ==
  ASSUME RowsTyped, NEW k \in Steps, Clear(k), UNCHANGED <<queue, launchId>>
  PROVE  RowsTyped'
BY LaunchShapes DEF RowsTyped, Clear, RunOrNone

LEMMA AdoptTyped ==
  ASSUME launch \in LaunchType, AdoptLaunch PROVE launch' \in LaunchType
BY LaunchShapes DEF AdoptLaunch

LEMMA CallToTyped ==
  ASSUME Typed, NEW c \in Callers, NEW p \in CallPC, CallTo(c, p)
  PROVE  call' \in [Callers -> CallType]
<1>1. [call[c] EXCEPT !.pc = p] \in CallType
  BY AtHand, CallShapes
<1> QED BY <1>1 DEF CallTo, Typed, ThreadsTyped

LEMMA RowsTypedOfAdvance ==
  ASSUME Typed, Advance
  PROVE  RowsTyped'
<1> USE AtHand DEF Typed, RowsTyped, rows
<1>1. CASE AdvanceReads
  BY <1>1 DEF AdvanceReads
<1>2. CASE AdvanceLooks
  BY <1>2, AdoptTyped DEF AdvanceLooks
<1>3. CASE AdvanceAdopts
  BY <1>3 DEF AdvanceAdopts
<1>4. CASE AdvanceDrops
  BY <1>4, QueueShapes DEF AdvanceDrops
<1>5. CASE AdvanceDropsId
  BY <1>5 DEF AdvanceDropsId
<1>6. CASE AdvanceRearms
  BY <1>6 DEF AdvanceRearms
<1>7. CASE AdvanceRewrites
  BY <1>7 DEF AdvanceRewrites
<1>8. CASE AdvanceRenews
  BY <1>8 DEF AdvanceRenews
<1>9. CASE AdvanceRemembers
  BY <1>9 DEF AdvanceRemembers
<1>10. CASE AdvanceCompensates
  BY <1>10 DEF AdvanceCompensates
<1>11. CASE AdvanceClears
  BY <1>11, ClearTyped DEF AdvanceClears, aside
<1>12. CASE AdvanceReleases
  BY <1>12 DEF AdvanceReleases
<1>13. CASE AdvanceForgetsPid
  BY <1>13 DEF AdvanceForgetsPid
<1>14. CASE AdvanceReturnsLease
  BY <1>14 DEF AdvanceReturnsLease
<1>15. CASE AdvanceForgetsToken
  BY <1>15 DEF AdvanceForgetsToken
<1>16. CASE AdvanceRests
  BY <1>16 DEF AdvanceRests
<1>17. ASSUME NEW i \in Items, AdvancePrepares(i) PROVE RowsTyped'
  BY <1>17, QueueShapes DEF AdvancePrepares
<1>18. CASE AdvanceLaunches
  BY <1>18 DEF AdvanceLaunches
<1>19. CASE AdvanceSettles
  BY <1>19, QueueShapes DEF AdvanceSettles
<1>20. CASE AdvanceForgetsLaunch
  BY <1>20 DEF AdvanceForgetsLaunch
<1> QED
  BY <1>1, <1>2, <1>3, <1>4, <1>5, <1>6, <1>7, <1>8, <1>9, <1>10, <1>11, <1>12,
     <1>13, <1>14, <1>15, <1>16, <1>17, <1>18, <1>19, <1>20
     DEF Advance, Rearm, HandBack

LEMMA RowsTypedOfLaunch ==
  ASSUME Typed, NEW c \in Callers, Launches(c)
  PROVE  RowsTyped'
<1> USE AtHand DEF Typed, RowsTyped, rows
<1>1. CASE TakeLock(c)
  BY <1>1 DEF TakeLock
<1>2. CASE Check(c)
  BY <1>2, AdoptTyped DEF Check
<1>3. CASE CheckAdopts(c)
  BY <1>3 DEF CheckAdopts, RunOf
<1>4. CASE Prepare(c)
  BY <1>4, LaunchShapes DEF Prepare, RunOf
<1>5. CASE Acquire(c)
  BY <1>5 DEF Acquire, RunOf
<1>6. CASE Store(c)
  BY <1>6 DEF Store, RunOf
<1>7. CASE Register(c)
  BY <1>7, LaunchShapes DEF Register, LaunchState, RunOf
<1>8. CASE RaiseFlag(c)
  BY <1>8 DEF RaiseFlag
<1>9. CASE Spawn(c)
  BY <1>9 DEF Spawn
<1>10. CASE Publish(c)
  BY <1>10 DEF Publish, RunOf
<1>11. CASE Identify(c)
  BY <1>11, LaunchShapes DEF Identify, LaunchState, RunOf
<1>12. CASE FailLaunch(c)
  BY <1>12, ClearTyped DEF FailLaunch
<1> QED
  BY <1>1, <1>2, <1>3, <1>4, <1>5, <1>6, <1>7, <1>8, <1>9, <1>10, <1>11, <1>12
     DEF Launches

LEMMA RowsTypedOfOthers ==
  ASSUME Typed, Others
  PROVE  RowsTyped'
<1> USE AtHand DEF Typed, RowsTyped, rows
<1>1. CASE DirectLaunch
  BY <1>1 DEF DirectLaunch
<1>2. CASE DirectRefused
  BY <1>2 DEF DirectRefused
<1>3. CASE StopLooks
  BY <1>3, AdoptTyped DEF StopLooks, stopAside
<1>4. CASE StopAdopts
  BY <1>4 DEF StopAdopts, stopAside
<1>5. CASE StopKills
  BY <1>5 DEF StopKills, stopAside
<1>6. CASE StopEmpties
  BY <1>6 DEF StopEmpties, stopAside
<1>7. CASE StopClears
  <2>1. stopping.step \in Steps
    BY StopShapes DEF ThreadsTyped
  <2> QED BY <1>7, <2>1, ClearTyped DEF StopClears, stopAside
<1>8. ASSUME NEW i \in Items, Enqueue(i) PROVE RowsTyped'
  BY <1>8, QueueShapes DEF Enqueue
<1>9. ASSUME NEW i \in Items, Dequeue(i) PROVE RowsTyped'
  BY <1>9, QueueShapes DEF Dequeue
<1>10. ASSUME NEW r \in Runs, TrainerEnds(r) PROVE RowsTyped'
  BY <1>10 DEF TrainerEnds
<1>11. CASE OthersTake
  BY <1>11 DEF OthersTake
<1>12. CASE OthersRelease
  BY <1>12 DEF OthersRelease
<1>13. CASE LeaseLapses
  BY <1>13 DEF LeaseLapses
<1>14. CASE Crash
  BY <1>14 DEF Crash
<1> QED
  BY <1>1, <1>2, <1>3, <1>4, <1>5, <1>6, <1>7, <1>8, <1>9, <1>10, <1>11, <1>12,
     <1>13, <1>14
     DEF Others, StopRequest

LEMMA ThreadsTypedOfAdvance ==
  ASSUME Typed, Advance
  PROVE  ThreadsTyped'
<1> USE AtHand, AdvFields, AdvMoves DEF Typed, ThreadsTyped, threads, AdvTo, AdvPC
<1>1. CASE AdvanceReads
  <2>1. PICK v \in BOOLEAN :
          adv' = [IdleAdv EXCEPT !.pc = IF flag THEN "look" ELSE "free", !.snap = queue,
                                 !.pid = pid, !.vision = v]
    BY <1>1 DEF AdvanceReads
  <2>2. queue \in QueueState /\ "look" \in AdvPC /\ "free" \in AdvPC
    BY DEF RowsTyped
  <2>3. adv' \in AdvType
    BY <2>1, <2>2, AdvReads
  <2> QED BY <1>1, <2>3 DEF AdvanceReads, aside
<1>2. CASE AdvanceLooks
  <2>1. adv' \in AdvType
    <3>1. CASE Owned(adv.pid)
      <4>1. Found(adv.pid) \in RunOrNone
        OBVIOUS
      <4>2. adv' = [adv EXCEPT !.pc = IF Adopting THEN "adopt" ELSE "drop", !.run = Found(adv.pid)]
        BY <1>2, <3>1 DEF AdvanceLooks
      <4>3. (IF Adopting THEN "adopt" ELSE "drop") \in AdvPC
        OBVIOUS
      <4> QED BY <4>1, <4>2, <4>3, AdvFinds
    <3>2. CASE ~Owned(adv.pid)
      BY <1>2, <3>2 DEF AdvanceLooks
    <3> QED BY <3>1, <3>2
  <2> QED BY <1>2, <2>1 DEF AdvanceLooks, aside
<1>3. CASE AdvanceAdopts
  BY <1>3 DEF AdvanceAdopts, aside
<1>4. CASE AdvanceDrops
  BY <1>4 DEF AdvanceDrops, aside
<1>5. CASE AdvanceDropsId
  BY <1>5 DEF AdvanceDropsId, aside
<1>6. CASE AdvanceRearms
  BY <1>6 DEF AdvanceRearms, aside
<1>7. CASE AdvanceRewrites
  BY <1>7 DEF AdvanceRewrites, aside
<1>8. CASE AdvanceRenews
  BY <1>8 DEF AdvanceRenews, aside
<1>9. CASE AdvanceRemembers
  BY <1>9 DEF AdvanceRemembers, aside
<1>10. CASE AdvanceCompensates
  BY <1>10 DEF AdvanceCompensates, aside
<1>11. CASE AdvanceClears
  BY <1>11, AdvClears, StepShapes DEF AdvanceClears, aside
<1>12. CASE AdvanceReleases
  BY <1>12 DEF AdvanceReleases, aside
<1>13. CASE AdvanceForgetsPid
  BY <1>13 DEF AdvanceForgetsPid, aside
<1>14. CASE AdvanceReturnsLease
  BY <1>14 DEF AdvanceReturnsLease, aside
<1>15. CASE AdvanceForgetsToken
  BY <1>15 DEF AdvanceForgetsToken, aside
<1>16. CASE AdvanceRests
  BY <1>16 DEF AdvanceRests, aside
<1>17. ASSUME NEW i \in Items, AdvancePrepares(i) PROVE ThreadsTyped'
  BY <1>17, AdvPicks, QueueShapes DEF AdvancePrepares, aside
<1>18. CASE AdvanceLaunches
  BY <1>18, CallShapes DEF AdvanceLaunches
<1>19. CASE AdvanceSettles
  BY <1>19, CallShapes DEF AdvanceSettles
<1>20. CASE AdvanceForgetsLaunch
  BY <1>20 DEF AdvanceForgetsLaunch, aside
<1> QED
  BY <1>1, <1>2, <1>3, <1>4, <1>5, <1>6, <1>7, <1>8, <1>9, <1>10, <1>11, <1>12,
     <1>13, <1>14, <1>15, <1>16, <1>17, <1>18, <1>19, <1>20
     DEF Advance, Rearm, HandBack

LEMMA ThreadsTypedOfLaunch ==
  ASSUME Typed, NEW c \in Callers, Launches(c)
  PROVE  ThreadsTyped'
<1> USE AtHand, AdvFields, AdvMoves DEF Typed, ThreadsTyped, threads, AdvTo, AdvPC
<1>1. CASE TakeLock(c)
  <2>1. nextRun \in RunOrNone /\ "check" \in CallPC
    BY <1>1, TrainAssumption DEF TakeLock, WorldTyped, RunOrNone, Runs, CallPC
  <2>2. [call[c] EXCEPT !.pc = "check", !.run = nextRun] \in CallType
    BY <2>1, CallTakes
  <2>3. call' = [call EXCEPT ![c] = [call[c] EXCEPT !.pc = "check", !.run = nextRun]]
    BY <1>1 DEF TakeLock
  <2> QED BY <1>1, <2>2, <2>3 DEF TakeLock
<1>2. CASE Check(c)
  <2>1. {"adopt", "refused", "prepare"} \subseteq CallPC
    BY DEF CallPC
  <2>2. [call[c] EXCEPT !.pc = "adopt", !.run = launch.run] \in CallType
    BY <2>1, CallTakes
  <2>3. CASE call' = [call EXCEPT ![c] = [call[c] EXCEPT !.pc = "adopt", !.run = launch.run]]
    BY <1>2, <2>2, <2>3 DEF Check
  <2>4. CASE CallTo(c, "refused") \/ CallTo(c, "prepare")
    BY <1>2, <2>1, <2>4, CallToTyped DEF Check
  <2> QED BY <1>2, <2>3, <2>4 DEF Check
<1>3. CASE CheckAdopts(c)
  BY <1>3, CallToTyped DEF CheckAdopts, CallPC
<1>4. CASE Prepare(c)
  BY <1>4, CallReads DEF Prepare, CallPC
<1>5. CASE Acquire(c)
  BY <1>5, CallToTyped DEF Acquire, CallPC
<1>6. CASE Store(c)
  BY <1>6, CallToTyped DEF Store, CallPC
<1>7. CASE Register(c)
  BY <1>7, CallToTyped DEF Register, CallPC
<1>8. CASE RaiseFlag(c)
  BY <1>8, CallToTyped DEF RaiseFlag, CallPC
<1>9. CASE Spawn(c)
  BY <1>9, CallToTyped DEF Spawn, CallPC
<1>10. CASE Publish(c)
  BY <1>10, CallToTyped DEF Publish, CallPC
<1>11. CASE Identify(c)
  BY <1>11, CallShapes DEF Identify, CallPC
<1>12. CASE FailLaunch(c)
  <2>1. "refused" \in CallPC /\ 1 \in Steps /\ (call[c].step # 5 => call[c].step + 1 \in Steps)
    BY StepShapes DEF CallPC
  <2>2. CASE call[c].step = 5
    <3>1. [call[c] EXCEPT !.pc = "refused", !.step = 1] \in CallType
      BY <2>1, CallFails
    <3>2. call' = [call EXCEPT ![c] = [call[c] EXCEPT !.pc = "refused", !.step = 1]]
      BY <1>12, <2>2 DEF FailLaunch
    <3> QED BY <1>12, <2>2, <3>1, <3>2 DEF FailLaunch
  <2>3. CASE call[c].step # 5
    <3>1. [call[c] EXCEPT !.step = call[c].step + 1] \in CallType
      BY <2>1, <2>3, CallFails DEF CallPC
    <3>2. call' = [call EXCEPT ![c] = [call[c] EXCEPT !.step = call[c].step + 1]]
      BY <1>12, <2>3 DEF FailLaunch
    <3> QED BY <1>12, <2>3, <3>1, <3>2 DEF FailLaunch
  <2> QED BY <2>2, <2>3
<1> QED
  BY <1>1, <1>2, <1>3, <1>4, <1>5, <1>6, <1>7, <1>8, <1>9, <1>10, <1>11, <1>12
     DEF Launches

LEMMA ThreadsTypedOfOthers ==
  ASSUME Typed, Others
  PROVE  ThreadsTyped'
<1> USE AtHand, AdvFields, AdvMoves DEF Typed, ThreadsTyped, threads, AdvTo, AdvPC
<1>1. CASE DirectLaunch
  BY <1>1, CallShapes DEF DirectLaunch
<1>2. CASE DirectRefused
  BY <1>2, CallShapes DEF DirectRefused
<1>3. CASE StopLooks
  <2>1. stopping' \in StopType
    <3>1. CASE pid # NoRun /\ Owned(pid)
      <4>1. Found(pid) \in RunOrNone
        OBVIOUS
      <4>2. stopping' = [pc |-> IF Adopting THEN "adopt" ELSE "kill", run |-> pid,
                         found |-> Found(pid), step |-> 1]
        BY <1>3, <3>1 DEF StopLooks
      <4>3. (IF Adopting THEN "adopt" ELSE "kill") \in {"adopt", "kill"}
        OBVIOUS
      <4> QED BY <4>1, <4>2, <4>3, StopShapes
    <3>2. CASE ~(pid # NoRun /\ Owned(pid))
      BY <1>3, <3>2, StopShapes DEF StopLooks
    <3> QED BY <3>1, <3>2
  <2> QED BY <1>3, <2>1 DEF StopLooks, stopAside
<1>4. CASE StopAdopts
  BY <1>4, StopShapes DEF StopAdopts, stopAside
<1>5. CASE StopKills
  BY <1>5, StopShapes DEF StopKills, stopAside
<1>6. CASE StopEmpties
  BY <1>6, StopShapes DEF StopEmpties, stopAside
<1>7. CASE StopClears
  BY <1>7, StopShapes, StepShapes DEF StopClears, stopAside
<1>8. ASSUME NEW i \in Items, Enqueue(i) PROVE ThreadsTyped'
  BY <1>8 DEF Enqueue
<1>9. ASSUME NEW i \in Items, Dequeue(i) PROVE ThreadsTyped'
  BY <1>9 DEF Dequeue
<1>10. ASSUME NEW r \in Runs, TrainerEnds(r) PROVE ThreadsTyped'
  BY <1>10 DEF TrainerEnds
<1>11. CASE OthersTake
  BY <1>11 DEF OthersTake
<1>12. CASE OthersRelease
  BY <1>12 DEF OthersRelease
<1>13. CASE LeaseLapses
  BY <1>13 DEF LeaseLapses
<1>14. CASE Crash
  BY <1>14, CallShapes, StopShapes DEF Crash
<1> QED
  BY <1>1, <1>2, <1>3, <1>4, <1>5, <1>6, <1>7, <1>8, <1>9, <1>10, <1>11, <1>12,
     <1>13, <1>14
     DEF Others, StopRequest

LEMMA WorldTypedOfAdvance ==
  ASSUME Typed, Advance
  PROVE  WorldTyped'
<1> USE TrainAssumption DEF Typed, WorldTyped, bounds, hist
<1>1. CASE AdvanceReads
  BY <1>1 DEF AdvanceReads, aside
<1>2. CASE AdvanceLooks
  BY <1>2 DEF AdvanceLooks, aside
<1>3. CASE AdvanceAdopts
  BY <1>3 DEF AdvanceAdopts, aside
<1>4. CASE AdvanceDrops
  BY <1>4 DEF AdvanceDrops, aside
<1>5. CASE AdvanceDropsId
  BY <1>5 DEF AdvanceDropsId, aside
<1>6. CASE AdvanceRearms
  BY <1>6 DEF AdvanceRearms, aside
<1>7. CASE AdvanceRewrites
  BY <1>7 DEF AdvanceRewrites, aside
<1>8. CASE AdvanceRenews
  BY <1>8 DEF AdvanceRenews, aside
<1>9. CASE AdvanceRemembers
  BY <1>9 DEF AdvanceRemembers, aside
<1>10. CASE AdvanceCompensates
  BY <1>10 DEF AdvanceCompensates, aside
<1>11. CASE AdvanceClears
  BY <1>11 DEF AdvanceClears, aside
<1>12. CASE AdvanceReleases
  BY <1>12 DEF AdvanceReleases, aside
<1>13. CASE AdvanceForgetsPid
  BY <1>13 DEF AdvanceForgetsPid, aside
<1>14. CASE AdvanceReturnsLease
  BY <1>14 DEF AdvanceReturnsLease, aside
<1>15. CASE AdvanceForgetsToken
  BY <1>15 DEF AdvanceForgetsToken, aside
<1>16. CASE AdvanceRests
  BY <1>16 DEF AdvanceRests, aside
<1>17. ASSUME NEW i \in Items, AdvancePrepares(i) PROVE WorldTyped'
  BY <1>17 DEF AdvancePrepares, aside
<1>18. CASE AdvanceLaunches
  BY <1>18 DEF AdvanceLaunches, hist
<1>19. CASE AdvanceSettles
  BY <1>19 DEF AdvanceSettles, hist
<1>20. CASE AdvanceForgetsLaunch
  BY <1>20 DEF AdvanceForgetsLaunch, aside
<1> QED
  BY <1>1, <1>2, <1>3, <1>4, <1>5, <1>6, <1>7, <1>8, <1>9, <1>10, <1>11, <1>12,
     <1>13, <1>14, <1>15, <1>16, <1>17, <1>18, <1>19, <1>20
     DEF Advance, Rearm, HandBack

LEMMA WorldTypedOfLaunch ==
  ASSUME Typed, NEW c \in Callers, Launches(c)
  PROVE  WorldTyped'
<1> USE TrainAssumption DEF Typed, WorldTyped, bounds, hist
<1>1. CASE TakeLock(c)
  BY <1>1 DEF TakeLock, Runs
<1>2. CASE Check(c)
  BY <1>2 DEF Check
<1>3. CASE CheckAdopts(c)
  BY <1>3 DEF CheckAdopts
<1>4. CASE Prepare(c)
  BY <1>4 DEF Prepare
<1>5. CASE Acquire(c)
  BY <1>5 DEF Acquire
<1>6. CASE Store(c)
  BY <1>6 DEF Store
<1>7. CASE Register(c)
  BY <1>7 DEF Register
<1>8. CASE RaiseFlag(c)
  BY <1>8 DEF RaiseFlag
<1>9. CASE Spawn(c)
  BY <1>9 DEF Spawn
<1>10. CASE Publish(c)
  BY <1>10 DEF Publish
<1>11. CASE Identify(c)
  BY <1>11 DEF Identify
<1>12. CASE FailLaunch(c)
  BY <1>12 DEF FailLaunch
<1> QED
  BY <1>1, <1>2, <1>3, <1>4, <1>5, <1>6, <1>7, <1>8, <1>9, <1>10, <1>11, <1>12
     DEF Launches

LEMMA WorldTypedOfOthers ==
  ASSUME Typed, Others
  PROVE  WorldTyped'
<1> USE TrainAssumption DEF Typed, WorldTyped, bounds, hist
<1>1. CASE DirectLaunch
  BY <1>1 DEF DirectLaunch, hist
<1>2. CASE DirectRefused
  BY <1>2 DEF DirectRefused
<1>3. CASE StopLooks
  BY <1>3 DEF StopLooks, stopAside
<1>4. CASE StopAdopts
  BY <1>4 DEF StopAdopts, stopAside
<1>5. CASE StopKills
  BY <1>5 DEF StopKills, stopAside
<1>6. CASE StopEmpties
  BY <1>6 DEF StopEmpties, stopAside
<1>7. CASE StopClears
  BY <1>7 DEF StopClears, stopAside
<1>8. ASSUME NEW i \in Items, Enqueue(i) PROVE WorldTyped'
  BY <1>8 DEF Enqueue
<1>9. ASSUME NEW i \in Items, Dequeue(i) PROVE WorldTyped'
  BY <1>9 DEF Dequeue
<1>10. ASSUME NEW r \in Runs, TrainerEnds(r) PROVE WorldTyped'
  BY <1>10 DEF TrainerEnds
<1>11. CASE OthersTake
  BY <1>11 DEF OthersTake
<1>12. CASE OthersRelease
  BY <1>12 DEF OthersRelease
<1>13. CASE LeaseLapses
  BY <1>13 DEF LeaseLapses
<1>14. CASE Crash
  BY <1>14 DEF Crash
<1> QED
  BY <1>1, <1>2, <1>3, <1>4, <1>5, <1>6, <1>7, <1>8, <1>9, <1>10, <1>11, <1>12,
     <1>13, <1>14
     DEF Others, StopRequest

LEMMA TypesStep ==
  ASSUME Typed, [TrainNext]_vars PROVE Typed'
<1>1. CASE UNCHANGED vars
  BY <1>1 DEF vars, rows, threads, bounds, hist, Typed, RowsTyped, ThreadsTyped, WorldTyped
<1> QED
  BY <1>1, RowsTypedOfAdvance, RowsTypedOfLaunch, RowsTypedOfOthers, ThreadsTypedOfAdvance,
     ThreadsTypedOfLaunch, ThreadsTypedOfOthers, WorldTypedOfAdvance, WorldTypedOfLaunch,
     WorldTypedOfOthers DEF TrainNext, Others, Typed

-----------------------------------------------------------------------------
(* What the steps do to the records of a tick and of a launch.             *)

LEMMA AdvEffects ==
  ASSUME Typed
  PROVE  /\ \A p : AdvTo(p) => /\ adv'.pc = p /\ adv'.snap = adv.snap /\ adv'.item = adv.item
                               /\ adv'.pid = adv.pid /\ adv'.run = adv.run
         /\ AdvanceReads => /\ adv'.pc = (IF flag THEN "look" ELSE "free")
                            /\ adv'.snap = queue /\ adv'.pid = pid
         /\ AdvanceLooks => /\ adv'.snap = adv.snap /\ adv'.item = adv.item /\ adv'.pid = adv.pid
                            /\ IF Owned(adv.pid)
                                 THEN /\ adv'.pc = (IF Adopting THEN "adopt" ELSE "drop")
                                      /\ adv'.run = Found(adv.pid)
                                 ELSE adv'.pc = "dead"
         /\ AdvanceClears => /\ adv'.pc \in {"clear", "finished"} /\ adv'.snap = adv.snap
                             /\ adv'.item = adv.item /\ adv'.pid = adv.pid /\ adv'.run = adv.run
         /\ \A i \in Items : AdvancePrepares(i) =>
              /\ adv'.pc = "prepared" /\ adv'.snap = [adv.snap EXCEPT ![i] = "launching"]
              /\ adv'.item = i /\ adv'.pid = adv.pid /\ adv'.run = adv.run
         /\ IdleAdv.pc = "idle" /\ IdleAdv.pid = NoRun
<1> USE DEF Typed, ThreadsTyped, AdvType
<1>1. \A p : AdvTo(p) => /\ adv'.pc = p /\ adv'.snap = adv.snap /\ adv'.item = adv.item
                         /\ adv'.pid = adv.pid /\ adv'.run = adv.run
  BY DEF AdvTo
<1>2. ASSUME AdvanceReads
      PROVE  /\ adv'.pc = (IF flag THEN "look" ELSE "free")
             /\ adv'.snap = queue /\ adv'.pid = pid
  BY <1>2 DEF AdvanceReads, IdleAdv
<1>3. ASSUME AdvanceLooks, Owned(adv.pid)
      PROVE  /\ adv'.snap = adv.snap /\ adv'.item = adv.item /\ adv'.pid = adv.pid
             /\ adv'.pc = (IF Adopting THEN "adopt" ELSE "drop")
             /\ adv'.run = Found(adv.pid)
  BY <1>3 DEF AdvanceLooks
<1>4. ASSUME AdvanceLooks, ~Owned(adv.pid)
      PROVE  AdvTo("dead")
  BY <1>4 DEF AdvanceLooks
<1>5. ASSUME AdvanceClears
      PROVE  /\ adv'.pc \in {"clear", "finished"} /\ adv'.snap = adv.snap
             /\ adv'.item = adv.item /\ adv'.pid = adv.pid /\ adv'.run = adv.run
  BY <1>5 DEF AdvanceClears
<1>6. ASSUME NEW i \in Items, AdvancePrepares(i)
      PROVE  /\ adv'.pc = "prepared" /\ adv'.snap = [adv.snap EXCEPT ![i] = "launching"]
             /\ adv'.item = i /\ adv'.pid = adv.pid /\ adv'.run = adv.run
  BY <1>6 DEF AdvancePrepares
<1>7. IdleAdv.pc = "idle" /\ IdleAdv.pid = NoRun
  BY DEF IdleAdv
<1> QED BY <1>1, <1>2, <1>3, <1>4, <1>5, <1>6, <1>7

(* The caller at work moves, the other does not.                           *)
LEMMA CallEffects ==
  ASSUME Typed, NEW c \in Callers
  PROVE  /\ \A p : CallTo(c, p) => call'[c].pc = p /\ call'[c].run = call[c].run
         /\ TakeLock(c) => call'[c].pc = "check" /\ call'[c].run = nextRun
         /\ Check(c) => \/ call'[c].pc = "adopt" /\ flag /\ Owned(pid) /\ Adopting
                        \/ /\ call'[c].pc \in {"refused", "prepare"} /\ call'[c].run = call[c].run
                           /\ UNCHANGED launch
         /\ Prepare(c) => call'[c].pc = "acquire" /\ call'[c].run = call[c].run
         /\ Identify(c) => call'[c].pc = IF c = "queue" THEN "ok" ELSE "idle"
         /\ FailLaunch(c) => call'[c].pc \in {"failed", "refused"} /\ call'[c].run = call[c].run
         /\ Launches(c) => \A d \in Callers \ {c} : call'[d] = call[d]
         /\ IdleCall.pc = "idle" /\ Waiting.pc = "lock"
<1>1. call \in [Callers -> CallType] /\ call[c] \in CallType
  BY DEF Typed, ThreadsTyped
<1>2. \A p : CallTo(c, p) => call'[c].pc = p /\ call'[c].run = call[c].run
  BY <1>1 DEF CallTo, CallType
<1>3. TakeLock(c) => call'[c].pc = "check" /\ call'[c].run = nextRun
  BY <1>1 DEF TakeLock, CallType
<1>4. ASSUME Check(c)
      PROVE  \/ call'[c].pc = "adopt" /\ flag /\ Owned(pid) /\ Adopting
             \/ /\ call'[c].pc \in {"refused", "prepare"} /\ call'[c].run = call[c].run
                /\ UNCHANGED launch
  <2>1. CASE /\ flag /\ Owned(pid) /\ Adopting
             /\ call' = [call EXCEPT ![c].pc = "adopt", ![c].run = launch.run]
    <3>1. call'[c].pc = "adopt"
      BY <1>1, <2>1 DEF CallType
    <3> QED BY <2>1, <3>1
  <2>2. CASE UNCHANGED launch /\ (CallTo(c, "refused") \/ CallTo(c, "prepare"))
    BY <1>2, <2>2
  <2> QED BY <1>4, <2>1, <2>2 DEF Check
<1>5. Prepare(c) => call'[c].pc = "acquire" /\ call'[c].run = call[c].run
  BY <1>1 DEF Prepare, CallType
<1>6. Identify(c) => call'[c].pc = IF c = "queue" THEN "ok" ELSE "idle"
  BY <1>1 DEF Identify, IdleCall, Waiting, CallType
<1>7. ASSUME FailLaunch(c)
      PROVE  call'[c].pc \in {"failed", "refused"} /\ call'[c].run = call[c].run
  BY <1>1, <1>7 DEF FailLaunch, CallAt, CallType
<1>8. ASSUME Launches(c) PROVE \A d \in Callers \ {c} : call'[d] = call[d]
  BY <1>1, <1>8 DEF Launches, TakeLock, Check, CheckAdopts, Prepare, Acquire, Store, Register,
                    RaiseFlag, Spawn, Publish, Identify, FailLaunch, CallTo
<1>9. IdleCall.pc = "idle" /\ Waiting.pc = "lock"
  BY DEF IdleCall, Waiting
<1> QED BY <1>2, <1>3, <1>4, <1>5, <1>6, <1>7, <1>8, <1>9

-----------------------------------------------------------------------------
(* How often an item is trained.                                           *)

(* The queue waits for the launch it asked for, of an item it has marked.  *)
QueueInv ==
  /\ call["queue"].pc # "idle" => adv.pc = "launch"
  /\ adv.pc \in {"prepared", "launch"} => adv.item \in Items /\ adv.snap[adv.item] = "launching"

(* An item trained in this life is in the launch that did it, or it has    *)
(* left the list and the copy of it a tick works with.                     *)
Spawned == {"publish", "identify", "ok"}
Spent(i) ==
  \/ adv.pc = "launch" /\ adv.item = i /\ call["queue"].pc \in Spawned
  \/ queue[i] = "out" /\ (adv.pc \in {"idle", "settled"} \/ adv.snap[i] = "out")
TimesInv ==
  \A i \in Items : \/ times[i] <= crashes
                   \/ times[i] = crashes + 1 /\ fate[i] # "none" /\ Spent(i)

LEMMA CountInvOfAdvance ==
  ASSUME Typed, CountInv, Advance
  PROVE  CountInv'
<1>0. /\ times \in [Items -> Nat] /\ nextRun \in Nat
      /\ "queue" \in Callers
  BY TrainAssumption DEF Typed, WorldTyped, Callers
<1> USE DEF CountInv, Unspent
<1>1. CASE AdvanceReads
  BY <1>1, <1>0 DEF AdvanceReads, aside, bounds, hist
<1>2. CASE AdvanceLooks
  BY <1>2, <1>0 DEF AdvanceLooks, aside, bounds, hist
<1>3. CASE AdvanceAdopts
  BY <1>3, <1>0 DEF AdvanceAdopts, aside, bounds, hist
<1>4. CASE AdvanceDrops
  BY <1>4, <1>0 DEF AdvanceDrops, aside, bounds, hist
<1>5. CASE AdvanceDropsId
  BY <1>5, <1>0 DEF AdvanceDropsId, aside, bounds, hist
<1>6. CASE AdvanceRearms
  BY <1>6, <1>0 DEF AdvanceRearms, aside, bounds, hist
<1>7. CASE AdvanceRewrites
  BY <1>7, <1>0 DEF AdvanceRewrites, aside, bounds, hist
<1>8. CASE AdvanceRenews
  BY <1>8, <1>0 DEF AdvanceRenews, aside, bounds, hist
<1>9. CASE AdvanceRemembers
  BY <1>9, <1>0 DEF AdvanceRemembers, aside, bounds, hist
<1>10. CASE AdvanceCompensates
  BY <1>10, <1>0 DEF AdvanceCompensates, aside, bounds, hist
<1>11. CASE AdvanceClears
  BY <1>11, <1>0 DEF AdvanceClears, aside, bounds, hist
<1>12. CASE AdvanceReleases
  BY <1>12, <1>0 DEF AdvanceReleases, aside, bounds, hist
<1>13. CASE AdvanceForgetsPid
  BY <1>13, <1>0 DEF AdvanceForgetsPid, aside, bounds, hist
<1>14. CASE AdvanceReturnsLease
  BY <1>14, <1>0 DEF AdvanceReturnsLease, aside, bounds, hist
<1>15. CASE AdvanceForgetsToken
  BY <1>15, <1>0 DEF AdvanceForgetsToken, aside, bounds, hist
<1>16. CASE AdvanceRests
  BY <1>16, <1>0 DEF AdvanceRests, aside, bounds, hist
<1>17. ASSUME NEW i \in Items, AdvancePrepares(i) PROVE CountInv'
  BY <1>17, <1>0 DEF AdvancePrepares, aside, bounds, hist
<1>18. CASE AdvanceLaunches
  BY <1>18, <1>0, AtHand, CallEffects DEF AdvanceLaunches, bounds, hist, Typed, ThreadsTyped
<1>19. CASE AdvanceSettles
  BY <1>19, <1>0, AtHand, CallEffects DEF AdvanceSettles, bounds, hist, Typed, ThreadsTyped
<1>20. CASE AdvanceForgetsLaunch
  BY <1>20, <1>0 DEF AdvanceForgetsLaunch, aside, bounds, hist
<1> QED
  BY <1>1, <1>2, <1>3, <1>4, <1>5, <1>6, <1>7, <1>8, <1>9, <1>10, <1>11, <1>12,
     <1>13, <1>14, <1>15, <1>16, <1>17, <1>18, <1>19, <1>20
     DEF Advance, Rearm, HandBack

LEMMA CountInvOfLaunch ==
  ASSUME Typed, CountInv, NEW c \in Callers, Launches(c)
  PROVE  CountInv'
<1>0. /\ times \in [Items -> Nat] /\ nextRun \in Nat
      /\ "queue" \in Callers
  BY TrainAssumption DEF Typed, WorldTyped, Callers
<1> USE DEF CountInv, Unspent
<1>1. CASE TakeLock(c)
  BY <1>1, <1>0, CallEffects DEF TakeLock, CallAt, bounds, hist
<1>2. CASE Check(c)
  BY <1>2, <1>0, CallEffects DEF Check, CallAt, bounds, hist
<1>3. CASE CheckAdopts(c)
  BY <1>3, <1>0, CallEffects DEF CheckAdopts, CallAt, bounds, hist
<1>4. CASE Prepare(c)
  BY <1>4, <1>0, CallEffects DEF Prepare, CallAt, bounds, hist
<1>5. CASE Acquire(c)
  BY <1>5, <1>0, CallEffects DEF Acquire, CallAt, bounds, hist
<1>6. CASE Store(c)
  BY <1>6, <1>0, CallEffects DEF Store, CallAt, bounds, hist
<1>7. CASE Register(c)
  BY <1>7, <1>0, CallEffects DEF Register, CallAt, bounds, hist
<1>8. CASE RaiseFlag(c)
  BY <1>8, <1>0, CallEffects DEF RaiseFlag, CallAt, bounds, hist
<1>9. CASE Spawn(c)
  BY <1>9, <1>0, CallEffects DEF Spawn, CallAt, bounds, hist
<1>10. CASE Publish(c)
  BY <1>10, <1>0, CallEffects DEF Publish, CallAt, bounds, hist
<1>11. CASE Identify(c)
  BY <1>11, <1>0, CallEffects DEF Identify, CallAt, bounds, hist
<1>12. CASE FailLaunch(c)
  BY <1>12, <1>0, CallEffects DEF FailLaunch, CallAt, bounds, hist
<1> QED
  BY <1>1, <1>2, <1>3, <1>4, <1>5, <1>6, <1>7, <1>8, <1>9, <1>10, <1>11, <1>12
     DEF Launches

LEMMA CountInvOfOthers ==
  ASSUME Typed, CountInv, Others
  PROVE  CountInv'
<1>0. /\ times \in [Items -> Nat] /\ nextRun \in Nat
      /\ "queue" \in Callers
  BY TrainAssumption DEF Typed, WorldTyped, Callers
<1> USE DEF CountInv, Unspent
<1>1. CASE DirectLaunch
  BY <1>1, <1>0, AtHand DEF DirectLaunch, bounds, hist, Typed, ThreadsTyped
<1>2. CASE DirectRefused
  BY <1>2, <1>0, AtHand DEF DirectRefused, bounds, hist, Typed, ThreadsTyped
<1>3. CASE StopLooks
  BY <1>3, <1>0 DEF StopLooks, stopAside
<1>4. CASE StopAdopts
  BY <1>4, <1>0 DEF StopAdopts, stopAside
<1>5. CASE StopKills
  BY <1>5, <1>0 DEF StopKills, stopAside
<1>6. CASE StopEmpties
  BY <1>6, <1>0 DEF StopEmpties, stopAside
<1>7. CASE StopClears
  BY <1>7, <1>0 DEF StopClears, stopAside
<1>8. ASSUME NEW i \in Items, Enqueue(i) PROVE CountInv'
  BY <1>8, <1>0 DEF Enqueue, threads, bounds, hist
<1>9. ASSUME NEW i \in Items, Dequeue(i) PROVE CountInv'
  BY <1>9, <1>0 DEF Dequeue, threads, bounds, hist
<1>10. ASSUME NEW r \in Runs, TrainerEnds(r) PROVE CountInv'
  BY <1>10, <1>0 DEF TrainerEnds, threads, bounds, hist
<1>11. CASE OthersTake
  BY <1>11, <1>0 DEF OthersTake, threads, bounds, hist
<1>12. CASE OthersRelease
  BY <1>12, <1>0 DEF OthersRelease, threads, bounds, hist
<1>13. CASE LeaseLapses
  BY <1>13, <1>0 DEF LeaseLapses, threads, bounds, hist
<1>14. CASE Crash
  BY <1>14, <1>0, CallEffects DEF Crash, hist
<1> QED
  BY <1>1, <1>2, <1>3, <1>4, <1>5, <1>6, <1>7, <1>8, <1>9, <1>10, <1>11, <1>12,
     <1>13, <1>14
     DEF Others, StopRequest

LEMMA QueueInvOfAdvance ==
  ASSUME Typed, QueueInv, Advance
  PROVE  QueueInv'
<1>0. /\ adv.item \in ItemOrNone /\ adv.snap \in QueueState
      /\ call \in [Callers -> CallType] /\ "queue" \in Callers
      /\ \A i \in Items : adv.snap[i] \in {"out", "queued", "launching", "failed"}
  BY AtHand, QueueShapes DEF Typed, ThreadsTyped
<1> USE DEF QueueInv
<1>1. CASE AdvanceReads
  <2>1. adv'.pc \in {"look", "free"}
    BY <1>1, AdvEffects
  <2>2. call' = call /\ adv.pc = "idle"
    BY <1>1 DEF AdvanceReads, aside, QueueLockFree
  <2> QED BY <2>1, <2>2
<1>2. CASE AdvanceLooks
  BY <1>2, <1>0, AdvEffects DEF AdvanceLooks, aside, threads
<1>3. CASE AdvanceAdopts
  BY <1>3, <1>0, AdvEffects DEF AdvanceAdopts, aside, threads
<1>4. CASE AdvanceDrops
  BY <1>4, <1>0, AdvEffects DEF AdvanceDrops, aside, threads
<1>5. CASE AdvanceDropsId
  BY <1>5, <1>0, AdvEffects DEF AdvanceDropsId, aside, threads
<1>6. CASE AdvanceRearms
  BY <1>6, <1>0, AdvEffects DEF AdvanceRearms, aside, threads
<1>7. CASE AdvanceRewrites
  BY <1>7, <1>0, AdvEffects DEF AdvanceRewrites, aside, threads
<1>8. CASE AdvanceRenews
  BY <1>8, <1>0, AdvEffects DEF AdvanceRenews, aside, threads
<1>9. CASE AdvanceRemembers
  BY <1>9, <1>0, AdvEffects DEF AdvanceRemembers, aside, threads
<1>10. CASE AdvanceCompensates
  BY <1>10, <1>0, AdvEffects DEF AdvanceCompensates, aside, threads
<1>11. CASE AdvanceClears
  BY <1>11, <1>0, AdvEffects DEF AdvanceClears, aside, threads
<1>12. CASE AdvanceReleases
  BY <1>12, <1>0, AdvEffects DEF AdvanceReleases, aside, threads
<1>13. CASE AdvanceForgetsPid
  BY <1>13, <1>0, AdvEffects DEF AdvanceForgetsPid, aside, threads
<1>14. CASE AdvanceReturnsLease
  BY <1>14, <1>0, AdvEffects DEF AdvanceReturnsLease, aside, threads
<1>15. CASE AdvanceForgetsToken
  BY <1>15, <1>0, AdvEffects DEF AdvanceForgetsToken, aside, threads
<1>16. CASE AdvanceRests
  BY <1>16, <1>0, AdvEffects DEF AdvanceRests, aside, threads
<1>17. ASSUME NEW i \in Items, AdvancePrepares(i) PROVE QueueInv'
  <2>1. call' = call
    BY <1>17, <1>0 DEF AdvancePrepares, aside
  <2>2. adv'.pc = "prepared" /\ adv'.item = i /\ adv'.snap[i] = "launching"
    BY <1>17, <1>0, AdvEffects DEF QueueState
  <2> QED BY <1>17, <2>1, <2>2 DEF AdvancePrepares
<1>18. CASE AdvanceLaunches
  BY <1>18, <1>0, AdvEffects, CallEffects DEF AdvanceLaunches
<1>19. CASE AdvanceSettles
  BY <1>19, <1>0, AdvEffects, CallEffects DEF AdvanceSettles
<1>20. CASE AdvanceForgetsLaunch
  BY <1>20, <1>0, AdvEffects DEF AdvanceForgetsLaunch, aside, threads
<1> QED
  BY <1>1, <1>2, <1>3, <1>4, <1>5, <1>6, <1>7, <1>8, <1>9, <1>10, <1>11, <1>12,
     <1>13, <1>14, <1>15, <1>16, <1>17, <1>18, <1>19, <1>20
     DEF Advance, Rearm, HandBack

LEMMA QueueInvOfLaunch ==
  ASSUME Typed, QueueInv, NEW c \in Callers, Launches(c)
  PROVE  QueueInv'
<1>0. /\ adv.item \in ItemOrNone /\ adv.snap \in QueueState
      /\ call \in [Callers -> CallType] /\ "queue" \in Callers
      /\ \A i \in Items : adv.snap[i] \in {"out", "queued", "launching", "failed"}
  BY AtHand, QueueShapes DEF Typed, ThreadsTyped
<1> USE DEF QueueInv
<1>1. CASE TakeLock(c)
  BY <1>1, <1>0, CallEffects DEF TakeLock, CallAt
<1>2. CASE Check(c)
  BY <1>2, <1>0, CallEffects DEF Check, CallAt
<1>3. CASE CheckAdopts(c)
  BY <1>3, <1>0, CallEffects DEF CheckAdopts, CallAt
<1>4. CASE Prepare(c)
  BY <1>4, <1>0, CallEffects DEF Prepare, CallAt
<1>5. CASE Acquire(c)
  BY <1>5, <1>0, CallEffects DEF Acquire, CallAt
<1>6. CASE Store(c)
  BY <1>6, <1>0, CallEffects DEF Store, CallAt
<1>7. CASE Register(c)
  BY <1>7, <1>0, CallEffects DEF Register, CallAt
<1>8. CASE RaiseFlag(c)
  BY <1>8, <1>0, CallEffects DEF RaiseFlag, CallAt
<1>9. CASE Spawn(c)
  BY <1>9, <1>0, CallEffects DEF Spawn, CallAt
<1>10. CASE Publish(c)
  BY <1>10, <1>0, CallEffects DEF Publish, CallAt
<1>11. CASE Identify(c)
  BY <1>11, <1>0, CallEffects DEF Identify, CallAt
<1>12. CASE FailLaunch(c)
  BY <1>12, <1>0, CallEffects DEF FailLaunch, CallAt
<1> QED
  BY <1>1, <1>2, <1>3, <1>4, <1>5, <1>6, <1>7, <1>8, <1>9, <1>10, <1>11, <1>12
     DEF Launches

LEMMA QueueInvOfOthers ==
  ASSUME Typed, QueueInv, Others
  PROVE  QueueInv'
<1>0. /\ adv.item \in ItemOrNone /\ adv.snap \in QueueState
      /\ call \in [Callers -> CallType] /\ "queue" \in Callers
      /\ \A i \in Items : adv.snap[i] \in {"out", "queued", "launching", "failed"}
  BY AtHand, QueueShapes DEF Typed, ThreadsTyped
<1> USE DEF QueueInv
<1>1. CASE DirectLaunch
  BY <1>1, <1>0 DEF DirectLaunch, threads
<1>2. CASE DirectRefused
  BY <1>2, <1>0 DEF DirectRefused, threads
<1>3. CASE StopLooks
  BY <1>3, <1>0 DEF StopLooks, stopAside
<1>4. CASE StopAdopts
  BY <1>4, <1>0 DEF StopAdopts, stopAside
<1>5. CASE StopKills
  BY <1>5, <1>0 DEF StopKills, stopAside
<1>6. CASE StopEmpties
  BY <1>6, <1>0 DEF StopEmpties, stopAside
<1>7. CASE StopClears
  BY <1>7, <1>0 DEF StopClears, stopAside
<1>8. ASSUME NEW i \in Items, Enqueue(i) PROVE QueueInv'
  BY <1>8, <1>0 DEF Enqueue, threads
<1>9. ASSUME NEW i \in Items, Dequeue(i) PROVE QueueInv'
  BY <1>9, <1>0 DEF Dequeue, threads
<1>10. ASSUME NEW r \in Runs, TrainerEnds(r) PROVE QueueInv'
  BY <1>10, <1>0 DEF TrainerEnds, threads
<1>11. CASE OthersTake
  BY <1>11, <1>0 DEF OthersTake, threads
<1>12. CASE OthersRelease
  BY <1>12, <1>0 DEF OthersRelease, threads
<1>13. CASE LeaseLapses
  BY <1>13, <1>0 DEF LeaseLapses, threads
<1>14. CASE Crash
  BY <1>14, <1>0, AdvEffects, CallEffects DEF Crash
<1> QED
  BY <1>1, <1>2, <1>3, <1>4, <1>5, <1>6, <1>7, <1>8, <1>9, <1>10, <1>11, <1>12,
     <1>13, <1>14
     DEF Others, StopRequest

LEMMA TimesInvOfAdvance ==
  ASSUME Typed, QueueInv, TimesInv, Advance
  PROVE  TimesInv'
<1>0. /\ queue \in QueueState /\ adv.item \in ItemOrNone /\ adv.snap \in QueueState
      /\ \A i \in Items : /\ adv.snap[i] \in {"out", "queued", "launching", "failed"}
                          /\ queue[i] \in {"out", "queued", "launching", "failed"}
      /\ call \in [Callers -> CallType] /\ "queue" \in Callers
      /\ times \in [Items -> Nat] /\ crashes \in Nat
      /\ fate \in [Items -> {"none", "asked", "ran", "removed"}]
  BY AtHand, QueueShapes, TrainAssumption DEF Typed, ThreadsTyped, WorldTyped, RowsTyped
<1> USE DEF TimesInv, Spent, Spawned
<1>1. CASE AdvanceReads
  <2>1. adv'.pc \in {"look", "free"} /\ adv'.snap = queue
    BY <1>1, AdvEffects
  <2>2. UNCHANGED <<queue, call, times, fate, crashes>> /\ adv.pc = "idle"
    BY <1>1 DEF AdvanceReads, aside, rows, bounds, hist, QueueLockFree
  <2> QED BY <1>0, <2>1, <2>2
<1>2. CASE AdvanceLooks
  BY <1>2, <1>0, AdvEffects DEF AdvanceLooks, aside, rows, bounds, hist
<1>3. CASE AdvanceAdopts
  BY <1>3, <1>0, AdvEffects DEF AdvanceAdopts, aside, rows, bounds, hist
<1>4. CASE AdvanceDrops
  BY <1>4, <1>0, AdvEffects DEF AdvanceDrops, aside, bounds, hist, QueueState
<1>5. CASE AdvanceDropsId
  BY <1>5, <1>0, AdvEffects DEF AdvanceDropsId, aside, rows, bounds, hist
<1>6. CASE AdvanceRearms
  BY <1>6, <1>0, AdvEffects DEF AdvanceRearms, aside, rows, bounds, hist
<1>7. CASE AdvanceRewrites
  BY <1>7, <1>0, AdvEffects DEF AdvanceRewrites, aside, rows, bounds, hist
<1>8. CASE AdvanceRenews
  BY <1>8, <1>0, AdvEffects DEF AdvanceRenews, aside, rows, bounds, hist
<1>9. CASE AdvanceRemembers
  BY <1>9, <1>0, AdvEffects DEF AdvanceRemembers, aside, rows, bounds, hist
<1>10. CASE AdvanceCompensates
  BY <1>10, <1>0, AdvEffects DEF AdvanceCompensates, aside, rows, bounds, hist
<1>11. CASE AdvanceClears
  BY <1>11, <1>0, AdvEffects DEF AdvanceClears, aside, rows, bounds, hist
<1>12. CASE AdvanceReleases
  BY <1>12, <1>0, AdvEffects DEF AdvanceReleases, aside, rows, bounds, hist
<1>13. CASE AdvanceForgetsPid
  BY <1>13, <1>0, AdvEffects DEF AdvanceForgetsPid, aside, rows, bounds, hist
<1>14. CASE AdvanceReturnsLease
  BY <1>14, <1>0, AdvEffects DEF AdvanceReturnsLease, aside, rows, bounds, hist
<1>15. CASE AdvanceForgetsToken
  BY <1>15, <1>0, AdvEffects DEF AdvanceForgetsToken, aside, rows, bounds, hist
<1>16. CASE AdvanceRests
  BY <1>16, <1>0, AdvEffects DEF AdvanceRests, aside, rows, bounds, hist
<1>17. ASSUME NEW i \in Items, AdvancePrepares(i) PROVE TimesInv'
  <2>1. /\ adv'.pc = "prepared" /\ adv'.snap = [adv.snap EXCEPT ![i] = "launching"]
        /\ queue' = [adv.snap EXCEPT ![i] = "launching"]
        /\ adv.pc \in {"finished", "free"} /\ adv.snap[i] # "out"
        /\ UNCHANGED <<call, times, fate, crashes>>
    BY <1>17, AdvEffects DEF AdvancePrepares, DueItems, aside, bounds, hist
  <2>2. \A j \in Items : adv.snap[j] = "out" => adv'.snap[j] = "out" /\ queue'[j] = "out"
    BY <1>0, <2>1 DEF QueueState
  <2> QED BY <1>0, <2>1, <2>2
<1>18. CASE AdvanceLaunches
  BY <1>18, <1>0, AdvEffects, CallEffects DEF AdvanceLaunches, bounds, hist, QueueInv
<1>19. CASE AdvanceSettles
  BY <1>19, <1>0, AdvEffects, CallEffects DEF AdvanceSettles, bounds, hist, QueueState, QueueInv
<1>20. CASE AdvanceForgetsLaunch
  BY <1>20, <1>0, AdvEffects DEF AdvanceForgetsLaunch, aside, rows, bounds, hist
<1> QED
  BY <1>1, <1>2, <1>3, <1>4, <1>5, <1>6, <1>7, <1>8, <1>9, <1>10, <1>11, <1>12,
     <1>13, <1>14, <1>15, <1>16, <1>17, <1>18, <1>19, <1>20
     DEF Advance, Rearm, HandBack

LEMMA TimesInvOfLaunch ==
  ASSUME Typed, QueueInv, TimesInv, NEW c \in Callers, Launches(c)
  PROVE  TimesInv'
<1>0. /\ queue \in QueueState /\ adv.item \in ItemOrNone /\ adv.snap \in QueueState
      /\ \A i \in Items : /\ adv.snap[i] \in {"out", "queued", "launching", "failed"}
                          /\ queue[i] \in {"out", "queued", "launching", "failed"}
      /\ call \in [Callers -> CallType] /\ "queue" \in Callers
      /\ times \in [Items -> Nat] /\ crashes \in Nat
      /\ fate \in [Items -> {"none", "asked", "ran", "removed"}]
  BY AtHand, QueueShapes, TrainAssumption DEF Typed, ThreadsTyped, WorldTyped, RowsTyped
<1> USE DEF TimesInv, Spent, Spawned
<1>1. CASE TakeLock(c)
  <2>1. UNCHANGED <<queue, adv, crashes, times, fate>> /\ call[c].pc = "lock"
    BY <1>1 DEF TakeLock, CallAt, rows, bounds, hist
  <2>2. call["queue"].pc \in Spawned => call'["queue"] = call["queue"]
    BY <1>0, <2>1, CallEffects
  <2> QED BY <1>0, <2>1, <2>2
<1>2. CASE Check(c)
  BY <1>2, <1>0, CallEffects DEF Check, CallAt, rows, bounds, hist
<1>3. CASE CheckAdopts(c)
  BY <1>3, <1>0, CallEffects DEF CheckAdopts, CallAt, rows, bounds, hist
<1>4. CASE Prepare(c)
  <2>1. UNCHANGED <<queue, adv, crashes, times, fate>> /\ call[c].pc = "prepare"
    BY <1>4 DEF Prepare, CallAt, rows, bounds, hist
  <2>2. call["queue"].pc \in Spawned => call'["queue"] = call["queue"]
    BY <1>0, <2>1, CallEffects
  <2> QED BY <1>0, <2>1, <2>2
<1>5. CASE Acquire(c)
  BY <1>5, <1>0, CallEffects DEF Acquire, CallAt, rows, bounds, hist
<1>6. CASE Store(c)
  BY <1>6, <1>0, CallEffects DEF Store, CallAt, rows, bounds, hist
<1>7. CASE Register(c)
  BY <1>7, <1>0, CallEffects DEF Register, CallAt, rows, bounds, hist
<1>8. CASE RaiseFlag(c)
  BY <1>8, <1>0, CallEffects DEF RaiseFlag, CallAt, rows, bounds, hist
<1>9. CASE Spawn(c)
  <2>0. UNCHANGED <<queue, adv, crashes>> /\ call'[c].pc \in {"publish", "failed"} /\ call[c].pc = "spawn"
    BY <1>9, CallEffects DEF Spawn, CallAt, rows, bounds
  <2>1. CASE UNCHANGED hist
    <3>1. call["queue"].pc \in Spawned => call'["queue"] = call["queue"]
      BY <1>0, <2>0, CallEffects
    <3> QED BY <1>0, <2>0, <2>1, <3>1 DEF hist
  <2>2. CASE /\ c = "queue" /\ call'[c].pc = "publish"
             /\ fate' = [fate EXCEPT ![adv.item] = "ran"]
             /\ times' = [times EXCEPT ![adv.item] = times[adv.item] + 1]
    <3>1. adv.pc = "launch" /\ adv.item \in Items /\ adv.snap[adv.item] = "launching"
      BY <2>0, <2>2 DEF QueueInv
    <3>2. \A i \in Items \ {adv.item} : times'[i] = times[i] /\ fate'[i] = fate[i]
      BY <1>0, <2>2
    <3>3. times'[adv.item] = times[adv.item] + 1 /\ fate'[adv.item] = "ran"
      BY <1>0, <2>2, <3>1
    <3>4. times[adv.item] <= crashes
      BY <2>0, <2>2, <3>1
    <3> QED BY <1>0, <2>0, <2>2, <3>1, <3>2, <3>3, <3>4
  <2>3. CallTo(c, "publish") => call'[c].pc = "publish"
    BY CallEffects
  <2> QED BY <1>9, <2>1, <2>2, <2>3 DEF Spawn
<1>10. CASE Publish(c)
  BY <1>10, <1>0, CallEffects DEF Publish, CallAt, rows, bounds, hist
<1>11. CASE Identify(c)
  BY <1>11, <1>0, CallEffects DEF Identify, CallAt, rows, bounds, hist
<1>12. CASE FailLaunch(c)
  BY <1>12, <1>0, CallEffects DEF FailLaunch, CallAt, rows, bounds, hist
<1> QED
  BY <1>1, <1>2, <1>3, <1>4, <1>5, <1>6, <1>7, <1>8, <1>9, <1>10, <1>11, <1>12
     DEF Launches

LEMMA TimesInvOfOthers ==
  ASSUME Typed, QueueInv, TimesInv, Others
  PROVE  TimesInv'
<1>0. /\ queue \in QueueState /\ adv.item \in ItemOrNone /\ adv.snap \in QueueState
      /\ \A i \in Items : /\ adv.snap[i] \in {"out", "queued", "launching", "failed"}
                          /\ queue[i] \in {"out", "queued", "launching", "failed"}
      /\ call \in [Callers -> CallType] /\ "queue" \in Callers
      /\ times \in [Items -> Nat] /\ crashes \in Nat
      /\ fate \in [Items -> {"none", "asked", "ran", "removed"}]
  BY AtHand, QueueShapes, TrainAssumption DEF Typed, ThreadsTyped, WorldTyped, RowsTyped
<1> USE DEF TimesInv, Spent, Spawned
<1>1. CASE DirectLaunch
  BY <1>1, <1>0 DEF DirectLaunch, rows, threads, bounds, hist
<1>2. CASE DirectRefused
  BY <1>2, <1>0 DEF DirectRefused, rows, threads, bounds, hist
<1>3. CASE StopLooks
  BY <1>3, <1>0 DEF StopLooks, stopAside, hist
<1>4. CASE StopAdopts
  BY <1>4, <1>0 DEF StopAdopts, stopAside, hist
<1>5. CASE StopKills
  BY <1>5, <1>0 DEF StopKills, stopAside, hist
<1>6. CASE StopEmpties
  BY <1>6, <1>0 DEF StopEmpties, stopAside, Empty
<1>7. CASE StopClears
  BY <1>7, <1>0 DEF StopClears, stopAside, hist
<1>8. ASSUME NEW i \in Items, Enqueue(i) PROVE TimesInv'
  BY <1>8, <1>0 DEF Enqueue, threads, bounds, QueueState
<1>9. ASSUME NEW i \in Items, Dequeue(i) PROVE TimesInv'
  BY <1>9, <1>0 DEF Dequeue, threads, bounds, QueueState, QueueLockFree
<1>10. ASSUME NEW r \in Runs, TrainerEnds(r) PROVE TimesInv'
  BY <1>10, <1>0 DEF TrainerEnds, rows, threads, bounds, hist
<1>11. CASE OthersTake
  BY <1>11, <1>0 DEF OthersTake, rows, threads, bounds, hist
<1>12. CASE OthersRelease
  BY <1>12, <1>0 DEF OthersRelease, rows, threads, bounds, hist
<1>13. CASE LeaseLapses
  BY <1>13, <1>0 DEF LeaseLapses, rows, threads, bounds, hist
<1>14. CASE Crash
  BY <1>14, <1>0, AdvEffects, CallEffects DEF Crash, hist, bounds
<1> QED
  BY <1>1, <1>2, <1>3, <1>4, <1>5, <1>6, <1>7, <1>8, <1>9, <1>10, <1>11, <1>12,
     <1>13, <1>14
     DEF Others, StopRequest

LEMMA LifeIsKept == TrainSpec => [](Typed /\ CountInv /\ QueueInv /\ TimesInv)
<1> DEFINE LifeInv == Typed /\ CountInv /\ QueueInv /\ TimesInv
<1>1. TrainInit => LifeInv
  <2> SUFFICES ASSUME TrainInit PROVE LifeInv
    OBVIOUS
  <2>0. /\ NoRun \in RunOrNone /\ NoItem \in ItemOrNone /\ Empty \in QueueState
        /\ NoLaunch \in LaunchType /\ IdleAdv \in AdvType /\ IdleStop \in StopType
        /\ IdleCall \in CallType
    BY QueueShapes, LaunchShapes, AdvFields, StopShapes, CallShapes DEF RunOrNone, ItemOrNone
  <2>1. RowsTyped
    BY <2>0 DEF TrainInit, RowsTyped
  <2>2. ThreadsTyped
    BY <2>0 DEF TrainInit, ThreadsTyped
  <2>3. WorldTyped
    BY TrainAssumption DEF TrainInit, WorldTyped
  <2>4. CountInv
    BY DEF TrainInit, CountInv, Callers, IdleCall, Waiting, Unspent
  <2>5. QueueInv
    BY DEF TrainInit, QueueInv, Callers, IdleCall, Waiting, IdleAdv
  <2>6. TimesInv
    BY DEF TrainInit, TimesInv
  <2> QED BY <2>1, <2>2, <2>3, <2>4, <2>5, <2>6 DEF Typed
<1>2. LifeInv /\ [TrainNext]_vars => LifeInv'
  <2> SUFFICES ASSUME LifeInv, [TrainNext]_vars PROVE LifeInv'
    OBVIOUS
  <2>1. CASE UNCHANGED vars
    <3>1. UNCHANGED <<queue, adv, call, nextRun, crashes, fate, times>>
      BY <2>1 DEF vars, rows, threads, bounds, hist
    <3> QED BY <3>1, TypesStep DEF CountInv, QueueInv, TimesInv, Spent
  <2>2. CASE Advance
    BY <2>2, TypesStep, CountInvOfAdvance, QueueInvOfAdvance, TimesInvOfAdvance
  <2>3. ASSUME NEW c \in Callers, Launches(c) PROVE LifeInv'
    BY <2>3, TypesStep, CountInvOfLaunch, QueueInvOfLaunch, TimesInvOfLaunch
  <2>4. CASE Others
    BY <2>4, TypesStep, CountInvOfOthers, QueueInvOfOthers, TimesInvOfOthers
  <2> QED BY <2>1, <2>2, <2>3, <2>4 DEF TrainNext, Others
<1> QED BY <1>1, <1>2, PTL DEF TrainSpec

(* Rows, threads, trainers and counters keep their types, however often    *)
(* the server dies; an item is trained at most once per attempt.           *)
THEOREM TrainTyped == TrainSpec => []TrainTypeOK
<1>1. Typed /\ CountInv => TrainTypeOK
  BY TypesAre DEF Typed
<1> QED BY <1>1, LifeIsKept, PTL

(* One life of the server trains an item at most once.                     *)
THEOREM TrainedOnce == TrainSpec => []TrainedOncePerLife
<1>1. Typed /\ TimesInv => TrainedOncePerLife
  BY TrainAssumption DEF Typed, WorldTyped, TimesInv, TrainedOncePerLife
<1> QED BY <1>1, LifeIsKept, PTL
-----------------------------------------------------------------------------
(* The undisturbed queue keeps its trainer.                                *)

ByQueue == directs = 0 /\ stops = 0

(* Without requests over the web only the queue launches, and what it      *)
(* launches has not run before.                                            *)
FreshInv ==
  ByQueue =>
    /\ call["direct"].pc = "idle" /\ stopping.pc = "idle"
    /\ \A r \in Runs : r >= nextRun => trainer[r] = "none"
    /\ call["queue"].pc \in Unspent =>
         /\ call["queue"].run \in Runs /\ call["queue"].run < nextRun
         /\ trainer[call["queue"].run] = "none"

NoneLives == \A r \in Runs : trainer[r] # "alive"

(* A trainer that lives is the one of the launch record, behind the flag,  *)
(* and its PID is the only one that may be recorded; without its identity  *)
(* it is found by its config path.                                         *)
Covered ==
  \A r \in Runs : trainer[r] = "alive" =>
     /\ flag /\ launch.run = r
     /\ \/ launch.phase = "running" /\ pid \in {NoRun, r}
        \/ /\ launch.phase = "spawning"
           /\ crashes > 0 \/ call["queue"].pc \in {"publish", "identify"}

(* A PID that is recorded, or that a tick has read, is of a trainer that   *)
(* was spawned; a tick finds the recorded PID as it read it.               *)
PidsInv ==
  /\ pid # NoRun => trainer[pid] # "none"
  /\ adv.pid # NoRun => trainer[adv.pid] # "none"
  /\ adv.pc = "adopt" => crashes > 0 /\ adv.run \in Runs /\ trainer[adv.run] # "none"
  /\ crashes = 0 /\ adv.pc \in {"look", "drop", "dropId", "rearm", "rewrite"} => adv.pid = pid

(* From the raised flag on, the record and the flag are the launch's own.  *)
CallInv ==
  /\ call["queue"].pc # "adopt"
  /\ call["queue"].pc \in {"raise", "spawn", "publish", "identify"} =>
       launch.phase = "spawning" /\ launch.run = call["queue"].run
  /\ call["queue"].pc \in {"spawn", "publish", "identify"} => flag
  /\ call["queue"].pc \in {"publish", "identify"} =>
       call["queue"].run \in Runs /\ trainer[call["queue"].run] # "none"
  /\ call["queue"].pc = "identify" => pid = call["queue"].run

(* What rolls back, releases or launches has seen that no trainer lives.   *)
Emptyhanded ==
  {"free", "dead", "clear", "finished", "pidless", "leaseless", "tokenless", "prepared"}
DeadInv ==
  \/ adv.pc \in Emptyhanded
  \/ adv.pc = "launch" /\ call["queue"].pc \notin Spawned
  => NoneLives

Kept == Covered /\ PidsInv /\ CallInv /\ DeadInv
KeepInv == FreshInv /\ (Undisturbed => Kept)

LEMMA FreshInvOfAdvance ==
  ASSUME Typed, FreshInv, Advance
  PROVE  FreshInv'
<1>0. /\ directs \in Nat /\ stops \in Nat /\ nextRun \in Nat /\ nextRun <= MaxRuns + 1
      /\ MaxRuns \in Nat /\ trainer \in [Runs -> {"none", "alive", "ended"}]
      /\ call \in [Callers -> CallType] /\ Callers = {"queue", "direct"}
      /\ \A r \in Runs : r \in Nat
  BY TrainAssumption DEF Typed, WorldTyped, ThreadsTyped, Callers, Runs
<1> USE DEF FreshInv, ByQueue, Unspent
<1>1. CASE AdvanceReads
  BY <1>1, <1>0 DEF AdvanceReads, aside, bounds
<1>2. CASE AdvanceLooks
  BY <1>2, <1>0 DEF AdvanceLooks, aside, bounds
<1>3. CASE AdvanceAdopts
  BY <1>3, <1>0 DEF AdvanceAdopts, aside, bounds
<1>4. CASE AdvanceDrops
  BY <1>4, <1>0 DEF AdvanceDrops, aside, bounds
<1>5. CASE AdvanceDropsId
  BY <1>5, <1>0 DEF AdvanceDropsId, aside, bounds
<1>6. CASE AdvanceRearms
  BY <1>6, <1>0 DEF AdvanceRearms, aside, bounds
<1>7. CASE AdvanceRewrites
  BY <1>7, <1>0 DEF AdvanceRewrites, aside, bounds
<1>8. CASE AdvanceRenews
  BY <1>8, <1>0 DEF AdvanceRenews, aside, bounds
<1>9. CASE AdvanceRemembers
  BY <1>9, <1>0 DEF AdvanceRemembers, aside, bounds
<1>10. CASE AdvanceCompensates
  BY <1>10, <1>0 DEF AdvanceCompensates, aside, bounds
<1>11. CASE AdvanceClears
  BY <1>11, <1>0 DEF AdvanceClears, aside, bounds
<1>12. CASE AdvanceReleases
  BY <1>12, <1>0 DEF AdvanceReleases, aside, bounds
<1>13. CASE AdvanceForgetsPid
  BY <1>13, <1>0 DEF AdvanceForgetsPid, aside, bounds
<1>14. CASE AdvanceReturnsLease
  BY <1>14, <1>0 DEF AdvanceReturnsLease, aside, bounds
<1>15. CASE AdvanceForgetsToken
  BY <1>15, <1>0 DEF AdvanceForgetsToken, aside, bounds
<1>16. CASE AdvanceRests
  BY <1>16, <1>0 DEF AdvanceRests, aside, bounds
<1>17. ASSUME NEW i \in Items, AdvancePrepares(i) PROVE FreshInv'
  BY <1>17, <1>0 DEF AdvancePrepares, aside, bounds
<1>18. CASE AdvanceLaunches
  BY <1>18, <1>0, CallEffects DEF AdvanceLaunches, bounds, IdleCall, Waiting
<1>19. CASE AdvanceSettles
  BY <1>19, <1>0, CallEffects DEF AdvanceSettles, bounds, IdleCall, Waiting
<1>20. CASE AdvanceForgetsLaunch
  BY <1>20, <1>0 DEF AdvanceForgetsLaunch, aside, bounds
<1> QED
  BY <1>1, <1>2, <1>3, <1>4, <1>5, <1>6, <1>7, <1>8, <1>9, <1>10, <1>11, <1>12,
     <1>13, <1>14, <1>15, <1>16, <1>17, <1>18, <1>19, <1>20
     DEF Advance, Rearm, HandBack

LEMMA FreshInvOfLaunch ==
  ASSUME Typed, FreshInv, NEW c \in Callers, Launches(c)
  PROVE  FreshInv'
<1>0. /\ directs \in Nat /\ stops \in Nat /\ nextRun \in Nat /\ nextRun <= MaxRuns + 1
      /\ MaxRuns \in Nat /\ trainer \in [Runs -> {"none", "alive", "ended"}]
      /\ call \in [Callers -> CallType] /\ Callers = {"queue", "direct"}
      /\ \A r \in Runs : r \in Nat
  BY TrainAssumption DEF Typed, WorldTyped, ThreadsTyped, Callers, Runs
<1> USE DEF FreshInv, ByQueue, Unspent
<1>1. CASE TakeLock(c)
  <2>1. ByQueue => c = "queue"
    BY <1>1, <1>0 DEF TakeLock, CallAt
  <2>2. /\ call'[c].pc = "check" /\ call'[c].run = nextRun /\ nextRun \in Runs
        /\ nextRun' = nextRun + 1 /\ UNCHANGED <<trainer, stopping, directs, stops>>
    <3>1. nextRun \in Runs
      BY <1>1, <1>0 DEF TakeLock, Runs, Typed, WorldTyped
    <3> QED BY <1>1, <3>1, CallEffects DEF TakeLock
  <2>3. \A d \in Callers \ {c} : call'[d] = call[d]
    BY <1>1, CallEffects DEF Launches
  <2> QED BY <2>1, <2>2, <2>3, <1>0
<1>2. CASE Check(c)
  <2>1. ByQueue => c = "queue"
    BY <1>2, <1>0 DEF Check, CallAt
  <2> QED BY <1>2, <2>1, <1>0, CallEffects DEF Check, CallAt, bounds, RunOf, Runs
<1>3. CASE CheckAdopts(c)
  <2>1. ByQueue => c = "queue"
    BY <1>3, <1>0 DEF CheckAdopts, CallAt
  <2> QED BY <1>3, <2>1, <1>0, CallEffects DEF CheckAdopts, CallAt, bounds, RunOf, Runs
<1>4. CASE Prepare(c)
  <2>1. ByQueue => c = "queue"
    BY <1>4, <1>0 DEF Prepare, CallAt
  <2> QED BY <1>4, <2>1, <1>0, CallEffects DEF Prepare, CallAt, bounds, RunOf, Runs
<1>5. CASE Acquire(c)
  <2>1. ByQueue => c = "queue"
    BY <1>5, <1>0 DEF Acquire, CallAt
  <2> QED BY <1>5, <2>1, <1>0, CallEffects DEF Acquire, CallAt, bounds, RunOf, Runs
<1>6. CASE Store(c)
  <2>1. ByQueue => c = "queue"
    BY <1>6, <1>0 DEF Store, CallAt
  <2> QED BY <1>6, <2>1, <1>0, CallEffects DEF Store, CallAt, bounds, RunOf, Runs
<1>7. CASE Register(c)
  <2>1. ByQueue => c = "queue"
    BY <1>7, <1>0 DEF Register, CallAt
  <2> QED BY <1>7, <2>1, <1>0, CallEffects DEF Register, CallAt, bounds, RunOf, Runs
<1>8. CASE RaiseFlag(c)
  <2>1. ByQueue => c = "queue"
    BY <1>8, <1>0 DEF RaiseFlag, CallAt
  <2> QED BY <1>8, <2>1, <1>0, CallEffects DEF RaiseFlag, CallAt, bounds, RunOf, Runs
<1>9. CASE Spawn(c)
  <2>1. ByQueue => c = "queue"
    BY <1>9, <1>0 DEF Spawn, CallAt
  <2> QED BY <1>9, <2>1, <1>0, CallEffects DEF Spawn, CallAt, bounds, RunOf, Runs
<1>10. CASE Publish(c)
  <2>1. ByQueue => c = "queue"
    BY <1>10, <1>0 DEF Publish, CallAt
  <2> QED BY <1>10, <2>1, <1>0, CallEffects DEF Publish, CallAt, bounds, RunOf, Runs
<1>11. CASE Identify(c)
  <2>1. ByQueue => c = "queue"
    BY <1>11, <1>0 DEF Identify, CallAt
  <2> QED BY <1>11, <2>1, <1>0, CallEffects DEF Identify, CallAt, bounds, RunOf, Runs
<1>12. CASE FailLaunch(c)
  <2>1. ByQueue => c = "queue"
    BY <1>12, <1>0 DEF FailLaunch, CallAt
  <2> QED BY <1>12, <2>1, <1>0, CallEffects DEF FailLaunch, CallAt, bounds, RunOf, Runs
<1> QED
  BY <1>1, <1>2, <1>3, <1>4, <1>5, <1>6, <1>7, <1>8, <1>9, <1>10, <1>11, <1>12
     DEF Launches

LEMMA FreshInvOfOthers ==
  ASSUME Typed, FreshInv, Others
  PROVE  FreshInv'
<1>0. /\ directs \in Nat /\ stops \in Nat /\ nextRun \in Nat /\ nextRun <= MaxRuns + 1
      /\ MaxRuns \in Nat /\ trainer \in [Runs -> {"none", "alive", "ended"}]
      /\ call \in [Callers -> CallType] /\ Callers = {"queue", "direct"}
      /\ \A r \in Runs : r \in Nat
  BY TrainAssumption DEF Typed, WorldTyped, ThreadsTyped, Callers, Runs
<1> USE DEF FreshInv, ByQueue, Unspent
<1>1. CASE DirectLaunch
  BY <1>1, <1>0 DEF DirectLaunch, bounds, CallAt
<1>2. CASE DirectRefused
  BY <1>2, <1>0 DEF DirectRefused, bounds, CallAt
<1>3. CASE StopLooks
  BY <1>3, <1>0 DEF StopLooks, stopAside
<1>4. CASE StopAdopts
  BY <1>4, <1>0 DEF StopAdopts, stopAside
<1>5. CASE StopKills
  BY <1>5, <1>0 DEF StopKills, stopAside
<1>6. CASE StopEmpties
  BY <1>6, <1>0 DEF StopEmpties, stopAside
<1>7. CASE StopClears
  BY <1>7, <1>0 DEF StopClears, stopAside
<1>8. ASSUME NEW i \in Items, Enqueue(i) PROVE FreshInv'
  BY <1>8, <1>0 DEF Enqueue, threads, bounds
<1>9. ASSUME NEW i \in Items, Dequeue(i) PROVE FreshInv'
  BY <1>9, <1>0 DEF Dequeue, threads, bounds
<1>10. ASSUME NEW r \in Runs, TrainerEnds(r) PROVE FreshInv'
  BY <1>10, <1>0 DEF TrainerEnds, threads, bounds
<1>11. CASE OthersTake
  BY <1>11, <1>0 DEF OthersTake, threads, bounds
<1>12. CASE OthersRelease
  BY <1>12, <1>0 DEF OthersRelease, threads, bounds
<1>13. CASE LeaseLapses
  BY <1>13, <1>0 DEF LeaseLapses, threads, bounds
<1>14. CASE Crash
  BY <1>14, <1>0, CallEffects DEF Crash, IdleStop, IdleCall, Waiting
<1> QED
  BY <1>1, <1>2, <1>3, <1>4, <1>5, <1>6, <1>7, <1>8, <1>9, <1>10, <1>11, <1>12,
     <1>13, <1>14
     DEF Others, StopRequest

(* What did not disturb the queue left it undisturbed before.              *)
LEMMA UndisturbedBefore ==
  ASSUME Typed, FreshInv, TrainNext, Undisturbed'
  PROVE  Undisturbed
<1>0. directs \in Nat /\ stops \in Nat /\ crashes \in Nat /\ trainer \in [Runs -> {"none", "alive", "ended"}]
  BY TrainAssumption DEF Typed, WorldTyped
<1>1. (directs' = directs \/ directs' = directs + 1) /\ (stops' = stops \/ stops' = stops + 1)
  BY DEF TrainNext, Advance, AdvanceReads, AdvanceLooks, Rearm, AdvanceAdopts, AdvanceDrops,
     AdvanceDropsId, AdvanceRearms, AdvanceRewrites, AdvanceRenews, AdvanceRemembers,
     AdvanceCompensates, AdvanceClears, HandBack, AdvanceReleases, AdvanceForgetsPid,
     AdvanceReturnsLease, AdvanceForgetsToken, AdvanceRests, AdvancePrepares, AdvanceLaunches,
     AdvanceSettles, AdvanceForgetsLaunch, Launches, TakeLock, Check, CheckAdopts, Prepare,
     Acquire, Store, Register, RaiseFlag, Spawn, Publish, Identify, FailLaunch, DirectLaunch,
     DirectRefused, StopLooks, StopRequest, StopAdopts, StopKills, StopEmpties, StopClears,
     Enqueue, Dequeue, TrainerEnds, OthersTake, OthersRelease, LeaseLapses, Crash,
     aside, stopAside, bounds
<1>2. crashes' = crashes \/ crashes' = crashes + 1
  BY DEF TrainNext, Advance, AdvanceReads, AdvanceLooks, Rearm, AdvanceAdopts, AdvanceDrops,
     AdvanceDropsId, AdvanceRearms, AdvanceRewrites, AdvanceRenews, AdvanceRemembers,
     AdvanceCompensates, AdvanceClears, HandBack, AdvanceReleases, AdvanceForgetsPid,
     AdvanceReturnsLease, AdvanceForgetsToken, AdvanceRests, AdvancePrepares, AdvanceLaunches,
     AdvanceSettles, AdvanceForgetsLaunch, Launches, TakeLock, Check, CheckAdopts, Prepare,
     Acquire, Store, Register, RaiseFlag, Spawn, Publish, Identify, FailLaunch, DirectLaunch,
     DirectRefused, StopLooks, StopRequest, StopAdopts, StopKills, StopEmpties, StopClears,
     Enqueue, Dequeue, TrainerEnds, OthersTake, OthersRelease, LeaseLapses, Crash,
     aside, stopAside, bounds
<1>3. ByQueue
  BY <1>0, <1>1 DEF Undisturbed, ByQueue
<1>4. ASSUME NEW r \in Runs, trainer[r] = "ended" PROVE trainer'[r] = "ended"
  <2>1. ~StopKills
    BY <1>3 DEF FreshInv, StopKills
  <2>2. CASE \E c \in Callers : Spawn(c)
    <3>1. PICK c \in Callers : Spawn(c)
      BY <2>2
    <3>2. c = "queue" /\ trainer[call[c].run] = "none"
      BY <3>1, <1>3 DEF Spawn, CallAt, FreshInv, Unspent, Callers
    <3> QED BY <3>1, <3>2, <1>0, <1>4 DEF Spawn, RunOf
  <2>3. CASE \E q \in Runs : TrainerEnds(q)
    BY <2>3, <1>0, <1>4 DEF TrainerEnds
  <2>4. CASE ~(\E c \in Callers : Spawn(c)) /\ ~(\E q \in Runs : TrainerEnds(q))
    <3>1. UNCHANGED trainer
      BY <2>1, <2>4 DEF TrainNext, Advance, AdvanceReads, AdvanceLooks, Rearm, AdvanceAdopts,
         AdvanceDrops, AdvanceDropsId, AdvanceRearms, AdvanceRewrites, AdvanceRenews,
         AdvanceRemembers, AdvanceCompensates, AdvanceClears, HandBack, AdvanceReleases,
         AdvanceForgetsPid, AdvanceReturnsLease, AdvanceForgetsToken, AdvanceRests,
         AdvancePrepares, AdvanceLaunches, AdvanceSettles, AdvanceForgetsLaunch, Launches,
         TakeLock, Check, CheckAdopts, Prepare, Acquire, Store, Register, RaiseFlag, Publish,
         Identify, FailLaunch, DirectLaunch, DirectRefused, StopLooks, StopRequest, StopAdopts,
         StopEmpties, StopClears, Enqueue, Dequeue, OthersTake, OthersRelease, LeaseLapses,
         Crash, aside, stopAside
    <3> QED BY <3>1, <1>4
  <2> QED BY <2>2, <2>3, <2>4
<1>5. crashes' = 0 => crashes = 0
  BY <1>0, <1>2
<1> QED BY <1>3, <1>4, <1>5 DEF Undisturbed, ByQueue

(* Behind a crash every trainer that was spawned still lives.              *)
LEMMA CrashedKeepsTrainers ==
  ASSUME Typed, Undisturbed, crashes > 0, NEW r \in Runs, trainer[r] # "none"
  PROVE  trainer[r] = "alive"
BY DEF Undisturbed, Typed, WorldTyped

LEMMA KeptOfAdvance ==
  ASSUME Typed, QueueInv, Undisturbed, Kept, Advance
  PROVE  Kept'
<1>0. /\ crashes \in Nat /\ trainer \in [Runs -> {"none", "alive", "ended"}]
      /\ call \in [Callers -> CallType] /\ Callers = {"queue", "direct"}
      /\ {pid, adv.pid, adv.run, launch.run, call["queue"].run} \subseteq Runs \cup {NoRun}
      /\ NoRun \notin Runs
  BY TrainAssumption, AtHand DEF Typed, WorldTyped, ThreadsTyped, Callers, RunOrNone, Runs, NoRun
<1>00. adv.pc # "launch" => call["queue"].pc = "idle"
  BY DEF QueueInv
<1> USE DEF Kept, Covered, PidsInv, CallInv, DeadInv, Emptyhanded, NoneLives, Spawned
<1>1. CASE AdvanceReads
  BY <1>1, <1>0, <1>00, AdvEffects DEF AdvanceReads, aside, rows, bounds
<1>2. CASE AdvanceLooks
  <2>0. UNCHANGED <<flag, pid, trainer, call, crashes>> /\ adv.pc = "look" /\ adv'.pid = adv.pid
    BY <1>2, AdvEffects DEF AdvanceLooks, aside, bounds
  <2>1. crashes > 0 => \A r \in Runs : trainer[r] # "none" => trainer[r] = "alive"
    BY CrashedKeepsTrainers
  <2>2. CASE ~Owned(adv.pid)
    <3>1. adv'.pc = "dead" /\ UNCHANGED launch
      BY <1>2, <2>2, AdvEffects DEF AdvanceLooks
    <3>2. ASSUME NEW r \in Runs, trainer[r] = "alive" PROVE FALSE
      <4>1. /\ launch.run = r
            /\ \/ launch.phase = "spawning"
               \/ launch.phase = "running" /\ pid \in {NoRun, r}
        BY <3>2
      <4>2. adv.pid \in {NoRun, pid, r}
        BY <4>1, <3>2, <2>0, <2>1, <1>0
      <4> QED BY <4>1, <4>2, <3>2, <2>2, <1>0 DEF Owned, Lives
    <3> QED BY <3>1, <3>2, <2>0, <1>0, <1>00
  <2>3. CASE Owned(adv.pid) /\ ~Adopting
    <3>1. adv'.pc = "drop" /\ UNCHANGED launch
      BY <1>2, <2>3, AdvEffects DEF AdvanceLooks, AdoptLaunch
    <3> QED BY <3>1, <2>0, <1>0, <1>00
  <2>4. CASE Owned(adv.pid) /\ Adopting
    <3>1. /\ adv'.pc = "adopt" /\ adv'.run = launch.run
          /\ launch.phase = "spawning" /\ launch.run \in Runs /\ trainer[launch.run] = "alive"
      BY <1>2, <2>4, AdvEffects, <1>0 DEF Owned, Adopting, Lives, Found
    <3>2. launch'.phase = "running" /\ launch'.run = launch.run
      BY <1>2, <2>4 DEF AdvanceLooks, AdoptLaunch, Typed, RowsTyped, LaunchType
    <3>3. crashes > 0
      BY <3>1, <2>0, <1>00
    <3>4. pid \in {NoRun, launch.run}
      BY <3>1, <3>3, <2>1, <1>0
    <3> QED BY <3>1, <3>2, <3>3, <3>4, <2>0, <1>0, <1>00
  <2> QED BY <2>2, <2>3, <2>4
<1>3. CASE AdvanceAdopts
  <2>1. /\ UNCHANGED <<flag, launch, trainer, call, crashes>> /\ adv.pc = "adopt" /\ pid' = adv.run
        /\ adv'.pc = "drop" /\ adv'.pid = adv.pid
    BY <1>3, AdvEffects DEF AdvanceAdopts, aside, bounds
  <2>2. crashes > 0 /\ adv.run \in Runs /\ trainer[adv.run] = "alive"
    BY <2>1, CrashedKeepsTrainers
  <2> QED BY <2>1, <2>2, <1>0, <1>00
<1>4. CASE AdvanceDrops
  BY <1>4, <1>0, <1>00, AdvEffects DEF AdvanceDrops, aside, rows, bounds
<1>5. CASE AdvanceDropsId
  BY <1>5, <1>0, <1>00, AdvEffects DEF AdvanceDropsId, aside, rows, bounds
<1>6. CASE AdvanceRearms
  BY <1>6, <1>0, <1>00, AdvEffects DEF AdvanceRearms, aside, rows, bounds
<1>7. CASE AdvanceRewrites
  <2>1. /\ UNCHANGED <<flag, launch, trainer, call, crashes>> /\ adv.pc = "rewrite" /\ pid' = adv.pid
        /\ adv'.pc = "renew" /\ adv'.pid = adv.pid
    BY <1>7, AdvEffects DEF AdvanceRewrites, aside, bounds
  <2>2. crashes > 0 => \A r \in Runs : trainer[r] # "none" => trainer[r] = "alive"
    BY CrashedKeepsTrainers
  <2>3. \A r \in Runs : trainer[r] = "alive" => adv.pid \in {NoRun, pid, r}
    BY <2>1, <2>2, <1>0
  <2> QED BY <2>1, <2>3, <1>0, <1>00
<1>8. CASE AdvanceRenews
  BY <1>8, <1>0, <1>00, AdvEffects DEF AdvanceRenews, aside, rows, bounds
<1>9. CASE AdvanceRemembers
  BY <1>9, <1>0, <1>00, AdvEffects DEF AdvanceRemembers, aside, rows, bounds
<1>10. CASE AdvanceCompensates
  BY <1>10, <1>0, <1>00, AdvEffects DEF AdvanceCompensates, aside, rows, bounds
<1>11. CASE AdvanceClears
  <2>1. /\ UNCHANGED <<trainer, call, crashes>> /\ adv.pc = "clear" /\ pid' \in {NoRun, pid}
        /\ adv'.pc \in {"clear", "finished"} /\ adv'.pid = adv.pid
    BY <1>11, AdvEffects DEF AdvanceClears, aside, bounds, Clear
  <2> QED BY <2>1, <1>0, <1>00
<1>12. CASE AdvanceReleases
  BY <1>12, <1>0, <1>00, AdvEffects DEF AdvanceReleases, aside, rows, bounds
<1>13. CASE AdvanceForgetsPid
  BY <1>13, <1>0, <1>00, AdvEffects DEF AdvanceForgetsPid, aside, rows, bounds
<1>14. CASE AdvanceReturnsLease
  BY <1>14, <1>0, <1>00, AdvEffects DEF AdvanceReturnsLease, aside, rows, bounds
<1>15. CASE AdvanceForgetsToken
  BY <1>15, <1>0, <1>00, AdvEffects DEF AdvanceForgetsToken, aside, rows, bounds
<1>16. CASE AdvanceRests
  BY <1>16, <1>0, <1>00, AdvEffects DEF AdvanceRests, aside, rows, bounds
<1>17. ASSUME NEW i \in Items, AdvancePrepares(i) PROVE Kept'
  BY <1>17, <1>0, <1>00, AdvEffects DEF AdvancePrepares, aside, rows, bounds
<1>18. CASE AdvanceLaunches
  <2>1. /\ UNCHANGED <<flag, launch, pid, trainer, crashes>> /\ adv.pc = "prepared"
        /\ adv'.pc = "launch" /\ adv'.pid = adv.pid
    BY <1>18, AdvEffects DEF AdvanceLaunches, bounds
  <2>2. call'["queue"].pc = "lock"
    BY <1>18, <1>0 DEF AdvanceLaunches, Waiting
  <2> QED BY <2>1, <2>2, <1>0
<1>19. CASE AdvanceSettles
  <2>1. /\ UNCHANGED <<flag, launch, pid, trainer, crashes>> /\ adv.pc = "launch"
        /\ adv'.pc = "settled" /\ adv'.pid = adv.pid /\ call["queue"].pc \in {"ok", "refused"}
    BY <1>19, AdvEffects DEF AdvanceSettles, bounds
  <2>2. call'["queue"].pc = "idle"
    BY <1>19, <1>0 DEF AdvanceSettles, IdleCall, Waiting
  <2> QED BY <2>1, <2>2, <1>0
<1>20. CASE AdvanceForgetsLaunch
  BY <1>20, <1>0, <1>00, AdvEffects DEF AdvanceForgetsLaunch, aside, rows, bounds
<1> QED
  BY <1>1, <1>2, <1>3, <1>4, <1>5, <1>6, <1>7, <1>8, <1>9, <1>10, <1>11, <1>12,
     <1>13, <1>14, <1>15, <1>16, <1>17, <1>18, <1>19, <1>20
     DEF Advance, Rearm, HandBack

LEMMA KeptOfLaunch ==
  ASSUME Typed, QueueInv, FreshInv, Undisturbed, Kept, NEW c \in Callers, Launches(c)
  PROVE  Kept'
<1>0. /\ crashes \in Nat /\ trainer \in [Runs -> {"none", "alive", "ended"}]
      /\ call \in [Callers -> CallType] /\ Callers = {"queue", "direct"}
      /\ {pid, adv.pid, adv.run, launch.run, call["queue"].run} \subseteq Runs \cup {NoRun}
      /\ NoRun \notin Runs
  BY TrainAssumption, AtHand DEF Typed, WorldTyped, ThreadsTyped, Callers, RunOrNone, Runs, NoRun
<1>00. adv.pc # "launch" => call["queue"].pc = "idle"
  BY DEF QueueInv
<1> USE DEF Kept, Covered, PidsInv, CallInv, DeadInv, Emptyhanded, NoneLives, Spawned
<1>q. c = "queue"
  BY DEF Undisturbed, FreshInv, ByQueue, Launches, TakeLock, Check, CheckAdopts, Prepare, Acquire,
     Store, Register, RaiseFlag, Spawn, Publish, Identify, FailLaunch, CallAt, Callers
<1>w. call["queue"].pc # "idle" /\ adv.pc = "launch" /\ UNCHANGED adv
  BY <1>q DEF QueueInv, Launches, TakeLock, Check, CheckAdopts, Prepare, Acquire,
     Store, Register, RaiseFlag, Spawn, Publish, Identify, FailLaunch, CallAt
<1>1. CASE TakeLock(c)
  <2>1. UNCHANGED <<flag, launch, pid, trainer, crashes>>
    BY <1>1 DEF TakeLock, rows, bounds
  <2>2. call["queue"].pc = "lock" /\ call'["queue"].pc = "check"
    BY <1>1, <1>q, <1>0, CallEffects DEF TakeLock, CallAt, RunOf
  <2> QED BY <2>1, <2>2, <1>0, <1>w
<1>2. CASE Check(c)
  <2>1. UNCHANGED <<flag, pid, trainer, crashes>> /\ call["queue"].pc = "check"
    BY <1>2, <1>q DEF Check, CallAt, bounds
  <2>2. ~Owned(pid)
    BY <2>1, <1>0, <1>w DEF Owned, Lives
  <2>3. call'["queue"].pc \in {"refused", "prepare"} /\ UNCHANGED launch
    BY <1>2, <2>2, <1>q, CallEffects
  <2> QED BY <2>1, <2>3, <1>0, <1>w
<1>3. CASE CheckAdopts(c)
  BY <1>3, <1>q DEF CheckAdopts, CallAt
<1>4. CASE Prepare(c)
  <2>1. UNCHANGED <<flag, pid, trainer, crashes>>
    BY <1>4 DEF Prepare, rows, bounds
  <2>2. /\ call["queue"].pc = "prepare" /\ call'["queue"].pc = "acquire"
    BY <1>4, <1>q, <1>0, CallEffects DEF Prepare, CallAt, RunOf
  <2> QED BY <2>1, <2>2, <1>0, <1>w
<1>5. CASE Acquire(c)
  <2>1. UNCHANGED <<flag, launch, pid, trainer, crashes>>
    BY <1>5 DEF Acquire, rows, bounds
  <2>2. call["queue"].pc = "acquire" /\ call'["queue"].pc \in {"store", "failed"}
    BY <1>5, <1>q, <1>0, CallEffects DEF Acquire, CallAt, RunOf
  <2> QED BY <2>1, <2>2, <1>0, <1>w
<1>6. CASE Store(c)
  <2>1. UNCHANGED <<flag, launch, pid, trainer, crashes>>
    BY <1>6 DEF Store, rows, bounds
  <2>2. call["queue"].pc = "store" /\ call'["queue"].pc \in {"register"}
    BY <1>6, <1>q, <1>0, CallEffects DEF Store, CallAt, RunOf
  <2> QED BY <2>1, <2>2, <1>0, <1>w
<1>7. CASE Register(c)
  <2>1. UNCHANGED <<flag, pid, trainer, crashes>>
    BY <1>7 DEF Register, rows, bounds
  <2>2. /\ call["queue"].pc = "register" /\ call'["queue"].run = call["queue"].run
        /\ \/ /\ call'["queue"].pc = "raise"
              /\ launch'.phase = "spawning" /\ launch'.run = call["queue"].run
           \/ call'["queue"].pc = "failed" /\ UNCHANGED launch
    BY <1>7, <1>q, <1>0, CallEffects DEF Register, CallAt, RunOf, LaunchState
  <2> QED BY <2>1, <2>2, <1>0, <1>w
<1>8. CASE RaiseFlag(c)
  <2>1. UNCHANGED <<launch, pid, trainer, crashes>>
    BY <1>8 DEF RaiseFlag, rows, bounds
  <2>2. /\ call["queue"].pc = "raise" /\ call'["queue"].pc = "spawn" /\ flag'
        /\ call'["queue"].run = call["queue"].run
    BY <1>8, <1>q, <1>0, CallEffects DEF RaiseFlag, CallAt, RunOf
  <2> QED BY <2>1, <2>2, <1>0, <1>w
<1>9. CASE Spawn(c)
  <2>1. UNCHANGED <<flag, launch, pid, crashes>>
    BY <1>9 DEF Spawn, rows, bounds
  <2>2. /\ call["queue"].pc = "spawn" /\ call'["queue"].run = call["queue"].run
        /\ \/ /\ call'["queue"].pc = "publish"
              /\ trainer' = [trainer EXCEPT ![call["queue"].run] = "alive"]
           \/ call'["queue"].pc = "failed" /\ UNCHANGED trainer
    BY <1>9, <1>q, <1>0, CallEffects DEF Spawn, CallAt, RunOf
  <2>3. call["queue"].run \in Runs
    BY <2>2 DEF FreshInv, Undisturbed, ByQueue, Unspent
  <2>4. CASE UNCHANGED trainer /\ call'["queue"].pc = "failed"
    BY <2>1, <2>2, <2>4, <1>0, <1>w
  <2>5. CASE trainer' = [trainer EXCEPT ![call["queue"].run] = "alive"] /\ call'["queue"].pc = "publish"
    <3>1. /\ trainer'[call["queue"].run] = "alive"
          /\ \A r \in Runs : r # call["queue"].run => trainer'[r] = trainer[r] /\ trainer[r] # "alive"
      BY <2>2, <2>3, <2>5, <1>0, <1>w
    <3>2. flag /\ launch.phase = "spawning" /\ launch.run = call["queue"].run
      BY <2>2
    <3> QED BY <2>1, <2>2, <2>3, <2>5, <3>1, <3>2, <1>0, <1>w
  <2> QED BY <2>2, <2>4, <2>5
<1>10. CASE Publish(c)
  <2>1. UNCHANGED <<flag, launch, trainer, crashes>>
    BY <1>10 DEF Publish, rows, bounds
  <2>2. /\ call["queue"].pc = "publish" /\ call'["queue"].pc = "identify"
        /\ call'["queue"].run = call["queue"].run /\ pid' = call["queue"].run
    BY <1>10, <1>q, <1>0, CallEffects DEF Publish, CallAt, RunOf
  <2> QED BY <2>1, <2>2, <1>0, <1>w
<1>11. CASE Identify(c)
  <2>1. UNCHANGED <<flag, pid, trainer, crashes>>
    BY <1>11 DEF Identify, rows, bounds
  <2>2. /\ call["queue"].pc = "identify" /\ call'["queue"].pc = "ok"
        /\ launch'.phase = "running" /\ launch'.run = call["queue"].run
    BY <1>11, <1>q, <1>0, CallEffects DEF Identify, CallAt, RunOf, LaunchState
  <2> QED BY <2>1, <2>2, <1>0, <1>w
<1>12. CASE FailLaunch(c)
  <2>1. UNCHANGED <<trainer, crashes>> /\ pid' \in {NoRun, pid}
    BY <1>12 DEF FailLaunch, bounds, Clear
  <2>2. call["queue"].pc = "failed" /\ call'["queue"].pc \in {"failed", "refused"}
    BY <1>12, <1>q, CallEffects DEF FailLaunch, CallAt
  <2> QED BY <2>1, <2>2, <1>0, <1>w
<1> QED
  BY <1>1, <1>2, <1>3, <1>4, <1>5, <1>6, <1>7, <1>8, <1>9, <1>10, <1>11, <1>12
     DEF Launches

LEMMA KeptOfOthers ==
  ASSUME Typed, QueueInv, FreshInv, Undisturbed, Undisturbed', Kept, Others
  PROVE  Kept'
<1>0. /\ crashes \in Nat /\ trainer \in [Runs -> {"none", "alive", "ended"}]
      /\ call \in [Callers -> CallType] /\ Callers = {"queue", "direct"}
      /\ {pid, adv.pid, adv.run, launch.run, call["queue"].run} \subseteq Runs \cup {NoRun}
      /\ NoRun \notin Runs
  BY TrainAssumption, AtHand DEF Typed, WorldTyped, ThreadsTyped, Callers, RunOrNone, Runs, NoRun
<1>00. adv.pc # "launch" => call["queue"].pc = "idle"
  BY DEF QueueInv
<1> USE DEF Kept, Covered, PidsInv, CallInv, DeadInv, Emptyhanded, NoneLives, Spawned
<1>1. CASE DirectLaunch
  BY <1>1 DEF DirectLaunch, Undisturbed
<1>2. CASE DirectRefused
  BY <1>2 DEF DirectRefused, FreshInv, Undisturbed, ByQueue, CallAt
<1>3. CASE StopLooks
  BY <1>3 DEF StopLooks, Undisturbed
<1>4. CASE StopRequest
  BY <1>4 DEF StopRequest, StopAdopts, StopKills, StopEmpties, StopClears, FreshInv, Undisturbed, ByQueue
<1>5. ASSUME NEW i \in Items, Enqueue(i) PROVE Kept'
  BY <1>5, <1>0, <1>00 DEF Enqueue, threads, rows, bounds, Undisturbed
<1>6. ASSUME NEW i \in Items, Dequeue(i) PROVE Kept'
  BY <1>6, <1>0, <1>00 DEF Dequeue, threads, rows, bounds, Undisturbed
<1>7. ASSUME NEW r \in Runs, TrainerEnds(r) PROVE Kept'
  BY <1>7, <1>0, <1>00 DEF TrainerEnds, threads, rows, bounds, Undisturbed
<1>8. CASE OthersTake
  BY <1>8, <1>0, <1>00 DEF OthersTake, threads, rows, bounds, Undisturbed
<1>9. CASE OthersRelease
  BY <1>9, <1>0, <1>00 DEF OthersRelease, threads, rows, bounds, Undisturbed
<1>10. CASE LeaseLapses
  BY <1>10, <1>0, <1>00 DEF LeaseLapses, threads, rows, bounds, Undisturbed
<1>11. CASE Crash
  <2>1. UNCHANGED <<flag, launch, pid, trainer>> /\ crashes' > 0 /\ adv' = IdleAdv
    BY <1>11, <1>0 DEF Crash
  <2>2. call'["queue"].pc = "idle"
    BY <1>11, <1>0 DEF Crash, IdleCall, Waiting
  <2>3. adv'.pc = "idle" /\ adv'.pid = NoRun
    BY <2>1, AdvEffects
  <2> QED BY <2>1, <2>2, <2>3, <1>0
<1> QED
  BY <1>1, <1>2, <1>3, <1>4, <1>5, <1>6, <1>7, <1>8, <1>9, <1>10, <1>11
     DEF Others

LEMMA TrainerIsKept == TrainSpec => []KeepInv
<1> DEFINE LifeInv == Typed /\ CountInv /\ QueueInv /\ TimesInv
<1>1. TrainInit => KeepInv
  <2> SUFFICES ASSUME TrainInit PROVE KeepInv
    OBVIOUS
  <2>1. /\ pid = NoRun /\ adv.pc = "idle" /\ adv.pid = NoRun /\ stopping.pc = "idle"
        /\ \A c \in Callers : call[c].pc = "idle"
        /\ \A r \in Runs : trainer[r] = "none"
    BY DEF TrainInit, IdleAdv, IdleStop, IdleCall, Waiting
  <2>2. FreshInv
    BY <2>1 DEF FreshInv, Callers, Unspent
  <2>3. Covered /\ NoneLives
    BY <2>1 DEF Covered, NoneLives
  <2>4. PidsInv /\ CallInv
    BY <2>1 DEF PidsInv, CallInv, Callers
  <2> QED BY <2>2, <2>3, <2>4 DEF KeepInv, Kept, DeadInv
<1>2. LifeInv /\ KeepInv /\ [TrainNext]_vars => KeepInv'
  <2> SUFFICES ASSUME LifeInv, KeepInv, [TrainNext]_vars PROVE KeepInv'
    OBVIOUS
  <2>1. CASE UNCHANGED vars
    <3>1. UNCHANGED <<launch, flag, pid, trainer, adv, call, stopping, nextRun, directs, stops, crashes>>
      BY <2>1 DEF vars, rows, threads, bounds
    <3> QED BY <3>1 DEF KeepInv, FreshInv, ByQueue, Undisturbed, Kept, Covered, PidsInv, CallInv,
                        DeadInv, NoneLives
  <2>2. CASE TrainNext
    <3>1. FreshInv'
      <4>1. ASSUME NEW c \in Callers, Launches(c) PROVE FreshInv'
        BY <4>1, FreshInvOfLaunch DEF KeepInv
      <4> QED BY <2>2, <4>1, FreshInvOfAdvance, FreshInvOfOthers DEF KeepInv, TrainNext, Others
    <3>2. ASSUME Undisturbed' PROVE Kept'
      <4>1. Undisturbed /\ Kept
        BY <2>2, <3>2, UndisturbedBefore DEF KeepInv
      <4>2. ASSUME NEW c \in Callers, Launches(c) PROVE Kept'
        BY <4>1, <4>2, KeptOfLaunch DEF KeepInv
      <4> QED BY <2>2, <3>2, <4>1, <4>2, KeptOfAdvance, KeptOfOthers DEF KeepInv, TrainNext, Others
    <3> QED BY <3>1, <3>2 DEF KeepInv
  <2> QED BY <2>1, <2>2
<1> QED BY <1>1, <1>2, LifeIsKept, PTL DEF TrainSpec

(* Undisturbed by requests over the web, the queue has one trainer at most *)
(* and never leaves it without the flag, also when the server dies at any  *)
(* commit of a launch.                                                     *)
THEOREM QueueKeepsTrainer == TrainSpec => []QueueKeepsItsTrainer
<1>1. Typed /\ KeepInv => QueueKeepsItsTrainer
  <2> SUFFICES ASSUME Typed, Covered PROVE OneTrainer /\ TrainerIsFlagged
    BY DEF QueueKeepsItsTrainer, KeepInv, Kept
  <2>1. {r \in Runs : Lives(r)} \subseteq {launch.run}
    BY DEF Covered, Lives
  <2>2. IsFiniteSet({launch.run}) /\ Cardinality({launch.run}) = 1
    BY FS_Singleton
  <2>3. Cardinality({r \in Runs : Lives(r)}) <= 1
    BY <2>1, <2>2, FS_Subset
  <2>4. TrainerIsFlagged
    BY DEF TrainerIsFlagged, Covered, Lives
  <2> QED BY <2>3, <2>4 DEF OneTrainer
<1> QED BY <1>1, LifeIsKept, TrainerIsKept, PTL
=============================================================================
