----------------------------- MODULE CloudLaunch -----------------------------
(***************************************************************************)
(* The launch of a cloud run over the copy of its dataset: _launch_cloud_  *)
(* run captures the snapshot between the admission of the run and the      *)
(* start of its monitor, while the dataset is edited, and the server may   *)
(* die.                                                                    *)
(*                                                                         *)
(* The steps of the copy share nothing with those of sweeps, recovery and  *)
(* stop requests: whatever their order, the outcome is that of a copy that *)
(* runs first, and of the others between its return and the start of the   *)
(* monitor.  So the model orders them.  What happens to the dataset        *)
(* outside of a copy is not seen by a run: the model follows it from the   *)
(* admission to the return of the copy (Leave).                            *)
(***************************************************************************)
EXTENDS CloudRun, Snapshot

launchVars == <<cloudVars, snapshotVars>>

LaunchInit == CloudInit /\ SnapshotInit

Launching == \E r \in Runs : launch[r] = "copy"
InCopy == Launching /\ capture.at \notin {"returned", "refused"}

Leave(outcome) ==
  /\ photo' = [i \in Images |-> [status |-> "keep", caption |-> "short", scaled |-> FALSE]]
  /\ settings' = 0 /\ revision' = 0
  /\ disk' = [i \in Images |-> [there |-> TRUE, picture |-> Uploaded, stamp |-> 0]]
  /\ orig' = [i \in Images |-> None]
  /\ redraw' = [i \in Images |-> Idle] /\ moving' = {}
  /\ capture' = outcome /\ moments' = {} /\ edits' = 0

CopyReturns ==
  /\ CaptureOver
  /\ Leave([at |-> IF capture.at = "published" THEN "returned" ELSE "refused"])

\* The monitor is started with a published snapshot.
SnapshotStarts(r) == capture.at = "returned" /\ LaunchStarts(r) /\ Leave(NoCopy)

\* The copy failed, or anything else between admission and monitor.
SnapshotFails(r) == LaunchFails(r) /\ Leave(NoCopy)

LaunchNext ==
  \/ ~InCopy /\ CloudWorks /\ UNCHANGED snapshotVars
  \/ InCopy /\ (SnapshotNext \/ CopyReturns) /\ UNCHANGED cloudVars
  \/ \E r \in Runs : SnapshotStarts(r) \/ SnapshotFails(r)
  \/ Crash /\ Leave(NoCopy)

LaunchSpec == LaunchInit /\ [][LaunchNext]_launchVars

\* A launch goes on to its end (LaunchEnds), and with it the loop of its copy.
FairLaunchSpec == LaunchSpec /\ CloudFairness
=============================================================================
