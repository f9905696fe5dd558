---------------------------- MODULE MCCloudLaunch ----------------------------
(* One cloud run for TLC, over a dataset of an import and a generated image;  *)
(* two runs for WithinLimit.                                                  *)
EXTENDS CloudLaunch

CONSTANTS r1, r2

OneRun == {r1}
TwoRuns == {r1, r2}
Both == {"tick", "boot"}
Tick == {"tick"}
TwoImages == {1, 2}
Upload == {1}
=============================================================================
