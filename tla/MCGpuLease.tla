------------------------------ MODULE MCGpuLease ------------------------------
(* Model values of GpuLease for TLC: two windows whose ends can overlap,    *)
(* one claim of the image worker, one training.                             *)
EXTENDS GpuLease, TLC
CONSTANTS g1, v1, v2, t1, c1
MCGenerations == {g1}
MCVisions == {v1, v2}
MCTrainings == {t1}
MCClearers == {c1}
Alike == Permutations(MCVisions)
=============================================================================
