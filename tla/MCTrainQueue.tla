----------------------------- MODULE MCTrainQueue -----------------------------
(* Model values of TrainQueue for TLC; the bounds differ per run.           *)
EXTENDS TrainQueue
CONSTANTS i1, i2
OneItem == {i1}
TwoItems == {i1, i2}
=============================================================================
