------------------------------ MODULE MCPublish ------------------------------
(* Model values of Publish for TLC.                                         *)
EXTENDS Publish
CONSTANTS k1, k2, worker, canceller, r1, r2
MCKeys == {k1, k2}
MCSessions == {worker, canceller}
TwoRepos == {r1, r2}
=============================================================================
