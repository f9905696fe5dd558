------------------------------ MODULE MCJobQueue ------------------------------
(* Model values of JobQueue for TLC.                                        *)
EXTENDS JobQueue
CONSTANTS r1
MCRequests == {r1}
AllFaults == {"claim", "publish", "republish", "settle", "ack", "link"}
=============================================================================
