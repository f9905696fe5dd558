----------------------------- MODULE MCStudioRuns -----------------------------
(* Model values of StudioRuns for TLC.                                      *)
EXTENDS StudioRuns
CONSTANTS r1, c1
MCRequests == {r1}
OneCell == {c1}
StudioFaults == {"claim", "publish", "settle", "ack", "link"}
=============================================================================
