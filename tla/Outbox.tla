-------------------------------- MODULE Outbox --------------------------------
(***************************************************************************)
(* What the image queue promises of each job, with no worker, no ComfyUI   *)
(* and no crash in sight: a job lives once; it ends either with an outcome *)
(* that is owed to its owner from the same instant, or abandoned; what is  *)
(* owed is reported before it is retired, and possibly more than once.     *)
(***************************************************************************)
CONSTANT Jobs

VARIABLES
  life,    \* "new", "live" or "ended"
  owed,    \* an outcome waits for its owner
  told     \* the outcome was reported at least once

vars == <<life, owed, told>>

Init ==
  /\ life = [j \in Jobs |-> "new"]
  /\ owed = [j \in Jobs |-> FALSE]
  /\ told = [j \in Jobs |-> FALSE]

Create(j) ==
  /\ life[j] = "new"
  /\ life' = [life EXCEPT ![j] = "live"]
  /\ UNCHANGED <<owed, told>>

Finish(j) ==
  /\ life[j] = "live"
  /\ life' = [life EXCEPT ![j] = "ended"]
  /\ owed' = [owed EXCEPT ![j] = TRUE]
  /\ UNCHANGED told

Abandon(j) ==
  /\ life[j] = "live"
  /\ life' = [life EXCEPT ![j] = "ended"]
  /\ UNCHANGED <<owed, told>>

Report(j) ==
  /\ owed[j]
  /\ told' = [told EXCEPT ![j] = TRUE]
  /\ UNCHANGED <<life, owed>>

Retire(j) ==
  /\ owed[j] /\ told[j]
  /\ owed' = [owed EXCEPT ![j] = FALSE]
  /\ UNCHANGED <<life, told>>

Next ==
  \E j \in Jobs : Create(j) \/ Finish(j) \/ Abandon(j) \/ Report(j) \/ Retire(j)

Spec == Init /\ [][Next]_vars
=============================================================================
