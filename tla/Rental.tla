------------------------------- MODULE Rental -------------------------------
(***************************************************************************)
(* What cloud training promises about rented machines: a run rents at most *)
(* one, the cost meter of a registered machine runs until the machine is   *)
(* gone, and every machine is given back.                                  *)
(***************************************************************************)
CONSTANT Runs

VARIABLES machine,  \* machine[r] \in {"none", "up", "gone"}
          meter     \* meter[r] \in {"none", "open", "closed"}

rentalVars == <<machine, meter>>

Init == machine = [r \in Runs |-> "none"] /\ meter = [r \in Runs |-> "none"]

Rent(r) ==
  /\ machine[r] = "none"
  /\ machine' = [machine EXCEPT ![r] = "up"]
  /\ UNCHANGED meter

\* Registration, and a clean-up that could not be confirmed.
Open(r) ==
  /\ machine[r] # "none"
  /\ meter' = [meter EXCEPT ![r] = "open"]
  /\ UNCHANGED machine

GiveBack(r) ==
  /\ machine[r] = "up"
  /\ machine' = [machine EXCEPT ![r] = "gone"]
  /\ UNCHANGED meter

Close(r) ==
  /\ machine[r] = "gone"
  /\ meter[r] = "open"
  /\ meter' = [meter EXCEPT ![r] = "closed"]
  /\ UNCHANGED machine

Next == \E r \in Runs : Rent(r) \/ Open(r) \/ GiveBack(r) \/ Close(r)

Returned == \A r \in Runs : machine[r] = "up" ~> machine[r] = "gone"
Settled == \A r \in Runs : meter[r] = "open" ~> meter[r] = "closed"

RentalSpec == Init /\ [][Next]_rentalVars /\ Returned /\ Settled
=============================================================================
