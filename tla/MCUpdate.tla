------------------------------ MODULE MCUpdate ------------------------------
(***************************************************************************)
(* Instances of Update for TLC.                                            *)
(***************************************************************************)
EXTENDS Update
=============================================================================
