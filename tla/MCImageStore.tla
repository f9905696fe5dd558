---------------------------- MODULE MCImageStore ----------------------------
(***************************************************************************)
(* Instances of ImageStore for TLC.                                        *)
(***************************************************************************)
EXTENDS ImageStore
=============================================================================
