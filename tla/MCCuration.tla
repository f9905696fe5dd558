----------------------------- MODULE MCCuration -----------------------------
(***************************************************************************)
(* Instances of Curation for TLC.                                          *)
(***************************************************************************)
EXTENDS Curation
CONSTANTS image, imported, written
MCRow == {image}
MCRows == {image, imported}
MCTexts == {written}
=============================================================================
