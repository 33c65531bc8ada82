----------------------------- MODULE MCFpmsMenu -----------------------------
(***************************************************************************)
(* Instances of FpmsMenu for TLC.                                          *)
(***************************************************************************)
EXTENDS FpmsMenu
=============================================================================
