------------------------------- MODULE MCFpms -------------------------------
(***************************************************************************)
(* Instances of Fpms for TLC.                                              *)
(***************************************************************************)
EXTENDS Fpms
=============================================================================
