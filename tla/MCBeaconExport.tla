--------------------------- MODULE MCBeaconExport ---------------------------
(***************************************************************************)
(* Instances of BeaconExport for TLC.                                      *)
(***************************************************************************)
EXTENDS BeaconExport
=============================================================================
