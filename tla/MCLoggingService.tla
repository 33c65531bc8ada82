-------------------------- MODULE MCLoggingService --------------------------
(***************************************************************************)
(* An instance of LoggingService for TLC.                                  *)
(***************************************************************************)
EXTENDS LoggingService
=============================================================================
