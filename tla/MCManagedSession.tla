-------------------------- MODULE MCManagedSession --------------------------
(***************************************************************************)
(* Instances of ManagedSession for TLC.  Session IDs are interchangeable.  *)
(***************************************************************************)
EXTENDS ManagedSession, TLC

SessionSymmetry == Permutations(Sessions)
=============================================================================
