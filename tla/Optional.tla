------------------------------ MODULE Optional ------------------------------
(***************************************************************************)
(* The value of what has none, one for all that the analysis knows.        *)
(***************************************************************************)
CONSTANT None  \* no value (Python's None)
=============================================================================
