-------------------------------- MODULE Null --------------------------------
(***************************************************************************)
(* The value of what is not there: a missing row, a NULL column, a token   *)
(* nobody holds.  Components that a run explores together share it.        *)
(***************************************************************************)
CONSTANT None
=============================================================================
