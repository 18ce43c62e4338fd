------------------------------ MODULE Machine -------------------------------
(***************************************************************************)
(* What the groups of components share: `machine` says which component a   *)
(* behaviour is about.  The components meet only through calls that        *)
(* return, so one of them moves and the variables of the others stay 0.    *)
(***************************************************************************)

CONSTANT None

VARIABLE machine
=============================================================================
