---------------------------- MODULE MCSessionRuns ----------------------------
(* SessionRuns for TLC: which session each run belongs to.                 *)
EXTENDS SessionRuns, TLC

CONSTANTS s1, r1, r2

OneSession == r1 :> s1 @@ r2 :> s1
=============================================================================
