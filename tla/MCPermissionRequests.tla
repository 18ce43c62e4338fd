------------------------ MODULE MCPermissionRequests ------------------------
(* PermissionRequests for TLC: two calls whose resources overlap, made by  *)
(* the same run or by two.                                                 *)
EXTENDS PermissionRequests, TLC

CONSTANTS p1, p2, x, y, u1, u2

Overlapping == p1 :> {x} @@ p2 :> {x, y}
OneRun == p1 :> u1 @@ p2 :> u1
TwoRuns == p1 :> u1 @@ p2 :> u2
=============================================================================
