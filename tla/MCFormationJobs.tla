-------------------------- MODULE MCFormationJobs --------------------------
(***************************************************************************)
(* An instance of FormationJobs for TLC.                                   *)
(***************************************************************************)
EXTENDS FormationJobs, TLC

CONSTANTS c1, c2, z1, j1, j2, p1, w1, w2

(* Two Turns of one session, captured in either order.                     *)
PairSessionOf == c1 :> z1 @@ c2 :> z1
PairOrder == c1 :> 1 @@ c2 :> 2
=============================================================================
