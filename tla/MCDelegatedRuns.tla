-------------------------- MODULE MCDelegatedRuns --------------------------
(***************************************************************************)
(* Instances of DelegatedRuns for TLC.                                     *)
(***************************************************************************)
EXTENDS DelegatedRuns, TLC

CONSTANTS t1, t2, t3, r1, r2, r3, p1, s1, s2, e1, e2, e3, x1, x2, k1, k2

(* Two Runs of ONE Turn, each on its own Step of the Turn's Plan.          *)
SharedTurnOf == r1 :> t1 @@ r2 :> t1
SharedStepOf == r1 :> s1 @@ r2 :> s2
TwoPlanOf == s1 :> p1 @@ s2 :> p1
TwoPosition == s1 :> 1 @@ s2 :> 2
TwoParallel == s1 :> {} @@ s2 :> {}

(* Three Turns of one session delegating from one Plan, Step s1 by two of  *)
(* them; s2 waits for s1.                                                  *)
SessionTurnOf == r1 :> t1 @@ r2 :> t2 @@ r3 :> t3
SessionStepOf == r1 :> s1 @@ r2 :> s2 @@ r3 :> s1
TwoInOrder == s1 :> {} @@ s2 :> {s1}

(* One Run per Turn, no Plan.                                              *)
OwnTurnOf == r1 :> t1 @@ r2 :> t2
NoStepOf == r1 :> None @@ r2 :> None
NoSteps == [s \in {} |-> None]

Deadlines == r1 :> 1 @@ r2 :> 2
ThreeDeadlines == r1 :> 1 @@ r2 :> 2 @@ r3 :> 3

Interchangeable == Permutations({e1, e2, e3}) \cup Permutations({x1, x2})
                     \cup Permutations({k1, k2})
=============================================================================
