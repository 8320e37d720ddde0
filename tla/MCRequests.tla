---------------------------- MODULE MCRequests ----------------------------
(***************************************************************************)
(* What a user's request meets, for TLC: the router and the claims of a    *)
(* Plan's Steps.  The two share no state, so a behaviour is about one of   *)
(* them (focus), the other staying as it begins.                           *)
(***************************************************************************)
EXTENDS Routing, PlanClaims, TLC

CONSTANTS a1, a2

VARIABLE focus

-----------------------------------------------------------------------------
(* Routing: a new task that may take up an earlier Plan, a text to an      *)
(* agent that is being used, and the control of a Plan.                    *)

MCRequest(source, current, session, plan_id, continuation, ordered, missing) ==
    [source |-> source, current |-> current, session |-> session, plan |-> plan_id,
     continuation |-> continuation, ordered |-> ordered, missing |-> missing]

MCRequests ==
    {MCRequest("host_chat", NoAgent, FALSE, NoPlan, TRUE, TRUE, {}),
     MCRequest("agent_chat", a1, TRUE, NoPlan, FALSE, FALSE, {a2}),
     MCRequest("plan_control", NoAgent, FALSE, OldPlan, FALSE, FALSE, {})}
MCOldAgents == {<<a1, a2>>}
MCCandidates == {{}, {a1}, {a1, a2}}

-----------------------------------------------------------------------------
(* A Plan that lists every Step before the one it depends on, as one of a  *)
(* model may, and has the first as its current Step, as _normalize_plan    *)
(* makes it; plan_builder lists them the other way round.                  *)

MCDependsOn == [s \in 1..StepCount |-> IF s = StepCount THEN {} ELSE {s + 1}]
MCAgentOf == [s \in 1..StepCount |-> "agent"]

-----------------------------------------------------------------------------

MCInit ==
    /\ focus \in {"routing", "claims"}
    /\ RouteInit /\ ClaimsInit /\ plan.current = 1
    /\ focus # "routing" => plans[OldPlan].session
    /\ focus # "claims" => store = "database"

MCNext ==
    /\ focus' = focus
    /\ \/ focus = "routing" /\ RouteNext /\ UNCHANGED claimVars
       \/ focus = "claims" /\ ClaimsNext /\ UNCHANGED routeVars

MCSpec == MCInit /\ [][MCNext]_<<routeVars, claimVars, focus>>

\* The same names serve as attempts and executors.
MCSymmetry == Permutations(Attempt)
=============================================================================
