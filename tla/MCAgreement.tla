---------------------------- MODULE MCAgreement ----------------------------
(***************************************************************************)
(* Several writers, one outcome, for TLC: invocations and repairs that     *)
(* answer one Turn, workers and requests that decide about one memory,     *)
(* hosts and administrators that edit one agent.  The models share no      *)
(* state, so a behaviour is about one of them (focus), the others staying  *)
(* as they begin.                                                          *)
(***************************************************************************)
EXTENDS MemoryDecisions, Invocations, AgentRegistry

VARIABLE focus

(* The policy with every candidate, alone; two workers with a verifier;    *)
(* one open decision and two requests; a decision, a worker and a deletion.*)
MCDecisionCasts ==
    {{"w1", "every", "known"}, {"w1", "every", "verifier"}, {"w1", "every", "known", "verifier"},
     {"w1", "w2", "known", "verifier"}, {"w1", "w2", "verifier"},
     {"w1", "r1", "r2", "known", "crash", "delete"}, {"w1", "r1", "r2", "crash", "delete"},
     {"w1", "w2", "r1", "known", "crash", "delete"}, {"w1", "w2", "r1", "crash"}}

(* Registry: hosts that race without deletions and with them, the admin    *)
(* API beside them, requests one by one with each way to load.             *)

MCSetup(ops, serial, repo, backend, fallback, file, outages) ==
    [ops |-> ops, serial |-> serial, repo |-> repo, backend |-> backend, fallback |-> fallback,
     file |-> file, outages |-> outages, at |-> [h \in Asker |-> CHOOSE p \in Process : TRUE]]

MCRegistryCasts ==
    {MCSetup({"create", "update", "enable", "disable"}, FALSE, "database", "database", FALSE, TRUE, FALSE),
     MCSetup(HostOps, FALSE, "database", "database", TRUE, TRUE, FALSE),
     MCSetup({"update", "upsert", "set_enabled", "remove"}, FALSE, "database", "database", FALSE, TRUE, FALSE),
     MCSetup({"create", "delete", "upsert", "set_enabled", "list"}, TRUE, "memory", "hybrid", TRUE, FALSE, FALSE)}
    \cup {MCSetup({"create", "upsert", "remove", "list", "reload"}, TRUE, "database", b, f, file, TRUE) :
             b \in {"file", "database", "hybrid"}, f \in BOOLEAN, file \in BOOLEAN}
MCAgainCasts == {MCSetup({"create", "update", "delete"}, FALSE, "database", "database", FALSE, TRUE, FALSE)}

-----------------------------------------------------------------------------

MCInit ==
    /\ focus \in {"invocations", "decisions", "registry"}
    /\ InvInit /\ DecisionsInit /\ RegInit
    /\ focus # "decisions" => cast = {"w1", "w2", "verifier"}
    /\ focus # "registry" => setup = CHOOSE c \in RegistryCasts : TRUE

MCNext ==
    /\ focus' = focus
    /\ \/ focus = "invocations" /\ InvNext /\ UNCHANGED <<decisionVars, regVars>>
       \/ focus = "decisions" /\ DecisionsNext /\ UNCHANGED <<invVars, regVars>>
       \/ focus = "registry" /\ RegNext /\ UNCHANGED <<invVars, decisionVars>>

MCSpec == MCInit /\ [][MCNext]_<<invVars, decisionVars, regVars, focus>>
=============================================================================
