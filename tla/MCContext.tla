----------------------------- MODULE MCContext -----------------------------
(***************************************************************************)
(* Instances of ContextAssembly and KnowledgeHandles for TLC.  The two     *)
(* share no state (an assembly only sees whether its handle was accepted), *)
(* so a behaviour is about one of them, the other staying as it begins.    *)
(***************************************************************************)
EXTENDS ContextAssembly, KnowledgeHandles

VARIABLE focus

MCFact(id, src, text, size) ==
    [id |-> id, src |-> src, text |-> text, key |-> id, ckey |-> None, val |-> 0, risk |-> FALSE,
     exp |-> Never, rel |-> 1, size |-> size, mark |-> "agent", scope |-> "preference",
     denied |-> "no"]
MCInput == MCFact(1, "current_input", 50, 3)

\* A memory that repeats the input, two that contest one fact, one that expires
\* and points to the Plan, a message known from two histories, evidence, an
\* oversized frontend context, and candidates a provider may not show.
MCFacts ==
    {MCFact(2, "current_plan", 51, 4),
     [MCFact(3, "memory", 50, 2) EXCEPT !.ckey = 1, !.val = 1],
     [MCFact(4, "memory", 52, 2) EXCEPT !.ckey = 1, !.val = 2, !.risk = TRUE],
     [MCFact(5, "memory", 53, 2) EXCEPT !.ckey = 1, !.val = 3, !.scope = "stable", !.exp = 1],
     [MCFact(6, "memory", 54, 2) EXCEPT !.exp = 2, !.scope = "task"],
     [MCFact(7, "host_history", 55, 1) EXCEPT !.mark = "user"],
     [MCFact(8, "agent_history", 55, 1) EXCEPT !.key = 7],
     MCFact(9, "knowledge", 56, 3),
     MCFact(10, "evidence", 56, 2),
     MCFact(11, "frontend_context", 57, 9),
     [MCFact(12, "plugin", 58, 1) EXCEPT !.key = 7, !.denied = "permission_denied"]}

\* Worlds about memories and their conflicts, and worlds about duplicates,
\* denials and sizes.
MCWorlds ==
    LET about(ids) == SUBSET {f \in MCFacts : f.id \in ids}
    IN  about({2, 3, 4, 5, 6, 9}) \cup about({2, 7, 8, 9, 10, 11, 12})
MCSourceBudget == [x \in {"current_plan", "memory", "evidence"} |->
                      IF x = "current_plan" THEN 1 ELSE 2]
MCModes ==
    {<<"prefetch", "required">>, <<"controlled", "required">>, <<"controlled", "optional">>,
     <<"none", "optional">>}

MCInit ==
    /\ focus \in {"assembly", "handles"}
    /\ CtxInit
    /\ HandleInit
    /\ focus = "handles" => world = [facts |-> {}, budget |-> 8, knowledge |-> <<"none", "optional">>]
MCNext ==
    /\ focus' = focus
    /\ \/ focus = "assembly" /\ CtxNext /\ UNCHANGED handleVars
       \/ focus = "handles" /\ HandleNext /\ UNCHANGED ctxVars
MCHandleTurn == focus = "handles" /\ SchedulerTurn /\ UNCHANGED <<ctxVars, focus>>
MCHandleWakes == focus = "handles" /\ SchedulerWakes /\ UNCHANGED <<ctxVars, focus>>
MCSpec ==
    /\ MCInit /\ [][MCNext]_<<ctxVars, handleVars, focus>>
    /\ WF_<<ctxVars, handleVars, focus>>(MCHandleTurn)
    /\ WF_<<ctxVars, handleVars, focus>>(MCHandleWakes)
=============================================================================
