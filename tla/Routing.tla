------------------------------ MODULE Routing ------------------------------
(***************************************************************************)
(* RouterService.route: how one request becomes an answer.                 *)
(*                                                                         *)
(* An attempt opens the Turn of its request, loads the agents the user may *)
(* use and the Plan the request is about, and gets a decision: from a      *)
(* fixed question, from the current step of a confirmed Plan, from a       *)
(* governed knowledge item or from the language model.  The model's output *)
(* is arbitrary as far as its schema allows; a pipeline of corrections     *)
(* makes it fit the candidate set, the Plan policy and the confidence      *)
(* threshold.  _after_route then stores the Plan and moves the Turn, each  *)
(* with a read and a conditional write of its own.  A client that gets no  *)
(* answer sends the request again, so the attempts of one request overlap. *)
(*                                                                         *)
(* Texts are small values: `fixed' is one the service words itself.        *)
(***************************************************************************)
EXTENDS Naturals, Sequences, FiniteSets, SequencesExt

CONSTANTS
    Attempt,      \* the attempts to route one request id
    Agent,
    Candidates,   \* the sets of agents the registry may offer
    Requests,     \* the requests an attempt may carry, see MCRequests
    OldAgents,    \* the steps a Plan stored earlier may have
    Texts,        \* texts the language model may answer with
    PlanActions,  \* the actions it may put beside a Plan
    Policies,     \* the policies it may ask for, "none" for no policy
    AutoAllowed,  \* app_env = "local" and allow_local_auto_execute_plans
    NoAgent, NoPlan, OldPlan

ASSUME RoutingAssumption ==
    /\ NoAgent \notin Agent /\ NoPlan # OldPlan
    /\ {NoPlan, OldPlan} \cap Attempt = {}
    /\ Candidates \subseteq {c \in SUBSET Agent : IsFiniteSet(c)}
    /\ OldAgents \subseteq Seq(Agent) \ {<<>>}
    /\ PlanActions \subseteq {"reply", "clarify", "unsupported", "silent", "exit_agent", "show_plan"}
    /\ Policies \subseteq {"none", "auto_execute", "host_managed"}

VARIABLES
    rturn,       \* the Canonical Turn of the request
    plans,       \* stored Plans by id; a Plan made by an attempt has its name
    attempt      \* what each attempt is doing, and its answer

routeVars == <<rturn, plans, attempt>>

DirectActions == {"reply", "clarify", "unsupported", "silent", "exit_agent"}
AgentActions == {"open_agent", "continue_agent"}
OpenStatuses == {"pending", "running", "blocked"}
PlanIds == {OldPlan} \cup Attempt
TurnOpen(t) == t.status \in {"routing", "running", "blocked"}

NoStoredPlan == [status |-> "none", agents |-> <<>>, done |-> 0, version |-> 0, policy |-> "none"]

\* An answer: RouteResponse, with its Plan as an id and the steps it shows.
Blank == [action |-> "unsupported", target |-> NoAgent, relation |-> "other",
          current |-> NoAgent, confidence |-> "high", text |-> "fixed", plan |-> NoPlan,
          agents |-> <<>>, version |-> 0, planPolicy |-> "none", planStatus |-> "pending",
          policy |-> "none", invocation |-> NoAgent]

NewAttempt == [pc |-> "new", request |-> <<>>, candidates |-> {}, active |-> NoPlan,
               read |-> NoStoredPlan, out |-> Blank, seen |-> 0, unsure |-> FALSE]

RouteInit ==
    /\ rturn = [status |-> "none", version |-> 0, request |-> <<>>, plan |-> NoPlan,
                final |-> <<>>, agent |-> NoAgent]
    /\ \E agents \in OldAgents, session \in BOOLEAN :
           plans = [p \in PlanIds |->
               IF p = OldPlan
               THEN [status |-> "pending", agents |-> agents, done |-> 0, version |-> 1,
                     policy |-> "require_confirmation", session |-> session]
               ELSE [status |-> "none", agents |-> <<>>, done |-> 0, version |-> 0,
                     policy |-> "none", session |-> TRUE]]
    /\ attempt = [h \in Attempt |-> NewAttempt]

Is(h, pc) == attempt[h].pc = pc
Return(h) == attempt' = [attempt EXCEPT ![h].pc = "returned", ![h].seen = 0]

\* An attempt that raised has no answer.
Failed == [NewAttempt EXCEPT !.pc = "failed"]
Fail(h) == attempt' = [attempt EXCEPT ![h] = Failed] /\ UNCHANGED <<rturn, plans>>

-----------------------------------------------------------------------------
(* Opening the Turn and loading what the decision needs.                   *)

\* _validate_replay compares the source and the user's input, here what the text
\* says, and not what else a request carries.
Same(q, r) ==
    q.source = r.source /\ q.continuation = r.continuation /\ q.ordered = r.ordered

SameRequest(request) == Same(rturn.request, request)

\* start_turn creates the Turn or finds that of an earlier attempt, which must
\* have asked for the same; the agents available to the user are read anew.
StartTurn(h, request, candidates) ==
    /\ Is(h, "new")
    /\ rturn.status # "none" => SameRequest(request)
    /\ rturn' = IF rturn.status # "none" THEN rturn
                ELSE [rturn EXCEPT !.status = "routing", !.version = 1, !.request = request]
    /\ attempt' = [attempt EXCEPT ![h].pc = IF candidates = {} THEN "after" ELSE "load",
                                  ![h].request = request, ![h].candidates = candidates]
    /\ UNCHANGED plans

\* TurnIdempotencyConflict.
StartConflict(h, request) ==
    /\ Is(h, "new") /\ rturn.status # "none" /\ ~SameRequest(request)
    /\ Fail(h)

\* The Plan the request names, else the session's active Plan, else an open
\* Plan that task memory recalls for a text that asks to continue.
MayBeActive(request, p) ==
    \/ request.plan # NoPlan /\ p = request.plan
    \/ request.plan = NoPlan /\ plans[p].status \in OpenStatuses
       /\ (plans[p].session \/ request.continuation)

ActivePlans(request) == {p \in PlanIds : plans[p].status # "none" /\ MayBeActive(request, p)}

\* _validate_plan_agents
Within(agents, candidates) == ToSet(agents) \subseteq candidates

LoadPlan(h) ==
    LET a == attempt[h]
        found == ActivePlans(a.request)
    IN  /\ Is(h, "load")
        /\ \/ /\ found = {}
              /\ attempt' = [attempt EXCEPT ![h].pc = "decide"]
           \/ \E p \in found :
                 attempt' = [attempt EXCEPT ![h] =
                     IF Within(plans[p].agents, a.candidates)
                     THEN [a EXCEPT !.pc = "decide", !.active = p, !.read = plans[p]]
                     ELSE Failed]
        /\ UNCHANGED <<rturn, plans>>

-----------------------------------------------------------------------------
(* Decisions.  Every one of them ends with the answer in `out'.            *)

\* What later steps use of an answer.
Kept(out) == [out EXCEPT !.relation = "other", !.current = NoAgent, !.confidence = "high"]

Answer(h, out) ==
    /\ attempt' = [attempt EXCEPT ![h].pc = "after", ![h].out = out]
    /\ UNCHANGED <<rturn, plans>>

\* _clarify_or_attach_invocation: an agent that lacks a required input is not
\* invoked, the user is asked.
AttachInvocation(request, out) ==
    CASE out.action \notin AgentActions -> out
      [] out.action \in AgentActions /\ out.target \in request.missing ->
            [out EXCEPT !.action = "clarify", !.target = NoAgent, !.text = "fixed",
                        !.invocation = NoAgent]
      [] OTHER -> [out EXCEPT !.invocation = out.target]

\* A fixed question names an agent: it is opened, or refused when the user may
\* not use it.
FixedQuestion(h, target) ==
    /\ Is(h, "decide")
    /\ Answer(h, IF target \in attempt[h].candidates
                 THEN AttachInvocation(attempt[h].request,
                          [Blank EXCEPT !.action = "open_agent", !.target = target])
                 ELSE Blank)

Controlled(h) == attempt[h].request.source \in {"plan_control", "agent_event"}
                 /\ attempt[h].active # NoPlan

\* The answer shows the Plan as it was read.
ShowPlan(h, out) ==
    LET p == attempt[h].read
    IN  [out EXCEPT !.plan = attempt[h].active, !.agents = p.agents, !.version = p.version,
                    !.planPolicy = p.policy, !.planStatus = p.status]

\* _route_controlled_plan_step: an ended Plan is reported; the current step of an
\* open one is routed, and the Plan is shown as blocked until the step answers.
ControlledStep(h) ==
    LET p == attempt[h].read
    IN  /\ Is(h, "decide") /\ Controlled(h)
        /\ Answer(h,
             IF p.status \notin OpenStatuses
             THEN ShowPlan(h, [Blank EXCEPT !.action = "reply"])
             ELSE [AttachInvocation(attempt[h].request,
                       ShowPlan(h, [Blank EXCEPT !.action = "open_agent",
                                                 !.target = p.agents[p.done + 1]]))
                   EXCEPT !.planStatus = "blocked"])

\* A reliable knowledge item answers directly.
KnowledgeReply(h) ==
    /\ Is(h, "decide") /\ ~Controlled(h)
    /\ Answer(h, [Blank EXCEPT !.action = "reply", !.text = "known"])

-----------------------------------------------------------------------------
(* What the language model may return: any RouteResponse its schema and    *)
(* _normalize_route_response let pass.                                     *)

\* No confidence counts as a high one.
Confidences == {"low", "high"}

Direct(action, text, relation, c, inv) ==
    [Blank EXCEPT !.action = action, !.text = text, !.relation = relation, !.confidence = c,
                  !.invocation = inv]

DirectOutputs ==
    {Direct(action, text, relation, c, inv) :
        action \in DirectActions, text \in Texts, relation \in {"multi_task", "other"},
        c \in Confidences, inv \in Agent \cup {NoAgent}}

Opens(target, c, relation) ==
    [Blank EXCEPT !.action = "open_agent", !.target = target, !.confidence = c,
                  !.relation = relation]

Continues(target, c) ==
    [Blank EXCEPT !.action = "continue_agent", !.target = target, !.current = target,
                  !.confidence = c]

AgentOutputs ==
    {Opens(target, c, relation) :
        target \in Agent, c \in Confidences, relation \in {"multi_task", "other"}}
    \cup {Continues(target, c) : target \in Agent, c \in Confidences}

Proposes(action, p, agents, policy, c, current) ==
    [Blank EXCEPT !.action = action, !.plan = p, !.agents = agents, !.policy = policy,
                  !.planPolicy = policy, !.confidence = c, !.text = "plan", !.current = current]

\* One step or two: more are not told apart.
StepLists == {<<a>> : a \in Agent} \cup {s \in Agent \X Agent : s[1] # s[2]}

\* A Plan of the model is new, or names the Plan it was shown; it stands beside
\* any action that has no target.  It is taken to be pending, as the model is
\* asked to make it; return_plan_only is treated like host_managed.
PlanOutputs(h) ==
    {Proposes(action, p, agents, policy, c, current) :
        action \in PlanActions, p \in {h, attempt[h].active} \ {NoPlan},
        agents \in StepLists, policy \in Policies, c \in Confidences,
        current \in {attempt[h].request.current, NoAgent}}

-----------------------------------------------------------------------------
(* The pipeline that corrects the model's output.                          *)

Denied(out) == [Blank EXCEPT !.confidence = out.confidence, !.current = NoAgent]

\* _normalize_agent_continuation
NormalizeContinuation(out, request, candidates) ==
    CASE out.action # "continue_agent" -> out
      [] out.action = "continue_agent" /\ out.target = request.current /\ request.session -> out
      [] out.action = "continue_agent" /\ ~(out.target = request.current /\ request.session)
         /\ out.target \notin candidates -> Denied(out)
      [] OTHER -> [out EXCEPT !.action = "open_agent", !.relation = "other", !.current = NoAgent]

\* _bind_exit_target
BindExitTarget(out, request) ==
    IF out.action = "exit_agent" /\ request.current # NoAgent
    THEN [out EXCEPT !.target = request.current] ELSE out

\* _ensure_plan_for_multi_task; the text orders its parts or does not.
EnsurePlan(h, out, request, candidates) ==
    IF out.plan = NoPlan /\ out.relation = "multi_task" /\ request.ordered
       /\ Cardinality(candidates) > 1
    THEN [out EXCEPT !.action = IF out.action \in AgentActions THEN "reply" ELSE out.action,
                     !.target = NoAgent, !.plan = h, !.invocation = NoAgent,
                     !.agents = SetToSeq(candidates), !.policy = "none", !.planPolicy = "none"]
    ELSE out

\* _deny_unavailable_plan_agents
DenyPlanAgents(out, candidates) ==
    IF out.plan = NoPlan \/ Within(out.agents, candidates) THEN out ELSE Denied(out)

\* _collapse_single_step_plan
Collapse(out, request) ==
    IF out.plan = NoPlan \/ Len(out.agents) # 1 THEN out
    ELSE [Blank EXCEPT !.action = IF request.current = out.agents[1] THEN "continue_agent"
                                  ELSE "open_agent",
                       !.target = out.agents[1], !.confidence = out.confidence,
                       !.current = out.current]

\* _apply_plan_policy: require_confirmation is the default, and replaces
\* auto_execute where that is not allowed.
PlanPolicy(out) ==
    LET asked == IF out.policy # "none" THEN out.policy ELSE "require_confirmation"
        policy == IF asked = "auto_execute" /\ ~AutoAllowed THEN "require_confirmation"
                  ELSE asked
    IN  IF out.plan = NoPlan THEN out ELSE [out EXCEPT !.policy = policy, !.planPolicy = policy]

\* Mutant of ValidTarget: membership in the candidate set is not checked.
AnyTarget(out, candidates) == TRUE

ValidTarget(out, candidates) == out.target = NoAgent \/ out.target \in candidates

\* _post_validate, with the schema's own checks.
Valid(out, request, candidates) ==
    /\ ValidTarget(out, candidates)
    /\ out.action = "continue_agent" => out.target = request.current /\ out.current = out.target
    /\ out.plan # NoPlan => Within(out.agents, candidates)
    /\ out.action = "show_plan" => out.plan # NoPlan

\* _clarify_on_low_confidence: actions that start nothing are left alone.
ClarifyOnLowConfidence(out) ==
    IF out.confidence # "low" \/ out.action \in {"clarify", "unsupported", "silent", "exit_agent"}
    THEN out
    ELSE [Blank EXCEPT !.action = "clarify", !.confidence = out.confidence,
                       !.current = out.current, !.relation = out.relation]

\* The corrections up to _post_validate, in the order of RouterService.route.
Corrected(h, out, request, candidates) ==
    LET continued == NormalizeContinuation(out, request, candidates)
        exiting == BindExitTarget(continued, request)
        planned == DenyPlanAgents(EnsurePlan(h, exiting, request, candidates), candidates)
    IN  PlanPolicy(NormalizeContinuation(Collapse(planned, request), request, candidates))

ModelDecides(h) ==
    LET a == attempt[h]
    IN  /\ Is(h, "decide") /\ ~Controlled(h)
        /\ \E out \in DirectOutputs \cup AgentOutputs \cup PlanOutputs(h) :
             LET fixed == Corrected(h, out, a.request, a.candidates)
             IN  attempt' = [attempt EXCEPT ![h] =
                     IF ~Valid(fixed, a.request, a.candidates) THEN Failed
                     ELSE [a EXCEPT !.pc = "after", !.unsure = (out.confidence = "low"),
                              !.active = NoPlan, !.read = NoStoredPlan,
                              !.out = Kept(AttachInvocation(a.request,
                                          ClarifyOnLowConfidence(fixed)))]]
        /\ UNCHANGED <<rturn, plans>>

-----------------------------------------------------------------------------
(* _after_route.                                                           *)

\* Mutant of MayStore: a stored Plan is replaced without a look at its version.
MayStoreAny(stored, out) == TRUE

\* save_plan and save_if_version: a new Plan, or the version it was read at.
MayStore(stored, out) == stored.status = "none" \/ stored.version = out.version

\* An answer that shows the Plan as it is stored is not saved; a stale one is
\* replaced by what is stored.
AfterPlan(h) ==
    LET a == attempt[h]
        out == a.out
        stored == plans[out.plan]
        same == out.agents = stored.agents /\ out.version = stored.version
                /\ out.planStatus = stored.status /\ out.planPolicy = stored.policy
        kept == same \/ ~MayStore(stored, out)
    IN  /\ Is(h, "after") /\ out.plan # NoPlan
        /\ plans' = IF kept THEN plans
                    ELSE [plans EXCEPT ![out.plan] =
                             [stored EXCEPT !.status = out.planStatus, !.agents = out.agents,
                                 !.policy = out.planPolicy, !.version = stored.version + 1,
                                 !.done = a.read.done]]
        /\ attempt' = [attempt EXCEPT ![h] = [a EXCEPT !.pc = "attach",
               !.out = [out EXCEPT !.agents = IF kept THEN stored.agents ELSE out.agents]]]
        /\ UNCHANGED rturn

\* attach_activity reads the Turn; a Turn has one Plan and an ended one takes none.
AttachRead(h) ==
    LET a == attempt[h]
    IN  /\ Is(h, "attach")
        /\ attempt' = [attempt EXCEPT ![h] =
               IF TurnOpen(rturn) /\ rturn.plan \in {NoPlan, a.out.plan}
               THEN [a EXCEPT !.pc = "attaching", !.seen = rturn.version] ELSE Failed]
        /\ UNCHANGED <<rturn, plans>>

\* Mutant of Unchanged: update_if_version compares nothing.
Whatever(h) == TRUE

\* update_if_version
Unchanged(h) == rturn.version = attempt[h].seen /\ TurnOpen(rturn)

AttachStore(h) ==
    /\ Is(h, "attaching")
    /\ IF Unchanged(h)
       THEN /\ rturn' = [rturn EXCEPT
                   !.status = IF attempt[h].out.policy = "auto_execute" THEN "running" ELSE "blocked",
                   !.version = @ + 1, !.plan = attempt[h].out.plan]
            /\ Return(h)
       ELSE /\ attempt' = [attempt EXCEPT ![h] = Failed] /\ UNCHANGED rturn
    /\ UNCHANGED plans

\* The answers that complete their Turn.
RouteOnly(out) == out.plan = NoPlan /\ out.invocation = NoAgent /\ out.action \in DirectActions

Final(out) == <<IF out.action = "exit_agent" THEN "reply" ELSE out.action, out.text>>

\* complete_route_only reads the Turn; what was completed with the same answer
\* is a success.
CompleteRead(h) ==
    LET a == attempt[h]
    IN  /\ Is(h, "after") /\ RouteOnly(a.out)
        /\ attempt' = [attempt EXCEPT ![h] =
               CASE TurnOpen(rturn) -> [a EXCEPT !.pc = "completing", !.seen = rturn.version]
                 [] ~TurnOpen(rturn) /\ rturn.final = Final(a.out) -> [a EXCEPT !.pc = "returned"]
                 [] OTHER -> Failed]
        /\ UNCHANGED <<rturn, plans>>

CompleteStore(h) ==
    LET a == attempt[h]
        final == Final(a.out)
    IN  /\ Is(h, "completing")
        /\ IF Unchanged(h)
           THEN /\ rturn' = [rturn EXCEPT !.status = "completed", !.version = @ + 1,
                                          !.plan = NoPlan, !.final = final]
                /\ Return(h)
           ELSE /\ attempt' = [attempt EXCEPT ![h] = IF rturn.final = final
                                   THEN [a EXCEPT !.pc = "returned", !.seen = 0] ELSE Failed]
                /\ UNCHANGED rturn
        /\ UNCHANGED plans

\* An answer with an invocation leaves the Turn to whoever invokes the agent.
LeaveTurn(h) ==
    LET out == attempt[h].out
    IN  /\ Is(h, "after") /\ out.plan = NoPlan /\ ~RouteOnly(out)
        /\ Return(h)
        /\ UNCHANGED <<rturn, plans>>

-----------------------------------------------------------------------------
(* What goes on beside the attempts.                                       *)

\* invoke_from_route: the agent is invoked and its result completes the Turn
\* (module Invocations has the details).
InvokeFromRoute(h) ==
    LET out == attempt[h].out
    IN  /\ Is(h, "returned") /\ out.plan = NoPlan /\ out.invocation \in attempt[h].candidates
        /\ TurnOpen(rturn) /\ rturn.agent = NoAgent
        /\ rturn' = [rturn EXCEPT !.status = "completed", !.version = @ + 1,
                                  !.agent = out.invocation, !.final = <<"agent_result", "x">>]
        /\ UNCHANGED <<plans, attempt>>

\* An agent's event ends the current step of a Plan.
PlanAdvances(p) ==
    /\ plans[p].status \in OpenStatuses
    /\ plans' = [plans EXCEPT ![p].done = @ + 1, ![p].version = @ + 1,
                              ![p].status = IF plans[p].done + 1 = Len(plans[p].agents)
                                            THEN "completed" ELSE "running"]
    /\ UNCHANGED <<rturn, attempt>>

RouteNext ==
    \/ \E h \in Attempt :
          \/ \E request \in Requests : \/ StartConflict(h, request)
                                       \/ \E c \in Candidates : StartTurn(h, request, c)
          \/ LoadPlan(h) \/ ControlledStep(h) \/ KnowledgeReply(h) \/ ModelDecides(h)
          \/ \E target \in Agent : FixedQuestion(h, target)
          \/ AfterPlan(h) \/ AttachRead(h) \/ AttachStore(h)
          \/ CompleteRead(h) \/ CompleteStore(h) \/ LeaveTurn(h)
          \/ InvokeFromRoute(h)
    \/ \E p \in PlanIds : PlanAdvances(p)

RouteSpec == RouteInit /\ [][RouteNext]_routeVars

-----------------------------------------------------------------------------
(* Properties.                                                             *)

Returned(h) == Is(h, "returned")

\* Every answer is anchored: one that starts nothing has completed the Turn with
\* its own text, one with a Plan was bound to the Turn, and any other names an
\* agent to invoke.  Nobody waits for a Turn that no one will end.
EveryAnswerIsAnchored ==
    \A h \in Attempt : Returned(h) =>
        LET out == attempt[h].out
        IN  \/ out.invocation # NoAgent
            \/ out.plan # NoPlan /\ plans[out.plan].status # "none"
            \/ rturn.status = "completed" /\ rturn.final = Final(out)

\* Attempts of one request never give different answers: two direct answers are
\* the same, and two Plans are the same Plan.
AttemptsAgree ==
    \A h, k \in Attempt : Returned(h) /\ Returned(k) =>
        LET a == attempt[h].out
            b == attempt[k].out
        IN  /\ a.plan = NoPlan /\ a.invocation = NoAgent /\ b.plan = NoPlan
               /\ b.invocation = NoAgent => Final(a) = Final(b)
            /\ a.plan # NoPlan /\ b.plan # NoPlan => a.plan = b.plan
            /\ Same(attempt[h].request, attempt[k].request)

\* However often a request is sent and its attempts overlap, every answer stands
\* and none contradicts another.
AnswersHold == EveryAnswerIsAnchored /\ AttemptsAgree

\* Whatever the model returns, the agent that is opened and the agents of the
\* Plan are agents the user may use, an agent whose inputs are missing is never
\* opened, and a model that is unsure neither answers nor opens anything.
WithinCandidates ==
    \A h \in Attempt : attempt[h].pc \in {"after", "attach", "attaching", "completing", "returned"} =>
        LET out == attempt[h].out
        IN  /\ out.target = NoAgent \/ out.target \in attempt[h].candidates
            /\ ToSet(out.agents) \subseteq attempt[h].candidates
            /\ out.action \in AgentActions => out.target \notin attempt[h].request.missing
            /\ out.policy = "auto_execute" => AutoAllowed
            /\ attempt[h].unsure => out.action \notin AgentActions \cup {"show_plan", "reply"}

\* The router writes Plans it read a while ago: it never takes back a step that
\* has ended meanwhile, nor replaces the steps of a stored Plan.
RouterNeverRewinds ==
    [][\A p \in PlanIds : plans[p].status # "none" =>
          /\ plans'[p].done >= plans[p].done
          /\ plans'[p].agents = plans[p].agents]_routeVars

\* A claim TLC refutes (README, Observations): a retry creates no second Plan.
OnePlanPerRequest == Cardinality({h \in Attempt : plans[h].status # "none"}) <= 1
=============================================================================
