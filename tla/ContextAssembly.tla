--------------------------- MODULE ContextAssembly ---------------------------
(***************************************************************************)
(* The governed context pipeline: what the Router model and the invoked    *)
(* Agent get to read.  One request goes through up to three assemblies:    *)
(* "route" (consumer router), "dispatch" (the Router prepares the chosen   *)
(* Agent's input, knowledge deferred) and "invoke" (the Agent is invoked   *)
(* with that input).  In each, the providers are asked concurrently and    *)
(* then, in one uninterrupted computation, their candidates are governed,  *)
(* deduplicated, freed of conflicts and fitted into a hard budget.         *)
(*                                                                         *)
(* A fact is one piece of context.  Its text, key and value are numbers    *)
(* (only their equality is used) and its size is in characters; the        *)
(* separators of the rendered JSON count as part of the items.             *)
(***************************************************************************)
EXTENDS Integers, Sequences, FiniteSets, SequencesExt

CONSTANTS
    Worlds,         \* the sets of facts a request may find
    InputFact,      \* the current input, always there
    Never,          \* the expiry of a fact without one
    None,           \* an absent key
    MaxTime,        \* bound on the clock
    CharsPerToken,  \* settings.context_chars_per_token
    ItemLimit,      \* settings.context_per_item_char_limit
    Wrapper,        \* characters of the projection without any item
    RouteBudgets,   \* token budgets of the route assembly
    SourceBudget,   \* tokens per source, a function of the budgeted sources
    AgentBudget,    \* settings.context_agent_token_budget
    BaseInput,      \* characters of the Agent's input without the contexts
    AgentScopes,    \* the memory scopes the Agent declares
    RouteScopes,    \* the memory scopes of the route stage
    KnowledgeModes  \* <<mode, requirement>> of the Agent's knowledge

Sources == {"current_input", "current_agent", "current_plan", "host_history", "agent_history",
            "recent_result", "recent_event", "artifact", "evidence", "frontend_context",
            "memory", "knowledge", "plugin"}
Fact == [id : Nat, src : Sources, text : Nat, key : Nat \cup {None}, ckey : Nat \cup {None},
         val : Int, risk : BOOLEAN, exp : Int \cup {Never}, rel : Int, size : Nat,
         mark : {"user", "agent", "referenced", "none"}, scope : {"preference", "stable", "task"},
         denied : {"no", "permission_denied"}]
Critical(f) == f.src \in {"current_input", "current_agent", "current_plan"}

\* A world has finitely many facts with names of their own, one input and no two
\* critical facts of one reference (request:..., agent:..., plan:...).
ASSUME ContextConstants ==
    /\ CharsPerToken \in Nat \ {0} /\ ItemLimit \in Nat \ {0} /\ Wrapper \in Nat
    /\ RouteBudgets \subseteq Nat /\ AgentBudget \in Nat /\ BaseInput \in Nat
    /\ \A source \in DOMAIN SourceBudget : SourceBudget[source] \in Nat
    /\ None \notin Int /\ Never \notin Int
    /\ InputFact \in Fact /\ InputFact.src = "current_input"
    /\ \A W \in Worlds :
         /\ IsFiniteSet(W) /\ W \subseteq Fact
         /\ \A f \in W : f.src # "current_input"
         /\ \A f, g \in W \cup {InputFact} : f.id = g.id => f = g
         /\ \A f, g \in W \cup {InputFact} :
              Critical(f) /\ Critical(g) /\ f.key = g.key => f = g

VARIABLES
    world,    \* the facts of this request, its budget and the Agent's configuration
    now,      \* the clock
    stage,    \* the assembly under way
    got,      \* what each provider of this assembly has answered
    results   \* the finished assemblies

ctxVars == <<world, now, stage, got, results>>

Stages == <<"route", "dispatch", "invoke">>
Waiting == "waiting"
Failures == {"timeout", "error"}

----------------------------------------------------------------------------
(* Candidates: what each provider makes of a fact.                         *)

\* A candidate with the authority rank, priority and criticality of its source.
Candidate(fact, rank, priority, must) ==
    [fact |-> fact, id |-> fact.id, source |-> fact.src, rank |-> rank, prio |-> priority,
     must |-> must, rel |-> fact.rel, text |-> fact.text, key |-> fact.key,
     ckey |-> None, val |-> fact.val, risk |-> fact.risk, exp |-> Never,
     size |-> fact.size, denied |-> "no"]

Of(source) == {f \in world.facts : f.src = source}

CurrentInputProvider == {Candidate(f, 0, 100, TRUE) : f \in {InputFact}}
CurrentAgentProvider == {Candidate(f, 0, 95, TRUE) : f \in Of("current_agent")}
PlanProvider == {Candidate(f, 0, 90, TRUE) : f \in Of("current_plan")}

\* Messages: what the user said is authoritative, what an Agent said is generated,
\* what nobody signed is derived.
HistoryProvider ==
    {Candidate(f, IF f.mark = "user" THEN 0 ELSE IF f.mark = "agent" THEN 3 ELSE 1,
               IF f.src = "agent_history" THEN 48 ELSE 40, FALSE)
        : f \in Of("host_history") \cup Of("agent_history")}
ResultProvider == {Candidate(f, 0, 72, FALSE) : f \in Of("recent_result")}
EventProvider ==
    {Candidate(f, 0, IF f.mark = "referenced" THEN 74 ELSE 56, FALSE) : f \in Of("recent_event")}
ArtifactProvider == {Candidate(f, 0, 70, FALSE) : f \in Of("artifact")}
EvidenceContextProvider == {Candidate(f, 1, 58, FALSE) : f \in Of("evidence")}
FrontendContextProvider == {Candidate(f, 2, 55, FALSE) : f \in Of("frontend_context")}

\* Whether the request has an active Plan a task memory may point to.
PlanIsActive == Of("current_plan") # {}

\* Recall: facts of the stage's scopes; a task memory only if it points to the
\* active Plan, and never for the Router, to whom PlanProvider gives the Plan.
MemoryRetrievalProvider(s) ==
    {[Candidate(f, 1, 64, FALSE) EXCEPT !.ckey = f.ckey, !.exp = f.exp]
        : f \in {g \in Of("memory") :
                    IF g.scope = "task" THEN s # "route" /\ "task" \in AgentScopes /\ PlanIsActive
                    ELSE g.scope \in (IF s = "route" THEN RouteScopes ELSE AgentScopes)}}

KnowledgeRetrievalProvider == {Candidate(f, 1, 68, FALSE) : f \in Of("knowledge")}

\* Candidates a provider outside the repository's own list offers: any flag of the
\* candidate schema may deny them.
PluginProvider == {[Candidate(f, 0, 99, FALSE) EXCEPT !.denied = f.denied, !.exp = f.exp]
                        : f \in Of("plugin")}

\* A memory context that is already in the invocation's input: its items lose
\* their conflict key, and a task memory of no active Plan is left out.
FilterTaskMemory(items) ==
    {[c EXCEPT !.ckey = None] : c \in {d \in items : d.fact.scope = "task" => PlanIsActive}}

----------------------------------------------------------------------------
(* Governance, in the order of _govern: the first rule that denies.        *)

Expired(c, t) == c.exp # Never /\ c.exp <= t
Denial(c, t) ==
    IF c.denied # "no" THEN c.denied ELSE IF Expired(c, t) THEN "expired" ELSE "no"
Govern(cands, t) == {c \in cands : Denial(c, t) = "no"}

----------------------------------------------------------------------------
(* Order, duplicates and conflicts.                                        *)

\* The sort key: critical first, then authority, priority, relevance, name.
SortKey(c) == <<IF c.must THEN 0 ELSE 1, c.rank, -c.prio, -c.rel, c.id>>
Before(a, b) ==
    \E i \in 1..5 : SortKey(a)[i] < SortKey(b)[i]
                    /\ \A j \in 1..(i - 1) : SortKey(a)[j] = SortKey(b)[j]
Sorted(cands) ==
    [i \in 1..Cardinality(cands) |->
        CHOOSE c \in cands : Cardinality({d \in cands : Before(d, c)}) = i - 1]

\* The sources whose equal texts are one fact.
Family(source) ==
    CASE source \in {"evidence", "knowledge"} -> "retrieval_evidence"
      [] source \in {"current_input", "memory"} -> "current_user_fact"
      [] source \in {"host_history", "agent_history"} -> "history"
      [] OTHER -> None
SameFact(a, b) ==
    \/ a.key # None /\ a.key = b.key
    \/ Family(a.source) # None /\ Family(a.source) = Family(b.source) /\ a.text = b.text

\* A candidate is kept unless one before it that was kept is the same fact.
Keep(kept, c) == IF \E i \in DOMAIN kept : SameFact(kept[i], c) THEN kept ELSE Append(kept, c)
Dedupe(cands) == FoldLeft(Keep, <<>>, Sorted(cands))

Group(kept, k) == {kept[i] : i \in {j \in DOMAIN kept : kept[j].ckey = k}}
Values(group) == {c.val : c \in group}
Contested(kept) ==
    {k \in {kept[i].ckey : i \in DOMAIN kept} \ {None} :
        Cardinality(Group(kept, k)) > 1 /\ Cardinality(Values(Group(kept, k))) > 1}

Winner(group) == Sorted(group)[1]
Peers(group) == {c \in group : c.rank = Winner(group).rank}
Unresolved(group) ==
    /\ \E c \in group : c.risk
    /\ Cardinality(Values(Peers(group))) > 1

\* The user says now what memories say otherwise.
Overridden(group) == {"current_input", "memory"} \subseteq {c.source : c \in group}

\* Mutant of Leavers: a risky disagreement is settled like any other.
LeaversUnlessFirst(group) ==
    IF Overridden(group)
    THEN {c \in group : c.source = "memory"} ELSE group \ {Winner(group)}

\* Who leaves a contested group: the memories when the current input overrides
\* them, everyone when authorities of one rank disagree about something risky, and
\* otherwise all but the first.
Leavers(group) ==
    IF Overridden(group)
    THEN {c \in group : c.source = "memory"}
    ELSE IF Unresolved(group) THEN group
    ELSE group \ {Winner(group)}

\* The notice that stands for an unresolved conflict.
Notice(k) ==
    [fact |-> k, id |-> -1 - k, source |-> "system", rank |-> 0, prio |-> 98, must |-> TRUE,
     rel |-> 0, text |-> None, key |-> None, ckey |-> k, val |-> None, risk |-> FALSE,
     exp |-> Never, size |-> ItemLimit, denied |-> "no"]

ResolveConflicts(kept) ==
    LET groups == {Group(kept, k) : k \in Contested(kept)}
        removed == UNION {Leavers(g) : g \in groups}
        open == {k \in Contested(kept) :
                    /\ ~Overridden(Group(kept, k))
                    /\ Unresolved(Group(kept, k))}
    IN  (ToSet(kept) \ removed) \cup {Notice(k) : k \in open}

----------------------------------------------------------------------------
(* The hard budget.                                                        *)

Tokens(chars) == (chars + CharsPerToken - 1) \div CharsPerToken

\* The characters an item needs: its content is cut at the item limit; its
\* minimal representation is a reference.
Rendered(c) == IF c.size > ItemLimit THEN ItemLimit ELSE c.size
Minimal == 1

\* The sources that have a budget of their own in a stage, with it.
Limits(budget, s) ==
    IF s = "route" THEN SourceBudget ELSE [source \in {"memory", "knowledge"} |-> budget]

\* An accumulator of the selection: what is in the payload, what was left out, and
\* the tokens used of each source's budget.
NothingYet(limits, fits) ==
    [chars |-> Wrapper, items |-> {}, short |-> {}, dropped |-> {},
     used |-> [source \in DOMAIN limits |-> 0], ok |-> fits]
Fits(acc, c, chars, budget, limits) ==
    /\ c.source \in DOMAIN limits => acc.used[c.source] + Tokens(chars) <= limits[c.source]
    /\ Tokens(acc.chars + chars) <= budget

\* One round of _select_and_project: whole, as a reference if it is critical, or
\* not at all; a critical item that does not fit even so ends the assembly.
Include(acc, c, chars) ==
    [acc EXCEPT !.chars = @ + chars, !.items = @ \cup {c},
                !.used = [source \in DOMAIN acc.used |->
                    acc.used[source] + IF source = c.source THEN Tokens(chars) ELSE 0]]
Refer(acc, c) == [Include(acc, c, Minimal) EXCEPT !.short = @ \cup {c}]
Drop(acc, c) == [acc EXCEPT !.dropped = @ \cup {c}]
\* Mutant of Select: a critical item goes in however full the budget is.
SelectCritical(acc, c, budget, limits) ==
    IF Fits(acc, c, Rendered(c), budget, limits) THEN Include(acc, c, Rendered(c))
    ELSE IF c.must THEN Refer(acc, c) ELSE Drop(acc, c)
Select(acc, c, budget, limits) ==
    IF ~acc.ok THEN acc
    ELSE IF Fits(acc, c, Rendered(c), budget, limits) THEN Include(acc, c, Rendered(c))
    ELSE IF ~c.must THEN Drop(acc, c)
    ELSE IF Fits(acc, c, Minimal, budget, limits) THEN Refer(acc, c)
    ELSE [acc EXCEPT !.ok = FALSE]

SelectAndProject(cands, budget, s) ==
    FoldLeft(LAMBDA acc, c : Select(acc, c, budget, Limits(budget, s)),
             NothingYet(Limits(budget, s), Tokens(Wrapper) <= budget), Sorted(cands))

\* Mutant of AssembleCandidates: duplicates are dropped before governance.
AssembleDedupedFirst(cands, t, budget, s) ==
    SelectAndProject(ResolveConflicts(Dedupe(Govern(ToSet(Dedupe(cands)), t))), budget, s)

\* assemble_candidates: the three steps, without an await between them.
AssembleCandidates(cands, t, budget, s) ==
    SelectAndProject(ResolveConflicts(Dedupe(Govern(cands, t))), budget, s)

----------------------------------------------------------------------------
(* The assemblies.                                                         *)

Mode == world.knowledge[1]
Required == world.knowledge[2] = "required"

\* The providers of an assembly.  The knowledge of a dispatch is left to the
\* invocation; a memory context in the input replaces recall.
Providers(s) ==
    IF s = "route"
    THEN {"current_input", "current_agent", "plan", "history", "results", "events", "artifacts",
          "evidence", "frontend_context", "memory", "plugin"}
    ELSE {"plan"} \cup (IF s = "invoke" THEN {"existing_memory"} ELSE {"memory"})
                  \cup (IF s = "invoke" THEN {"knowledge"} ELSE {})
Retrievals == {"memory", "knowledge"}

\* What a provider would answer now.
Offer(p, s) ==
    CASE p = "current_input" -> CurrentInputProvider
      [] p = "current_agent" -> CurrentAgentProvider
      [] p = "plan" -> PlanProvider
      [] p = "history" -> HistoryProvider
      [] p = "results" -> ResultProvider
      [] p = "events" -> EventProvider
      [] p = "artifacts" -> ArtifactProvider
      [] p = "evidence" -> EvidenceContextProvider
      [] p = "frontend_context" -> FrontendContextProvider
      [] p = "memory" -> MemoryRetrievalProvider(s)
      [] p = "existing_memory" -> FilterTaskMemory(results["dispatch"].memory)
      [] p = "knowledge" -> KnowledgeRetrievalProvider
      [] p = "plugin" -> PluginProvider

Collected == UNION {got[p].cands : p \in DOMAIN got}
AllAnswered == \A p \in DOMAIN got : got[p].status # Waiting

\* In-process providers answer at once; only the retrievals that apply are awaited.
Applies(p) ==
    p = "knowledge" => Mode = "prefetch" \/ (Mode = "controlled" /\ Required)
Asked(s) ==
    [p \in Providers(s) |->
        IF ~Applies(p) THEN [status |-> "disabled", cands |-> {}]
        ELSE IF p \in Retrievals THEN [status |-> Waiting, cands |-> {}]
        ELSE [status |-> "ok", cands |-> Offer(p, s)]]

NoResult == [status |-> "none"]

CtxInit ==
    /\ world \in {[facts |-> f, budget |-> b, knowledge |-> k] :
                    f \in Worlds, b \in RouteBudgets, k \in KnowledgeModes}
    /\ now = 0
    /\ stage = "route"
    /\ got = Asked("route")
    /\ results = [s \in ToSet(Stages) |-> NoResult]

\* A retrieval answers, or a required context is taken from its one-time handle.
Collect(p) ==
    /\ got[p].status = Waiting
    /\ got' = [got EXCEPT ![p] = [status |-> IF Offer(p, stage) = {} THEN "empty" ELSE "ok",
                                  cands |-> Offer(p, stage)]]
    /\ UNCHANGED <<world, now, stage, results>>

\* A retrieval times out or fails, or the handle is refused: no candidates.
CollectFails(p, outcome) ==
    /\ got[p].status = Waiting
    /\ got' = [got EXCEPT ![p] = [status |-> outcome, cands |-> {}]]
    /\ UNCHANGED <<world, now, stage, results>>

\* Time passes while a provider or the next stage is awaited.
Tick ==
    /\ now < MaxTime
    /\ results["invoke"] = NoResult
    /\ now' = now + 1
    /\ UNCHANGED <<world, stage, got, results>>

----------------------------------------------------------------------------
(* After the pipeline: the route's projection and the Agent's input.       *)

\* The characters of the Agent's input: the items and the summaries of what was
\* selected, which keep their length when items are cut.
Chars(cands) == MapThenSumSet(Rendered, cands)
InputTokens(items, summary) == Tokens(BaseInput + 2 * Chars(items) + Chars(summary))

\* Cut items off the end, all knowledge before any memory, until the input fits
\* or nothing is left to cut.
Fitting(memory, knowledge, summary) ==
    LET m == Sorted(memory) k == Sorted(knowledge)
        Cut(i, j) == <<ToSet(SubSeq(m, 1, i)), ToSet(SubSeq(k, 1, j))>>
        good == {ij \in (0..Len(m)) \X (0..Len(k)) :
                    /\ ij[2] > 0 => ij[1] = Len(m)
                    /\ InputTokens(Cut(ij[1], ij[2])[1] \cup Cut(ij[1], ij[2])[2], summary)
                            <= AgentBudget}
        best == IF good = {} THEN <<0, 0>>
                ELSE CHOOSE ij \in good : \A o \in good : o[1] + o[2] <= ij[1] + ij[2]
    IN  Cut(best[1], best[2])

\* Mutant of KnowledgeRefusal: what retrieval reported is enough.
KnowledgeRefusalByStatus(status, items) ==
    IF ~Required \/ status = "ok" THEN "no"
    ELSE IF status = "empty" THEN "knowledge_not_found" ELSE "knowledge_unavailable"

\* What the Agent's required knowledge says of the context it would get.
KnowledgeRefusal(status, items) ==
    IF ~Required \/ (status = "ok" /\ items # {}) THEN "no"
    ELSE IF status \in {"ok", "empty"} THEN "knowledge_not_found" ELSE "knowledge_unavailable"

KnowledgeStatus == IF "knowledge" \in DOMAIN got THEN got["knowledge"].status ELSE "disabled"
AgentTokens ==
    LET left == AgentBudget - Tokens(BaseInput) IN IF left > 1 THEN left ELSE 1

Result(status, sel, memory, knowledge, summary) ==
    [status |-> status, at |-> now, sel |-> sel, memory |-> memory, knowledge |-> knowledge,
     summary |-> summary, cands |-> Collected]

BySource(sel, source) == {c \in sel.items \ sel.short : c.source = source}

\* The summary of the memory context: the one in the input, if there is one.
MemorySummary(sel, s) ==
    IF s = "invoke" /\ results["dispatch"].summary # {} THEN results["dispatch"].summary
    ELSE BySource(sel, "memory")

\* The outcome of the assembly of this stage.
RouteResult ==
    LET sel == AssembleCandidates(Collected, now, world.budget, "route")
    IN  Result(IF sel.ok THEN "ok" ELSE "context_budget_exhausted", sel,
               BySource(sel, "memory"), {}, {})
AgentResult(s) ==
    LET sel == AssembleCandidates(Collected, now, AgentTokens, s)
        summary == MemorySummary(sel, s)
        fit == Fitting(BySource(sel, "memory"), BySource(sel, "knowledge"),
                       summary \cup BySource(sel, "knowledge"))
        refusal == IF s = "invoke" THEN KnowledgeRefusal(KnowledgeStatus, fit[2]) ELSE "no"
    IN  Result(IF ~sel.ok THEN "context_budget_exhausted" ELSE IF refusal = "no" THEN "ok" ELSE refusal,
               sel, fit[1], fit[2], summary)

\* The stage ends, and the next one begins if it succeeded.
NextStage == IF stage = "route" THEN "dispatch" ELSE "invoke"
Assemble ==
    /\ results[stage] = NoResult
    /\ AllAnswered
    /\ results' = [results EXCEPT ![stage] =
                        IF stage = "route" THEN RouteResult ELSE AgentResult(stage)]
    /\ UNCHANGED <<world, now, stage, got>>

\* The route has chosen the Agent, or the prepared Agent is invoked.
Proceed ==
    /\ stage # "invoke"
    /\ results[stage].status = "ok"
    /\ stage' = NextStage
    /\ got' = Asked(NextStage)
    /\ UNCHANGED <<world, now, results>>

CtxNext ==
    \/ \E p \in DOMAIN got : Collect(p)
    \/ \E p \in DOMAIN got, f \in Failures : CollectFails(p, f)
    \/ Tick
    \/ Assemble
    \/ Proceed

CtxSpec == CtxInit /\ [][CtxNext]_ctxVars
----------------------------------------------------------------------------
(* Properties.                                                             *)

Finished == {s \in ToSet(Stages) : results[s] # NoResult}
Succeeded == {s \in Finished : results[s].sel.ok}
BudgetOf(s) == IF s = "route" THEN world.budget ELSE AgentTokens

\* The hard budget of _select_and_project: what a successful assembly projects,
\* references included, stays within the total budget and within the budget of
\* every source, and no critical candidate is missing from it.
HardBudget ==
    \A s \in Succeeded :
        LET sel == results[s].sel
            limits == Limits(BudgetOf(s), s)
            size == [c \in sel.items |-> IF c \in sel.short THEN Minimal ELSE Rendered(c)]
            tokens == [c \in sel.items |-> Tokens(size[c])]
        IN  /\ Tokens(Wrapper + SumFunction(size)) <= BudgetOf(s)
            /\ \A source \in DOMAIN limits :
                    SumFunctionOnSet(tokens, {c \in sel.items : c.source = source}) <= limits[source]
            /\ \A c \in results[s].cands : c.must => c \in sel.items

\* Governance comes before deduplication and conflicts: a candidate the consumer
\* may read and that the budget has room for is missing only because another one
\* that may be read says the same or contests it; one that was denied, or had
\* expired, neither gets in nor keeps another out.
OnlyEligibleInfluence ==
    \A s \in Succeeded :
        LET sel == results[s].sel
            may(c) == c.denied = "no" /\ (c.exp # Never => c.exp > results[s].at)
            shown == sel.items \cup sel.dropped
            rival(a, b) ==
                \/ SameFact(a, b)
                \/ a.ckey # None /\ a.ckey = b.ckey /\ a.val # b.val
        IN  \A c \in results[s].cands :
                /\ c \in shown => may(c)
                /\ may(c) /\ c \notin shown =>
                        \E d \in results[s].cands \ {c} : may(d) /\ rival(c, d)

\* Conflicts: what is projected never holds two values of one contested fact, and
\* a risky disagreement of equals (that no other candidate repeats) leaves none of
\* its values, only the notice.
ConflictsSettled ==
    \A s \in Succeeded :
        LET items == results[s].sel.items
            real == {c \in items : c.source # "system"}
            may == Govern(results[s].cands, results[s].at)
        IN  /\ \A a, b \in real : a.ckey # None /\ a.ckey = b.ckey => a.val = b.val
            /\ \A c \in items \ real : \A d \in real : d.ckey # c.ckey
            /\ \A a, b \in may :
                    /\ a.source = "memory" /\ b.source = "memory"
                    /\ a.ckey # None /\ a.ckey = b.ckey /\ a.val # b.val /\ (a.risk \/ b.risk)
                    /\ \A c \in may : (c # a => ~SameFact(c, a)) /\ (c # b => ~SameFact(c, b))
                    => \E n \in items : n.source = "system" /\ n.ckey = a.ckey

\* Required knowledge: an Agent that declares its knowledge required is invoked
\* only with at least one item of it in the input that is really sent, whatever
\* failed, was dropped for the budget or was cut to fit.
RequiredKnowledgeArrives ==
    results["invoke"].status = "ok" /\ Required => results["invoke"].knowledge # {}

\* A claim TLC refutes (README, Observations).
\* What the Agent is told of its memories is governed when it is invoked: the
\* summary it is sent holds nothing that has expired by then.
SummaryIsGoverned ==
    results["invoke"].status = "ok" =>
        \A c \in results["invoke"].summary : ~Expired(c, results["invoke"].at)
=============================================================================
