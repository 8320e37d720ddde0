----------------------------- MODULE ContextProofs -----------------------------
(***************************************************************************)
(* Proofs about the Context an Agent is given: the one-time handles of     *)
(* controlled Knowledge Context, and the governed assemblies, whose parts  *)
(* (order, duplicates, conflicts, budget, providers) have lemmas of their  *)
(* own.                                                                    *)
(***************************************************************************)
EXTENDS KnowledgeHandles, ContextAssembly, SequenceTheorems, FiniteSetTheorems,
        WellFoundedInduction, TLAPS

Body == [binding : Binding, expires : Nat]
Judged == [state : {"judge"}, handle : Handle, binding : Binding,
           record : Body \cup {NoRecord}]
Gift == [handle : Handle, by : Consumer, at : Nat, binding : Binding,
         meant : Binding, expires : Nat]

\* The types of the handle service.
HandleTypeOK ==
    /\ clock \in Nat
    /\ records \in [Handle -> Body \cup {NoRecord}]
    /\ consumers \in [Consumer -> {Idle} \cup Judged]
    /\ given \subseteq Gift

\* Consumer c has the body of handle h in its hands.
Holds(c, h) ==
    consumers[c] # Idle /\ consumers[c].handle = h /\ consumers[c].record # NoRecord

\* The body of a handle is in one place: stored, in the hands of one consumer,
\* or given away.
InOnePlace ==
    /\ \A c \in Consumer, h \in Handle : Holds(c, h) => records[h] = NoRecord
    /\ \A c, d \in Consumer, h \in Handle : Holds(c, h) /\ Holds(d, h) => c = d
    /\ \A c \in Consumer : \A g \in given : ~Holds(c, g.handle)

HandleInv == HandleTypeOK /\ InOnePlace /\ GivenOnceInTime

HandleSpec == HandleInit /\ [][HandleNext]_handleVars

\* A waiting consumer is not one that judges.
LEMMA IdleIsNotJudging == Idle \notin Judged /\ Idle.state = "idle"
BY DEF Idle, Judged

\* A service that starts holds nothing and has given nothing.
LEMMA HandleStart == HandleInit => HandleInv
BY DEF HandleInit, HandleInv, HandleTypeOK, InOnePlace, GivenOnceInTime, Holds

\* issue: a new handle was in nobody's hands and was never given.
LEMMA IssueKeepsOnePlace ==
    ASSUME HandleInv, NEW h \in Handle, NEW b \in Binding, NEW at \in 0..clock, Issue(h, b, at)
    PROVE  HandleInv'
<1> USE DEF HandleInv, HandleTypeOK
<1>1. at + Ttl \in Nat
  BY TtlAssumption
<1>2. [binding |-> b, expires |-> at + Ttl] \in Body
  BY <1>1 DEF Body
<1>3. HandleTypeOK'
  BY <1>2 DEF Issue
<1>4. \A o \in Handle : o # h => records'[o] = records[o]
  BY DEF Issue
<1>5. \A c \in Consumer : ~(consumers[c] # Idle /\ consumers[c].handle = h)
  <2> TAKE c \in Consumer
  <2>1. consumers[c] # Idle => consumers[c].handle # h
    BY DEF Issue, Unissued
  <2> QED  BY <2>1
<1>6. \A c \in Consumer, o \in Handle : Holds(c, o)' = Holds(c, o)
  BY DEF Issue, Holds
<1>7. InOnePlace'
  BY <1>4, <1>5, <1>6 DEF InOnePlace, Holds, Issue
<1>8. GivenOnceInTime'
  BY <1>4 DEF GivenOnceInTime, Issue, Unissued, Gift
<1> QED  BY <1>3, <1>7, <1>8

\* consume, under the lock: the body moves from the store to the consumer.
LEMMA PresentKeepsOnePlace ==
    ASSUME HandleInv, NEW c \in Consumer, NEW h \in Handle, NEW b \in Binding,
           Present(c, h, b)
    PROVE  HandleInv'
<1> USE DEF HandleInv, HandleTypeOK
<1> DEFINE taken == [state |-> "judge", handle |-> h, binding |-> b, record |-> records[h]]
<1>1. taken \in Judged
  BY DEF Judged
<1>2. taken # Idle /\ taken.handle = h /\ taken.record = records[h]
  BY <1>1, IdleIsNotJudging
<1>3. consumers' = [consumers EXCEPT ![c] = taken]
  BY DEF Present
<1> HIDE DEF taken
<1>4. HandleTypeOK'
  BY <1>1, <1>3 DEF Present
<1>5. /\ \A d \in Consumer : d # c => consumers'[d] = consumers[d]
      /\ consumers'[c] = taken
  BY <1>3
<1>6. /\ \A o \in Handle : o # h => records'[o] = records[o]
      /\ records'[h] = NoRecord
  BY DEF Present
<1>7. \A d \in Consumer, o \in Handle : d # c => (Holds(d, o)' <=> Holds(d, o))
  BY <1>5 DEF Holds
<1>8. \A o \in Handle : Holds(c, o)' <=> (o = h /\ records[h] # NoRecord)
  BY <1>2, <1>5 DEF Holds
<1>9. given' = given
  BY DEF Present
<1>10. InOnePlace'
  <2>1. ASSUME NEW d \in Consumer, NEW o \in Handle, Holds(d, o)'
        PROVE  records'[o] = NoRecord
    BY <2>1, <1>6, <1>7, <1>8 DEF InOnePlace
  <2>2. ASSUME NEW d \in Consumer, NEW e \in Consumer, NEW o \in Handle,
               Holds(d, o)', Holds(e, o)'
        PROVE  d = e
    BY <2>2, <1>7, <1>8 DEF InOnePlace
  <2>3. ASSUME NEW d \in Consumer, NEW g \in given'
        PROVE  ~Holds(d, g.handle)'
    <3>1. g \in given /\ g.handle \in Handle
      BY <1>9 DEF Gift
    <3>2. records[g.handle] = NoRecord
      BY <3>1 DEF GivenOnceInTime
    <3> QED  BY <3>1, <3>2, <1>7, <1>8 DEF InOnePlace
  <2> QED  BY <2>1, <2>2, <2>3 DEF InOnePlace
<1>11. GivenOnceInTime'
  BY <1>6, <1>9 DEF GivenOnceInTime, Gift
<1> QED  BY <1>4, <1>10, <1>11

\* consume, after the lock: a body that is accepted is given, and held no longer.
LEMMA JudgeKeepsOnePlace ==
    ASSUME HandleInv, NEW c \in Consumer, Judge(c)
    PROVE  HandleInv'
<1> USE DEF HandleInv, HandleTypeOK
<1> DEFINE held == consumers[c]
           gift == [handle |-> held.handle, by |-> c, at |-> clock,
                    binding |-> held.binding, meant |-> held.record.binding,
                    expires |-> held.record.expires]
<1>1. held \in Judged /\ held # Idle
  BY IdleIsNotJudging DEF Judge
<1>2. /\ \A d \in Consumer : d # c => consumers'[d] = consumers[d]
      /\ consumers'[c] = Idle
      /\ records' = records /\ clock' = clock
  BY DEF Judge
<1>3. \A d \in Consumer, o \in Handle : Holds(d, o)' <=> (d # c /\ Holds(d, o))
  BY <1>2 DEF Holds
<1>4. consumers' \in [Consumer -> {Idle} \cup Judged]
  BY DEF Judge
<1>5. CASE Accepts(held)
  <2>1. held.record \in Body /\ held.record # NoRecord
    BY <1>1, <1>5 DEF Judged, Accepts
  <2>2. given' = given \cup {gift}
    BY <1>5 DEF Judge
  <2>3. gift \in Gift
    BY <1>1, <2>1 DEF Judged, Gift, Body
  <2>4. /\ gift.handle = held.handle
        /\ gift.binding = gift.meant
        /\ gift.at < gift.expires
    BY <1>5 DEF Accepts
  <2>5. held.handle \in Handle /\ Holds(c, held.handle)
    BY <1>1, <2>1 DEF Holds, Judged
  <2> HIDE DEF held, gift
  <2>6. records[gift.handle] = NoRecord
    BY <2>4, <2>5 DEF InOnePlace
  <2>7. \A g \in given : g.handle # gift.handle
    BY <2>4, <2>5 DEF InOnePlace
  <2>8. HandleTypeOK'
    BY <1>2, <1>4, <2>2, <2>3
  <2>9. InOnePlace'
    <3>1. \A d \in Consumer, o \in Handle : o = gift.handle => ~Holds(d, o)'
      BY <1>3, <2>4, <2>5 DEF InOnePlace
    <3>2. \A g \in given : g.handle \in Handle
      BY DEF Gift
    <3>3. ASSUME NEW d \in Consumer, NEW g \in given'
          PROVE  ~Holds(d, g.handle)'
      <4>1. CASE g \in given
        BY <4>1, <1>3, <3>2 DEF InOnePlace
      <4>2. CASE g = gift
        BY <4>2, <3>1, <2>4, <2>5
      <4> QED  BY <2>2, <4>1, <4>2
    <3> QED  BY <1>2, <1>3, <3>3 DEF InOnePlace
  <2>10. GivenOnceInTime'
    BY <1>2, <2>2, <2>4, <2>6, <2>7 DEF GivenOnceInTime
  <2> QED  BY <2>8, <2>9, <2>10
<1>6. CASE ~Accepts(held)
  <2>1. given' = given
    BY <1>6 DEF Judge
  <2>2. \A g \in given : g.handle \in Handle
    BY DEF Gift
  <2>3. InOnePlace'
    BY <1>2, <1>3, <2>1, <2>2 DEF InOnePlace
  <2>4. GivenOnceInTime'
    BY <1>2, <2>1 DEF GivenOnceInTime
  <2> QED  BY <1>2, <1>4, <2>1, <2>3, <2>4
<1> QED  BY <1>5, <1>6

\* The scheduler and close only erase bodies that are stored.
LEMMA ErasureKeepsOnePlace ==
    ASSUME HandleInv, UNCHANGED <<clock, consumers, given>>,
           records' \in [Handle -> Body \cup {NoRecord}],
           \A h \in Handle : records'[h] \in {records[h], NoRecord}
    PROVE  HandleInv'
<1> USE DEF HandleInv, HandleTypeOK
<1>1. HandleTypeOK'
  OBVIOUS
<1>2. \A c \in Consumer, h \in Handle : Holds(c, h)' <=> Holds(c, h)
  BY DEF Holds
<1>3. \A g \in given : g.handle \in Handle
  BY DEF Gift
<1>4. InOnePlace'
  BY <1>2, <1>3 DEF InOnePlace
<1>5. GivenOnceInTime'
  BY <1>3 DEF GivenOnceInTime
<1> QED  BY <1>1, <1>4, <1>5

\* Every step of the handle service keeps the body of a handle in one place.
LEMMA HandleStep == HandleInv /\ [HandleNext]_handleVars => HandleInv'
<1> SUFFICES ASSUME HandleInv, [HandleNext]_handleVars
             PROVE  HandleInv'
  OBVIOUS
<1>1. CASE \E h \in Handle, b \in Binding, at \in 0..clock : Issue(h, b, at)
  BY <1>1, IssueKeepsOnePlace
<1>2. CASE \E c \in Consumer, h \in Handle, b \in Binding : Present(c, h, b)
  BY <1>2, PresentKeepsOnePlace
<1>3. CASE \E c \in Consumer : Judge(c)
  BY <1>3, JudgeKeepsOnePlace
<1>4. records \in [Handle -> Body \cup {NoRecord}]
  BY DEF HandleInv, HandleTypeOK
<1>5. CASE SchedulerTurn
  <2>1. UNCHANGED <<clock, consumers, given>>
    BY <1>5 DEF SchedulerTurn
  <2>2. records' = records \/ records' = [records EXCEPT ![First[2]] = NoRecord]
    BY <1>5 DEF SchedulerTurn
  <2>3. /\ records' \in [Handle -> Body \cup {NoRecord}]
        /\ \A h \in Handle : records'[h] \in {records[h], NoRecord}
    BY <1>4, <2>2
  <2> QED  BY <2>1, <2>3, ErasureKeepsOnePlace
<1>6. CASE SchedulerWakes \/ Advance
  <2>1. records' = records /\ UNCHANGED <<consumers, given>> /\ clock' \in Nat
    BY <1>6 DEF SchedulerWakes, Advance, HandleInv, HandleTypeOK
  <2> QED
    BY <2>1 DEF HandleInv, HandleTypeOK, InOnePlace, Holds, GivenOnceInTime
<1>7. CASE Close
  <2>1. UNCHANGED <<clock, consumers, given>>
    BY <1>7 DEF Close
  <2>2. /\ records' \in [Handle -> Body \cup {NoRecord}]
        /\ \A h \in Handle : records'[h] \in {records[h], NoRecord}
    BY <1>7 DEF Close
  <2> QED  BY <2>1, <2>2, ErasureKeepsOnePlace
<1>8. CASE UNCHANGED handleVars
  BY <1>8 DEF handleVars, HandleInv, HandleTypeOK, InOnePlace, Holds, GivenOnceInTime
<1> QED
  BY <1>1, <1>2, <1>3, <1>5, <1>6, <1>7, <1>8 DEF HandleNext

\* One-time handles, for any number of handles, consumers and bindings, any
\* time to live and any number of clock steps: the body of a handle is given to
\* at most one consumer, with the binding it was issued for, before its expiry
\* (KnowledgeContextHandleService.consume).
THEOREM HandlesAreGivenOnce == HandleSpec => []GivenOnceInTime
<1>1. HandleInit => HandleInv
  BY HandleStart
<1>2. HandleInv /\ [HandleNext]_handleVars => HandleInv'
  BY HandleStep
<1>3. HandleInv => GivenOnceInTime
  BY DEF HandleInv
<1> QED  BY <1>1, <1>2, <1>3, PTL DEF HandleSpec
-----------------------------------------------------------------------------
(* The governed assemblies.                                                *)

\* What a finished invocation may not be: successful without the knowledge the
\* Agent requires.
InvokedWithKnowledge(s, r) ==
    s = "invoke" /\ r.status = "ok" /\ Required => r.knowledge # {}

\* The stages follow one another, and each has its own result.
AssemblyInv ==
    /\ stage \in {"route", "dispatch", "invoke"}
    /\ DOMAIN results = {"route", "dispatch", "invoke"}
    /\ RequiredKnowledgeArrives

\* Stages is the list of these three.
LEMMA ThreeStages == ToSet(Stages) = {"route", "dispatch", "invoke"}
<1>1. DOMAIN Stages = 1..3 /\ Stages[1] = "route" /\ Stages[2] = "dispatch" /\ Stages[3] = "invoke"
  BY DEF Stages
<1>2. ToSet(Stages) = {Stages[1], Stages[2], Stages[3]}
  BY <1>1 DEF ToSet
<1> QED  BY <1>1, <1>2

\* What was retrieved, selected and cut to fit decides the refusal: a required
\* knowledge that is not in the input that is sent makes the status another than ok.
LEMMA AgentResultSays == InvokedWithKnowledge("invoke", AgentResult("invoke"))
<1> DEFINE sel == AssembleCandidates(Collected, now, AgentTokens, "invoke")
           summary == MemorySummary(sel, "invoke")
           fit == Fitting(BySource(sel, "memory"), BySource(sel, "knowledge"),
                          summary \cup BySource(sel, "knowledge"))
           refusal == KnowledgeRefusal(KnowledgeStatus, fit[2])
           status == IF ~sel.ok THEN "context_budget_exhausted"
                     ELSE IF refusal = "no" THEN "ok" ELSE refusal
<1>1. AgentResult("invoke") = Result(status, sel, fit[1], fit[2], summary)
  BY DEF AgentResult
<1> HIDE DEF sel, summary, fit
<1>2. /\ AgentResult("invoke").status = status
      /\ AgentResult("invoke").knowledge = fit[2]
  BY <1>1 DEF Result
<1>3. refusal = "no" /\ Required => fit[2] # {}
  BY DEF KnowledgeRefusal
<1>4. refusal # "ok"
  BY DEF KnowledgeRefusal
<1>5. status = "ok" => refusal = "no"
  BY <1>4
<1> QED  BY <1>2, <1>3, <1>5 DEF InvokedWithKnowledge

\* Every step of an assembly keeps its invariant: only Assemble ends a stage, and
\* the world of a request does not change.
LEMMA AssemblyStep == AssemblyInv /\ [CtxNext]_ctxVars => AssemblyInv'
<1> SUFFICES ASSUME AssemblyInv, [CtxNext]_ctxVars PROVE AssemblyInv'
  OBVIOUS
<1>1. CASE \/ \E p \in DOMAIN got : Collect(p)
           \/ \E p \in DOMAIN got, f \in Failures : CollectFails(p, f)
           \/ Tick
           \/ UNCHANGED ctxVars
  <2>1. UNCHANGED <<world, stage, results>>
    BY <1>1 DEF Collect, CollectFails, Tick, ctxVars
  <2> QED
    BY <2>1 DEF AssemblyInv, RequiredKnowledgeArrives, Required
<1>2. CASE Proceed
  <2>1. UNCHANGED <<world, results>> /\ stage' \in {"dispatch", "invoke"}
    BY <1>2 DEF Proceed, NextStage
  <2> QED
    BY <2>1 DEF AssemblyInv, RequiredKnowledgeArrives, Required
<1>3. CASE Assemble
  <2> DEFINE new == IF stage = "route" THEN RouteResult ELSE AgentResult(stage)
  <2>1. results' = [results EXCEPT ![stage] = new] /\ UNCHANGED <<world, stage>>
    BY <1>3 DEF Assemble
  <2>2. DOMAIN results' = {"route", "dispatch", "invoke"} /\ results'[stage] = new
    BY <2>1 DEF AssemblyInv
  <2>3. stage # "invoke" => results'["invoke"] = results["invoke"]
    BY <2>1 DEF AssemblyInv
  <2>4. stage = "invoke" => new = AgentResult("invoke")
    OBVIOUS
  <2> HIDE DEF new
  <2>5. stage = "invoke" => InvokedWithKnowledge("invoke", results'["invoke"])
    BY <2>2, <2>4, AgentResultSays
  <2>6. Required' <=> Required
    BY <2>1 DEF Required
  <2>7. RequiredKnowledgeArrives'
    BY <2>3, <2>5, <2>6 DEF AssemblyInv, RequiredKnowledgeArrives, InvokedWithKnowledge
  <2> QED  BY <2>1, <2>2, <2>7 DEF AssemblyInv
<1> QED
  BY <1>1, <1>2, <1>3 DEF CtxNext

\* Required knowledge, whatever a request finds, whatever fails, times out or is
\* cut and however long it takes: an Agent that declares its knowledge required is
\* invoked only with an item of it in the input that is really sent
\* (AgentContextAssemblyService._enforce_knowledge_requirement).
THEOREM RequiredKnowledgeAlwaysArrives == CtxSpec => []RequiredKnowledgeArrives
<1>1. CtxInit => AssemblyInv
  BY ThreeStages DEF CtxInit, AssemblyInv, RequiredKnowledgeArrives, NoResult
<1>2. AssemblyInv /\ [CtxNext]_ctxVars => AssemblyInv'
  BY AssemblyStep
<1>3. AssemblyInv => RequiredKnowledgeArrives
  BY DEF AssemblyInv
<1> QED  BY <1>1, <1>2, <1>3, PTL DEF CtxSpec
-----------------------------------------------------------------------------
(* Order.                                                                  *)

\* What can be sorted: critical or not, with four numbers.
Sortable(S) ==
    /\ IsFiniteSet(S)
    /\ \A c \in S : c.must \in BOOLEAN /\ c.rank \in Int /\ c.prio \in Int /\ c.rel \in Int /\ c.id \in Int
    /\ \A c, d \in S : c.id = d.id => c = d

\* The order is lexicographic.
LEMMA BeforeSays ==
    ASSUME NEW a, NEW b, NEW x \in {0, 1}, x = (IF a.must THEN 0 ELSE 1),
           NEW y \in {0, 1}, y = (IF b.must THEN 0 ELSE 1)
    PROVE  Before(a, b) <=>
           \/ x < y
           \/ x = y /\ a.rank < b.rank
           \/ x = y /\ a.rank = b.rank /\ (-a.prio) < (-b.prio)
           \/ x = y /\ a.rank = b.rank /\ (-a.prio) = (-b.prio) /\ (-a.rel) < (-b.rel)
           \/ x = y /\ a.rank = b.rank /\ (-a.prio) = (-b.prio) /\ (-a.rel) = (-b.rel) /\ a.id < b.id
<1> DEFINE A == SortKey(a)
           B == SortKey(b)
<1>1. A[1] = x /\ A[2] = a.rank /\ A[3] = -a.prio /\ A[4] = -a.rel /\ A[5] = a.id
  BY DEF SortKey
<1>2. B[1] = y /\ B[2] = b.rank /\ B[3] = -b.prio /\ B[4] = -b.rel /\ B[5] = b.id
  BY DEF SortKey
<1>3. Before(a, b) <=> \E i \in 1..5 : A[i] < B[i] /\ \A j \in 1..(i - 1) : A[j] = B[j]
  BY DEF Before
<1> HIDE DEF A, B
<1> DEFINE At(i) == A[i] < B[i] /\ \A j \in 1..(i - 1) : A[j] = B[j]
<1>4. 1..5 = {1, 2, 3, 4, 5}
  OBVIOUS
<1>5. Before(a, b) <=> At(1) \/ At(2) \/ At(3) \/ At(4) \/ At(5)
  <2> HIDE DEF At
  <2>1. Before(a, b) <=> \E i \in {1, 2, 3, 4, 5} : At(i)
    BY <1>3, <1>4 DEF At
  <2> QED  BY <2>1
<1>6. /\ 1..0 = {} /\ 1..1 = {1} /\ 1..2 = {1, 2} /\ 1..3 = {1, 2, 3} /\ 1..4 = {1, 2, 3, 4}
  OBVIOUS
<1>7. /\ At(1) <=> A[1] < B[1]
      /\ At(2) <=> A[2] < B[2] /\ A[1] = B[1]
      /\ At(3) <=> A[3] < B[3] /\ A[1] = B[1] /\ A[2] = B[2]
      /\ At(4) <=> A[4] < B[4] /\ A[1] = B[1] /\ A[2] = B[2] /\ A[3] = B[3]
      /\ At(5) <=> A[5] < B[5] /\ A[1] = B[1] /\ A[2] = B[2] /\ A[3] = B[3] /\ A[4] = B[4]
  BY <1>6
<1> HIDE DEF At
<1> QED  BY <1>1, <1>2, <1>5, <1>7

\* It is a strict order, total where names differ.
LEMMA StrictOrder ==
    ASSUME NEW S, Sortable(S), NEW a \in S, NEW b \in S, NEW c \in S
    PROVE  /\ ~Before(a, a)
           /\ Before(a, b) /\ Before(b, c) => Before(a, c)
           /\ a # b => Before(a, b) \/ Before(b, a)
           /\ Before(a, b) /\ b.must => a.must
<1>1. PICK x \in {0, 1} : x = (IF a.must THEN 0 ELSE 1)
  OBVIOUS
<1>2. PICK y \in {0, 1} : y = (IF b.must THEN 0 ELSE 1)
  OBVIOUS
<1>3. PICK z \in {0, 1} : z = (IF c.must THEN 0 ELSE 1)
  OBVIOUS
<1>4. /\ a.rank \in Int /\ a.prio \in Int /\ a.rel \in Int /\ a.id \in Int
      /\ b.rank \in Int /\ b.prio \in Int /\ b.rel \in Int /\ b.id \in Int
      /\ c.rank \in Int /\ c.prio \in Int /\ c.rel \in Int /\ c.id \in Int
  BY DEF Sortable
<1>5. a.id = b.id => a = b
  BY DEF Sortable
<1>6. ~Before(a, a)
  BY <1>1, <1>4, BeforeSays
<1>7. Before(a, b) <=>
           \/ x < y
           \/ x = y /\ a.rank < b.rank
           \/ x = y /\ a.rank = b.rank /\ (-a.prio) < (-b.prio)
           \/ x = y /\ a.rank = b.rank /\ (-a.prio) = (-b.prio) /\ (-a.rel) < (-b.rel)
           \/ x = y /\ a.rank = b.rank /\ (-a.prio) = (-b.prio) /\ (-a.rel) = (-b.rel) /\ a.id < b.id
  BY <1>1, <1>2, BeforeSays
<1>8. Before(b, a) <=>
           \/ y < x
           \/ y = x /\ b.rank < a.rank
           \/ y = x /\ b.rank = a.rank /\ (-b.prio) < (-a.prio)
           \/ y = x /\ b.rank = a.rank /\ (-b.prio) = (-a.prio) /\ (-b.rel) < (-a.rel)
           \/ y = x /\ b.rank = a.rank /\ (-b.prio) = (-a.prio) /\ (-b.rel) = (-a.rel) /\ b.id < a.id
  BY <1>1, <1>2, BeforeSays
<1>9. Before(b, c) <=>
           \/ y < z
           \/ y = z /\ b.rank < c.rank
           \/ y = z /\ b.rank = c.rank /\ (-b.prio) < (-c.prio)
           \/ y = z /\ b.rank = c.rank /\ (-b.prio) = (-c.prio) /\ (-b.rel) < (-c.rel)
           \/ y = z /\ b.rank = c.rank /\ (-b.prio) = (-c.prio) /\ (-b.rel) = (-c.rel) /\ b.id < c.id
  BY <1>2, <1>3, BeforeSays
<1>10. Before(a, c) <=>
           \/ x < z
           \/ x = z /\ a.rank < c.rank
           \/ x = z /\ a.rank = c.rank /\ (-a.prio) < (-c.prio)
           \/ x = z /\ a.rank = c.rank /\ (-a.prio) = (-c.prio) /\ (-a.rel) < (-c.rel)
           \/ x = z /\ a.rank = c.rank /\ (-a.prio) = (-c.prio) /\ (-a.rel) = (-c.rel) /\ a.id < c.id
  BY <1>1, <1>3, BeforeSays
<1>11. Before(a, b) /\ Before(b, c) => Before(a, c)
  BY <1>4, <1>7, <1>9, <1>10
<1>12. a # b => Before(a, b) \/ Before(b, a)
  BY <1>4, <1>5, <1>7, <1>8
<1>13. Before(a, b) /\ b.must => a.must
  BY <1>1, <1>2, <1>7
<1> QED  BY <1>6, <1>11, <1>12, <1>13

\* The candidates that come before c.
Ahead(S, c) == {d \in S : Before(d, c)}

\* What is ahead of a candidate is ahead of those behind it, and so has fewer.
LEMMA Ranks ==
    ASSUME NEW S, Sortable(S), NEW a \in S, NEW b \in S
    PROVE  /\ Cardinality(Ahead(S, a)) \in 0..(Cardinality(S) - 1)
           /\ Before(a, b) => Cardinality(Ahead(S, a)) < Cardinality(Ahead(S, b))
           /\ Cardinality(Ahead(S, a)) = Cardinality(Ahead(S, b)) => a = b
<1>1. IsFiniteSet(S)
  BY DEF Sortable
<1>2. ASSUME NEW c \in S
      PROVE  /\ IsFiniteSet(Ahead(S, c)) /\ Ahead(S, c) \in SUBSET S /\ c \notin Ahead(S, c)
             /\ Cardinality(Ahead(S, c)) \in Nat
  <2>1. Ahead(S, c) \in SUBSET S
    BY DEF Ahead
  <2>2. IsFiniteSet(Ahead(S, c))
    BY <1>1, <2>1, FS_Subset
  <2>3. c \notin Ahead(S, c)
    BY StrictOrder DEF Ahead
  <2> QED  BY <2>1, <2>2, <2>3, FS_CardinalityType
<1>3. ASSUME NEW c \in S, NEW T, IsFiniteSet(T), Ahead(S, c) \subseteq T, T # Ahead(S, c)
      PROVE  Cardinality(Ahead(S, c)) < Cardinality(T)
  <2>1. Cardinality(Ahead(S, c)) <= Cardinality(T) /\ Cardinality(Ahead(S, c)) # Cardinality(T)
    BY <1>3, FS_Subset
  <2>2. Cardinality(Ahead(S, c)) \in Nat /\ Cardinality(T) \in Nat
    BY <1>2, <1>3, FS_CardinalityType
  <2> QED  BY <2>1, <2>2
<1>4. ASSUME NEW c \in S, NEW d \in S, Before(c, d)
      PROVE  Cardinality(Ahead(S, c)) < Cardinality(Ahead(S, d))
  <2>1. Ahead(S, c) \subseteq Ahead(S, d)
    BY <1>4, StrictOrder DEF Ahead
  <2>2. c \in Ahead(S, d) /\ c \notin Ahead(S, c)
    BY <1>2, <1>4 DEF Ahead
  <2>3. IsFiniteSet(Ahead(S, d)) /\ Ahead(S, d) # Ahead(S, c)
    BY <1>2, <2>2
  <2> QED  BY <1>3, <2>1, <2>3
<1>5. Cardinality(Ahead(S, a)) < Cardinality(S)
  BY <1>1, <1>2, <1>3
<1>6. Cardinality(Ahead(S, a)) \in 0..(Cardinality(S) - 1)
  BY <1>1, <1>2, <1>5, FS_CardinalityType
<1>7. Cardinality(Ahead(S, a)) = Cardinality(Ahead(S, b)) => a = b
  <2> SUFFICES ASSUME a # b PROVE Cardinality(Ahead(S, a)) # Cardinality(Ahead(S, b))
    OBVIOUS
  <2>1. Before(a, b) \/ Before(b, a)
    BY StrictOrder
  <2>2. Cardinality(Ahead(S, a)) \in Nat /\ Cardinality(Ahead(S, b)) \in Nat
    BY <1>2
  <2> QED  BY <1>4, <2>1, <2>2
<1> QED  BY <1>4, <1>6, <1>7

\* The ranks are the numbers from 0.
LEMMA EveryRank ==
    ASSUME NEW S, Sortable(S), NEW i \in 1..Cardinality(S)
    PROVE  \E c \in S : Cardinality(Ahead(S, c)) = i - 1
<1> DEFINE n == Cardinality(S)
           rank == [c \in S |-> Cardinality(Ahead(S, c))]
<1>1. IsFiniteSet(S) /\ n \in Nat
  BY FS_CardinalityType DEF Sortable
<1>2. IsFiniteSet(0..(n - 1)) /\ Cardinality(0..(n - 1)) = n
  <2>1. n - 1 \in Int /\ 0 \in Int
    BY <1>1
  <2>2. Cardinality(0..(n - 1)) = IF 0 > n - 1 THEN 0 ELSE (n - 1) - 0 + 1
    BY <2>1, FS_Interval
  <2>3. IsFiniteSet(0..(n - 1))
    BY <2>1, FS_Interval
  <2> HIDE DEF n
  <2> QED  BY <1>1, <2>2, <2>3
<1>3. rank \in Injection(S, 0..(n - 1))
  BY Ranks DEF Injection, IsInjective
<1>4. rank \in Surjection(S, 0..(n - 1))
  BY <1>2, <1>3, FS_Injection
<1>5. i - 1 \in 0..(n - 1)
  BY <1>1
<1> QED  BY <1>4, <1>5 DEF Surjection

\* Sorted lists every candidate once, and nothing comes after what it precedes.
LEMMA SortedLists ==
    ASSUME NEW S, Sortable(S)
    PROVE  /\ Sorted(S) \in Seq(S)
           /\ DOMAIN Sorted(S) = 1..Cardinality(S) /\ Cardinality(S) \in Nat
           /\ \A i \in 1..Cardinality(S) : Sorted(S)[i] \in S
           /\ \A c \in S : \E i \in 1..Cardinality(S) : Sorted(S)[i] = c
           /\ \A i, j \in 1..Cardinality(S) :
                i < j => Sorted(S)[i] # Sorted(S)[j] /\ Before(Sorted(S)[i], Sorted(S)[j])
<1> DEFINE n == Cardinality(S)
           Nth(i) == CHOOSE c \in S : Cardinality(Ahead(S, c)) = i - 1
<1>1. Sorted(S) = [i \in 1..n |-> Nth(i)]
  BY DEF Sorted, Ahead
<1>2. n \in Nat
  BY FS_CardinalityType DEF Sortable
<1>3. \A i \in 1..n : Nth(i) \in S /\ Cardinality(Ahead(S, Nth(i))) = i - 1
  BY EveryRank
<1>4. \A i \in 1..n : Sorted(S)[i] \in S /\ Cardinality(Ahead(S, Sorted(S)[i])) = i - 1
  BY <1>1, <1>3
<1>5. \A c \in S : \E i \in 1..n : Sorted(S)[i] = c
  <2> SUFFICES ASSUME NEW c \in S PROVE \E i \in 1..n : Sorted(S)[i] = c
    OBVIOUS
  <2>1. Cardinality(Ahead(S, c)) \in 0..(n - 1)
    BY Ranks
  <2>2. PICK i \in 1..n : i = Cardinality(Ahead(S, c)) + 1
    BY <1>2, <2>1
  <2>3. Cardinality(Ahead(S, c)) = i - 1
    BY <2>1, <2>2
  <2>4. Sorted(S)[i] = c
    BY <1>4, <2>3, Ranks
  <2> QED  BY <2>4
<1>6. ASSUME NEW i \in 1..n, NEW j \in 1..n, i < j
      PROVE  Sorted(S)[i] # Sorted(S)[j] /\ Before(Sorted(S)[i], Sorted(S)[j])
  <2> DEFINE a == Sorted(S)[i]
             b == Sorted(S)[j]
  <2>1. a \in S /\ b \in S /\ Cardinality(Ahead(S, a)) = i - 1 /\ Cardinality(Ahead(S, b)) = j - 1
    BY <1>4
  <2> HIDE DEF a, b
  <2>2. i - 1 < j - 1 /\ i - 1 # j - 1
    BY <1>2, <1>6
  <2>3. a # b
    BY <2>1, <2>2
  <2>4. Before(a, b) \/ Before(b, a)
    BY <2>1, <2>3, StrictOrder
  <2>5. ~Before(b, a)
    <3> SUFFICES ASSUME Before(b, a) PROVE FALSE
      OBVIOUS
    <3>1. Cardinality(Ahead(S, b)) < Cardinality(Ahead(S, a))
      BY <2>1, Ranks
    <3> QED  BY <1>2, <1>6, <2>1, <3>1
  <2> QED  BY <2>3, <2>4, <2>5 DEF a, b
<1>7. Sorted(S) \in Seq(S) /\ DOMAIN Sorted(S) = 1..n
  <2>1. \A i \in 1..n : Nth(i) \in S
    BY <1>3
  <2> HIDE DEF Nth
  <2>2. [i \in 1..n |-> Nth(i)] \in [1..n -> S]
    BY <2>1
  <2>3. [i \in 1..n |-> Nth(i)] \in Seq(S)
    BY <1>2, <2>2
  <2> QED  BY <1>1, <2>2, <2>3
<1> QED  BY <1>2, <1>4, <1>5, <1>6, <1>7
-----------------------------------------------------------------------------
(* Folds.                                                                  *)

\* A fold over the subsets of a finite set, whatever element it takes next: F is
\* the step, Pick the choice.
Folds(g, D, base, F, Pick) ==
    \A s \in SUBSET D : g[s] = IF s = {} THEN base ELSE F[<<g[s \ {Pick[s]}], Pick[s]>>]

\* There is one.
LEMMA FoldExists ==
    ASSUME NEW D, IsFiniteSet(D), NEW A, NEW base \in A, NEW F \in [A \X D -> A],
           NEW Pick, \A s \in SUBSET D : s # {} => Pick[s] \in s
    PROVE  \E g \in [SUBSET D -> A] : Folds(g, D, base, F, Pick)
<1> DEFINE Eq(g, s) == g[s] = IF s = {} THEN base ELSE F[<<g[s \ {Pick[s]}], Pick[s]>>]
           UpTo(k, g) == \A s \in SUBSET D : Cardinality(s) <= k => Eq(g, s)
           Bad == {k \in Nat : ~\E g \in [SUBSET D -> A] : UpTo(k, g)}
<1>1. \A s \in SUBSET D : IsFiniteSet(s) /\ Cardinality(s) \in Nat /\ Cardinality(s) <= Cardinality(D)
  BY FS_Subset, FS_CardinalityType
<1>2. 0 \notin Bad
  <2> DEFINE g == [s \in SUBSET D |-> base]
  <2>1. g \in [SUBSET D -> A]
    OBVIOUS
  <2>2. \A s \in SUBSET D : Cardinality(s) <= 0 => s = {}
    BY <1>1, FS_EmptySet
  <2>3. Eq(g, {})
    OBVIOUS
  <2>4. UpTo(0, g)
    <3> HIDE DEF g, Eq
    <3> QED  BY <2>2, <2>3
  <2> HIDE DEF g, UpTo
  <2> QED  BY <2>1, <2>4
<1>3. ASSUME NEW k \in Nat, k \notin Bad PROVE k + 1 \notin Bad
  <2>1. PICK f \in [SUBSET D -> A] : UpTo(k, f)
    BY <1>3
  <2> DEFINE g == [s \in SUBSET D |-> IF s = {} THEN base ELSE F[<<f[s \ {Pick[s]}], Pick[s]>>]]
  <2>2. \A s \in SUBSET D : s # {} => Pick[s] \in s /\ Pick[s] \in D /\ s \ {Pick[s]} \in SUBSET D
    OBVIOUS
  <2>3. g \in [SUBSET D -> A]
    BY <2>2
  <2>4. ASSUME NEW s \in SUBSET D, Cardinality(s) <= k + 1 PROVE Eq(g, s)
    <3>1. CASE s = {}
      BY <3>1
    <3>2. CASE s # {}
      <4> DEFINE t == s \ {Pick[s]}
      <4>1. t \in SUBSET D /\ Cardinality(t) = Cardinality(s) - 1
        BY <1>1, <2>2, <3>2, FS_RemoveElement
      <4>2. Cardinality(t) <= k
        BY <1>1, <2>4, <4>1
      <4>3. Eq(f, t)
        BY <2>1, <4>1, <4>2
      <4>4. g[t] = f[t]
        BY <4>1, <4>3
      <4>5. g[s] = F[<<f[t], Pick[s]>>]
        BY <3>2
      <4> QED  BY <3>2, <4>4, <4>5
    <3> QED  BY <3>1, <3>2
  <2> HIDE DEF g, Eq
  <2>5. UpTo(k + 1, g)
    BY <2>4
  <2> HIDE DEF UpTo
  <2> QED  BY <2>3, <2>5
<1>4. Bad = {}
  <2> SUFFICES ASSUME Bad # {} PROVE FALSE
    OBVIOUS
  <2> HIDE DEF UpTo
  <2>1. PICK k \in Bad : \A j \in Bad : ~(<<j, k>> \in OpToRel(<, Nat))
    BY WFMin, NatLessThanWellFounded
  <2>2. k \in Nat /\ k # 0
    BY <1>2
  <2>3. k - 1 \in Nat /\ (k - 1) + 1 = k /\ <<k - 1, k>> \in OpToRel(<, Nat)
    BY <2>2 DEF OpToRel
  <2>4. k - 1 \notin Bad
    BY <2>1, <2>3
  <2> HIDE DEF Bad
  <2> QED  BY <1>3, <2>3, <2>4
<1>5. PICK g \in [SUBSET D -> A] : UpTo(Cardinality(D), g)
  <2>1. Cardinality(D) \in Nat
    BY FS_CardinalityType
  <2> HIDE DEF UpTo
  <2> QED  BY <1>4, <2>1
<1> QED  BY <1>1, <1>5 DEF Folds

\* A nonempty set of positions has a last one.
LEMMA LastOf ==
    ASSUME NEW n \in Nat, NEW s \in SUBSET (1..n), s # {}
    PROVE  Max(s) \in s /\ \A i \in s : i <= Max(s)
<1> DEFINE T == {k \in Nat : \E i \in s : k = n - i}
<1>1. T # {} /\ T \subseteq Nat
  <2>1. PICK i \in s : i \in 1..n
    OBVIOUS
  <2>2. n - i \in Nat
    BY <2>1
  <2>3. n - i \in T
    BY <2>2
  <2> QED  BY <2>3
<1>2. PICK k \in T : \A j \in T : ~(<<j, k>> \in OpToRel(<, Nat))
  BY <1>1, WFMin, NatLessThanWellFounded
<1>3. PICK m \in s : k = n - m
  OBVIOUS
<1>4. \A i \in s : m >= i
  <2> SUFFICES ASSUME NEW i \in s PROVE ~(m < i)
    OBVIOUS
  <2>1. n - i \in T /\ n - i \in Nat /\ k \in Nat
    OBVIOUS
  <2>2. ~(n - i < k)
    BY <1>2, <2>1 DEF OpToRel
  <2> QED  BY <1>3, <2>2
<1>5. Max(s) \in s /\ \A i \in s : Max(s) >= i
  BY <1>4 DEF Max
<1> QED  BY <1>5

\* The first positions, and the last of them.
LEMMA FirstPositions ==
    ASSUME NEW n \in Nat, NEW i \in 1..n
    PROVE  /\ 1..i \in SUBSET (1..n) /\ 1..i # {}
           /\ Max(1..i) = i /\ (1..i) \ {i} = 1..(i - 1)
<1>1. 1..i \in SUBSET (1..n) /\ 1..i # {} /\ i \in 1..i /\ (1..i) \ {i} = 1..(i - 1)
  OBVIOUS
<1>2. Max(1..i) \in 1..i /\ i <= Max(1..i)
  BY <1>1, LastOf
<1> QED  BY <1>1, <1>2

\* A fold from left to right over positions.
RightFolds(g, n, base, F) ==
    \A s \in SUBSET (1..n) : g[s] = IF s = {} THEN base ELSE F[<<g[s \ {Max(s)}], Max(s)>>]

\* There is one.
LEMMA FoldToTheRight ==
    ASSUME NEW n \in Nat, NEW A, NEW base \in A, NEW F \in [A \X (1..n) -> A]
    PROVE  \E g \in [SUBSET (1..n) -> A] : RightFolds(g, n, base, F)
<1> DEFINE LastIn == [s \in SUBSET (1..n) |-> Max(s)]
<1>1. \A s \in SUBSET (1..n) : s # {} => LastIn[s] \in s
  BY LastOf
<1>2. IsFiniteSet(1..n)
  BY FS_Interval
<1>3. PICK g \in [SUBSET (1..n) -> A] : Folds(g, 1..n, base, F, LastIn)
  <2> HIDE DEF LastIn
  <2> QED  BY <1>1, <1>2, FoldExists
<1> QED  BY <1>3 DEF Folds, RightFolds

\* What has been kept after each candidate of a sequence.
LEMMA KeepsInTurn ==
    ASSUME NEW S, NEW q \in Seq(S)
    PROVE  \E h : /\ h[0] = <<>>
                  /\ \A i \in 1..Len(q) : h[i] = Keep(h[i - 1], q[i])
                  /\ FoldLeft(Keep, <<>>, q) = h[Len(q)]
<1> DEFINE n == Len(q)
           F == [p \in Seq(S) \X (1..n) |-> Keep(p[1], q[p[2]])]
           Solves(g) == g = [s \in SUBSET DOMAIN q |->
                           IF s = {} THEN <<>> ELSE Keep(g[s \ {Max(s)}], q[Max(s)])]
           it == CHOOSE g : Solves(g)
<1>1. n \in Nat /\ DOMAIN q = 1..n /\ \A i \in 1..n : q[i] \in S
  OBVIOUS
<1>2. \A k \in Seq(S), c \in S : Keep(k, c) \in Seq(S)
  BY AppendProperties DEF Keep
<1>3. F \in [Seq(S) \X (1..n) -> Seq(S)] /\ <<>> \in Seq(S)
  BY <1>1, <1>2
<1>4. \A k \in Seq(S), i \in 1..n : F[<<k, i>>] = Keep(k, q[i])
  OBVIOUS
<1> HIDE DEF F, n
<1>5. PICK g \in [SUBSET (1..n) -> Seq(S)] : RightFolds(g, n, <<>>, F)
  <2> DEFINE A == Seq(S)
             base == <<>>
  <2>1. base \in A /\ n \in Nat /\ F \in [A \X (1..n) -> A]
    BY <1>1, <1>3
  <2> HIDE DEF A, base
  <2>2. \E g \in [SUBSET (1..n) -> A] : RightFolds(g, n, base, F)
    BY <2>1, FoldToTheRight
  <2> QED  BY <2>2 DEF A, base
<1>6. Solves(g)
  <2>1. ASSUME NEW s \in SUBSET (1..n)
        PROVE  g[s] = IF s = {} THEN <<>> ELSE Keep(g[s \ {Max(s)}], q[Max(s)])
    <3>1. s # {} => Max(s) \in 1..n /\ s \ {Max(s)} \in SUBSET (1..n)
      BY <1>1, LastOf
    <3>2. s # {} => g[s \ {Max(s)}] \in Seq(S)
      BY <1>5, <3>1
    <3> QED  BY <1>4, <1>5, <3>1, <3>2 DEF RightFolds
  <2> QED  BY <1>1, <1>5, <2>1
<1>7. Solves(it)
  <2> HIDE DEF Solves
  <2> QED  BY <1>6
<1>8. FoldLeft(Keep, <<>>, q) = it[DOMAIN q]
  BY DEF FoldLeft, MapThenFoldSet
<1> HIDE DEF it
<1> DEFINE h == [i \in 0..n |-> it[1..i]]
<1>9. it[1..0] = <<>>
  BY <1>1, <1>7
<1>10. ASSUME NEW i \in 1..n PROVE it[1..i] = Keep(it[1..(i - 1)], q[i])
  <2>1. /\ 1..i \in SUBSET (1..n) /\ 1..i # {}
        /\ Max(1..i) = i /\ (1..i) \ {i} = 1..(i - 1)
    BY <1>1, FirstPositions
  <2>2. it[1..i] = IF 1..i = {} THEN <<>> ELSE Keep(it[(1..i) \ {Max(1..i)}], q[Max(1..i)])
    BY <1>1, <1>7, <2>1
  <2> QED  BY <2>1, <2>2
<1>11. \A i \in 0..n : h[i] = it[1..i]
  OBVIOUS
<1> HIDE DEF h
<1>12. h[0] = <<>> /\ FoldLeft(Keep, <<>>, q) = h[n]
  BY <1>1, <1>8, <1>9, <1>11
<1>13. ASSUME NEW i \in 1..n PROVE h[i] = Keep(h[i - 1], q[i])
  <2>1. i \in 0..n /\ i - 1 \in 0..n
    BY <1>1
  <2> QED  BY <1>10, <1>11, <2>1
<1> QED  BY <1>12, <1>13 DEF n
-----------------------------------------------------------------------------
(* Sums.                                                                   *)

\* The element a sum takes next.
Taken(s) == CHOOSE x \in s : TRUE

\* A table of the sums of f over the subsets of D.
IsSum(it, D, f) ==
    \A s \in SUBSET D : it[s] = IF s = {} THEN 0 ELSE f[Taken(s)] + it[s \ {Taken(s)}]

\* The sum of the community module is the last entry of such a table.
LEMMA SumIs ==
    ASSUME NEW D, IsFiniteSet(D), NEW f, \A x \in D : f[x] \in Nat
    PROVE  \E it : IsSum(it, D, f) /\ SumFunctionOnSet(f, D) = it[D]
<1> DEFINE F == [p \in Nat \X D |-> f[p[2]] + p[1]]
           Pick == [s \in SUBSET D |-> Taken(s)]
           Fit(g) == g = [s \in SUBSET D |-> IF s = {} THEN 0 ELSE f[Taken(s)] + g[s \ {Taken(s)}]]
           it == CHOOSE g : Fit(g)
<1>1. F \in [Nat \X D -> Nat] /\ \A a \in Nat, x \in D : F[<<a, x>>] = f[x] + a
  OBVIOUS
<1>2. \A s \in SUBSET D : s # {} => Taken(s) \in s
  BY DEF Taken
<1>3. \A s \in SUBSET D : Pick[s] = Taken(s)
  OBVIOUS
<1> HIDE DEF F, Pick
<1>4. PICK g \in [SUBSET D -> Nat] : Folds(g, D, 0, F, Pick)
  <2> DEFINE A == Nat
             base == 0
  <2>1. base \in A /\ F \in [A \X D -> A]
    BY <1>1
  <2> HIDE DEF A, base
  <2>2. \A s \in SUBSET D : s # {} => Pick[s] \in s
    BY <1>2, <1>3
  <2>3. \E g \in [SUBSET D -> A] : Folds(g, D, base, F, Pick)
    BY <2>1, <2>2, FoldExists
  <2> QED  BY <2>3 DEF A, base
<1>5. Fit(g)
  <2>1. ASSUME NEW s \in SUBSET D
        PROVE  g[s] = IF s = {} THEN 0 ELSE f[Taken(s)] + g[s \ {Taken(s)}]
    <3>1. s # {} => Taken(s) \in D /\ s \ {Taken(s)} \in SUBSET D
      BY <1>2
    <3>2. s # {} => g[s \ {Taken(s)}] \in Nat
      BY <1>4, <3>1
    <3> QED  BY <1>1, <1>3, <1>4, <3>1, <3>2 DEF Folds
  <2> QED  BY <1>4, <2>1
<1>6. Fit(it)
  <2> HIDE DEF Fit
  <2> QED  BY <1>5
<1>7. SumFunctionOnSet(f, D) = it[D]
  BY DEF SumFunctionOnSet, FoldFunctionOnSet, MapThenFoldSet, Taken
<1> HIDE DEF it
<1>8. IsSum(it, D, f)
  <2>1. ASSUME NEW s \in SUBSET D
        PROVE  it[s] = IF s = {} THEN 0 ELSE f[Taken(s)] + it[s \ {Taken(s)}]
    BY <1>6
  <2> QED  BY <2>1 DEF IsSum
<1> QED  BY <1>7, <1>8

\* Tables agree where the functions do, and each entry is a number from which any
\* member may be taken first.
LEMMA SumTables ==
    ASSUME NEW D, NEW f, NEW it, IsSum(it, D, f),
           NEW E, NEW g, NEW jt, IsSum(jt, E, g),
           NEW T, T \subseteq D, T \subseteq E, IsFiniteSet(T),
           \A x \in T : f[x] \in Nat /\ g[x] = f[x]
    PROVE  /\ jt[T] = it[T] /\ it[T] \in Nat
           /\ \A x \in T : it[T] = f[x] + it[T \ {x}]
<1> DEFINE Good(s) == /\ jt[s] = it[s] /\ it[s] \in Nat
                      /\ \A x \in s : it[s] = f[x] + it[s \ {x}]
           Bad == {k \in Nat : \E s \in SUBSET T : Cardinality(s) = k /\ ~Good(s)}
<1>1. \A s \in SUBSET T : IsFiniteSet(s) /\ Cardinality(s) \in Nat
  BY FS_Subset, FS_CardinalityType
<1>2. \A s \in SUBSET T : s # {} => Taken(s) \in s
  BY DEF Taken
<1>3. ASSUME NEW s \in SUBSET T, \A r \in SUBSET T : Cardinality(r) < Cardinality(s) => Good(r)
      PROVE  Good(s)
  <2>1. s \in SUBSET D /\ s \in SUBSET E
    OBVIOUS
  <2>2. CASE s = {}
    <3>1. it[s] = 0 /\ jt[s] = 0
      BY <2>1, <2>2 DEF IsSum
    <3> QED  BY <2>2, <3>1
  <2>3. CASE s # {}
    <3> DEFINE y == Taken(s)
    <3>1. y \in s /\ y \in T /\ f[y] \in Nat /\ g[y] = f[y]
      BY <1>2, <2>3
    <3>2. it[s] = f[y] + it[s \ {y}] /\ jt[s] = g[y] + jt[s \ {y}]
      BY <2>1, <2>3 DEF IsSum
    <3> HIDE DEF y
    <3>3. \A x \in s : s \ {x} \in SUBSET T /\ Cardinality(s \ {x}) < Cardinality(s)
      <4> SUFFICES ASSUME NEW x \in s
                   PROVE  s \ {x} \in SUBSET T /\ Cardinality(s \ {x}) < Cardinality(s)
        OBVIOUS
      <4>1. Cardinality(s \ {x}) = Cardinality(s) - 1
        BY <1>1, FS_RemoveElement
      <4> QED  BY <1>1, <4>1
    <3>4. \A x \in s : Good(s \ {x})
      <4> HIDE DEF Good
      <4> QED  BY <1>3, <3>3
    <3>5. jt[s] = it[s] /\ it[s] \in Nat
      <4>1. jt[s \ {y}] = it[s \ {y}] /\ it[s \ {y}] \in Nat
        BY <3>1, <3>4
      <4>2. it[s] = f[y] + it[s \ {y}] /\ jt[s] = f[y] + it[s \ {y}]
        BY <3>1, <3>2, <4>1
      <4> QED  BY <3>1, <4>1, <4>2
    <3>6. ASSUME NEW x \in s PROVE it[s] = f[x] + it[s \ {x}]
      <4>1. CASE x = y
        BY <3>2, <4>1
      <4>2. CASE x # y
        <5>1. x \in s \ {y} /\ y \in s \ {x} /\ (s \ {y}) \ {x} = (s \ {x}) \ {y}
          BY <3>1, <4>2
        <5>2. it[s \ {y}] = f[x] + it[(s \ {y}) \ {x}]
          BY <3>1, <3>4, <5>1
        <5>3. it[s \ {x}] = f[y] + it[(s \ {x}) \ {y}]
          BY <3>4, <5>1
        <5>4. (s \ {y}) \ {x} \in SUBSET T /\ it[(s \ {y}) \ {x}] \in Nat
          <6>1. Cardinality((s \ {y}) \ {x}) < Cardinality(s)
            <7>1. Cardinality(s \ {y}) = Cardinality(s) - 1
              BY <1>1, <3>1, FS_RemoveElement
            <7>2. s \ {y} \in SUBSET T
              OBVIOUS
            <7>3. Cardinality((s \ {y}) \ {x}) = Cardinality(s \ {y}) - 1
              BY <1>1, <5>1, <7>2, FS_RemoveElement
            <7> QED  BY <1>1, <7>1, <7>2, <7>3
          <6>2. (s \ {y}) \ {x} \in SUBSET T
            OBVIOUS
          <6>3. Good((s \ {y}) \ {x})
            <7> HIDE DEF Good
            <7> QED  BY <1>3, <6>1, <6>2
          <6> QED  BY <6>2, <6>3
        <5>5. f[x] \in Nat /\ f[y] \in Nat
          BY <3>1
        <5> DEFINE rest == it[(s \ {y}) \ {x}]
        <5>6. it[s] = f[y] + (f[x] + rest) /\ it[s \ {x}] = f[y] + rest
          BY <3>2, <5>1, <5>2, <5>3
        <5>7. rest \in Nat
          BY <5>4
        <5> HIDE DEF rest
        <5> QED  BY <5>5, <5>6, <5>7
      <4> QED  BY <4>1, <4>2
    <3> QED  BY <3>5, <3>6
  <2> QED  BY <2>2, <2>3
<1>4. Bad = {}
  <2> SUFFICES ASSUME Bad # {} PROVE FALSE
    OBVIOUS
  <2> HIDE DEF Good
  <2>1. PICK k \in Bad : \A j \in Bad : ~(<<j, k>> \in OpToRel(<, Nat))
    BY WFMin, NatLessThanWellFounded
  <2>2. PICK s \in SUBSET T : Cardinality(s) = k /\ ~Good(s)
    OBVIOUS
  <2>3. ASSUME NEW r \in SUBSET T, Cardinality(r) < Cardinality(s) PROVE Good(r)
    <3>1. Cardinality(r) \in Nat /\ k \in Nat /\ <<Cardinality(r), k>> \in OpToRel(<, Nat)
      BY <1>1, <2>2, <2>3 DEF OpToRel
    <3>2. Cardinality(r) \notin Bad
      BY <2>1, <3>1
    <3> QED  BY <3>1, <3>2
  <2> HIDE DEF Bad
  <2> QED  BY <1>3, <2>2, <2>3
<1>5. Good(T)
  <2>1. T \in SUBSET T /\ Cardinality(T) \in Nat /\ Cardinality(T) \notin Bad
    BY <1>1, <1>4
  <2> HIDE DEF Good
  <2> QED  BY <2>1
<1> QED  BY <1>5

\* Nothing sums to zero.
LEMMA SumEmpty == ASSUME NEW f PROVE SumFunctionOnSet(f, {}) = 0
<1>1. PICK it : IsSum(it, {}, f) /\ SumFunctionOnSet(f, {}) = it[{}]
  BY FS_EmptySet, SumIs
<1> QED  BY <1>1 DEF IsSum

\* A sum only depends on the values that are summed.
LEMMA SumSame ==
    ASSUME NEW T, IsFiniteSet(T), NEW f, NEW g, \A x \in T : f[x] \in Nat /\ g[x] = f[x]
    PROVE  SumFunctionOnSet(g, T) = SumFunctionOnSet(f, T) /\ SumFunctionOnSet(f, T) \in Nat
<1>1. PICK it : IsSum(it, T, f) /\ SumFunctionOnSet(f, T) = it[T]
  BY SumIs
<1>2. \A x \in T : g[x] \in Nat
  OBVIOUS
<1>3. PICK jt : IsSum(jt, T, g) /\ SumFunctionOnSet(g, T) = jt[T]
  BY <1>2, SumIs
<1>4. jt[T] = it[T] /\ it[T] \in Nat
  BY <1>1, <1>3, SumTables
<1> QED  BY <1>1, <1>3, <1>4

\* g adds the value of y to what f says of T.
Adds(f, g, T, y) ==
    IsFiniteSet(T) /\ y \notin T /\ g[y] \in Nat /\ \A x \in T : f[x] \in Nat /\ g[x] = f[x]

\* One more item adds its own value.
LEMMA SumAdd ==
    ASSUME NEW T, NEW y, NEW f, NEW g, Adds(f, g, T, y)
    PROVE  /\ SumFunctionOnSet(g, T \cup {y}) = SumFunctionOnSet(f, T) + g[y]
           /\ SumFunctionOnSet(f, T) \in Nat
<1> USE DEF Adds
<1>1. PICK it : IsSum(it, T, f) /\ SumFunctionOnSet(f, T) = it[T]
  BY SumIs
<1>2. IsFiniteSet(T \cup {y}) /\ \A x \in T \cup {y} : g[x] \in Nat
  BY FS_AddElement
<1>3. PICK jt : IsSum(jt, T \cup {y}, g) /\ SumFunctionOnSet(g, T \cup {y}) = jt[T \cup {y}]
  BY <1>2, SumIs
<1>4. T \subseteq T \cup {y} /\ (T \cup {y}) \ {y} = T /\ y \in T \cup {y}
  OBVIOUS
<1>5. jt[T] = it[T] /\ it[T] \in Nat
  BY <1>1, <1>3, <1>4, SumTables
<1>6. jt[T \cup {y}] = g[y] + jt[T]
  <2> DEFINE U == T \cup {y}
  <2>1. \A x \in U : jt[U] = g[x] + jt[U \ {x}]
    <3>1. IsSum(jt, U, g) /\ IsFiniteSet(U) /\ U \subseteq U /\ \A x \in U : g[x] \in Nat /\ g[x] = g[x]
      BY <1>2, <1>3
    <3> HIDE DEF U
    <3> QED  BY <3>1, SumTables
  <2> QED  BY <1>4, <2>1
<1> QED  BY <1>1, <1>3, <1>5, <1>6
-----------------------------------------------------------------------------
(* Duplicates.                                                             *)

\* What is kept after the first i candidates of a list: some of them, among which
\* every one of them is or finds an earlier one that says the same.
KeptOf(k, q, i) ==
    /\ \A m \in DOMAIN k : \E j \in 1..i : k[m] = q[j]
    /\ \A j \in 1..i : \/ \E m \in DOMAIN k : k[m] = q[j]
                       \/ \E m \in DOMAIN k, l \in 1..(j - 1) : k[m] = q[l] /\ SameFact(q[l], q[j])

\* One more candidate.
LEMMA KeepOneMore ==
    ASSUME NEW S, NEW q \in Seq(S), NEW p \in Nat, NEW i \in 1..Len(q), p = i - 1,
           NEW k \in Seq(S), KeptOf(k, q, p)
    PROVE  Keep(k, q[i]) \in Seq(S) /\ KeptOf(Keep(k, q[i]), q, i)
<1>1. q[i] \in S /\ i \in Nat /\ 1..(i - 1) \subseteq 1..i /\ i \in 1..i
  OBVIOUS
<1>2. CASE \E m \in DOMAIN k : SameFact(k[m], q[i])
  <2>1. Keep(k, q[i]) = k
    BY <1>2 DEF Keep
  <2>2. PICK m \in DOMAIN k : SameFact(k[m], q[i])
    BY <1>2
  <2>3. PICK l \in 1..(i - 1) : k[m] = q[l]
    BY DEF KeptOf
  <2>4. \A j \in 1..i : \/ \E o \in DOMAIN k : k[o] = q[j]
                        \/ \E o \in DOMAIN k, r \in 1..(j - 1) : k[o] = q[r] /\ SameFact(q[r], q[j])
    <3> SUFFICES ASSUME NEW j \in 1..i
                 PROVE  \/ \E o \in DOMAIN k : k[o] = q[j]
                        \/ \E o \in DOMAIN k, r \in 1..(j - 1) : k[o] = q[r] /\ SameFact(q[r], q[j])
      OBVIOUS
    <3>1. CASE j = i
      BY <2>2, <2>3, <3>1
    <3>2. CASE j # i
      <4>1. j \in 1..(i - 1)
        BY <1>1, <3>2
      <4> QED  BY <4>1 DEF KeptOf
    <3> QED  BY <3>1, <3>2
  <2>5. \A o \in DOMAIN k : \E j \in 1..i : k[o] = q[j]
    BY <1>1 DEF KeptOf
  <2>6. KeptOf(k, q, i)
    BY <2>4, <2>5, Zenon DEF KeptOf
  <2> QED  BY <2>1, <2>6
<1>3. CASE ~\E m \in DOMAIN k : SameFact(k[m], q[i])
  <2> DEFINE new == Append(k, q[i])
  <2>1. Keep(k, q[i]) = new
    BY <1>3 DEF Keep
  <2>2. /\ new \in Seq(S) /\ DOMAIN new = 1..(Len(k) + 1) /\ DOMAIN k = 1..Len(k) /\ Len(k) \in Nat
        /\ \A m \in DOMAIN k : m \in DOMAIN new /\ new[m] = k[m]
        /\ Len(k) + 1 \in DOMAIN new /\ new[Len(k) + 1] = q[i]
    BY <1>1, AppendProperties
  <2> HIDE DEF new
  <2>3. \A m \in DOMAIN new : \E j \in 1..i : new[m] = q[j]
    <3> SUFFICES ASSUME NEW m \in DOMAIN new PROVE \E j \in 1..i : new[m] = q[j]
      OBVIOUS
    <3>1. CASE m = Len(k) + 1
      BY <1>1, <2>2, <3>1
    <3>2. CASE m # Len(k) + 1
      <4>1. m \in DOMAIN k
        BY <2>2, <3>2
      <4> QED  BY <1>1, <2>2, <4>1 DEF KeptOf
    <3> QED  BY <3>1, <3>2
  <2>4. \A j \in 1..i : \/ \E o \in DOMAIN new : new[o] = q[j]
                        \/ \E o \in DOMAIN new, r \in 1..(j - 1) : new[o] = q[r] /\ SameFact(q[r], q[j])
    <3> SUFFICES ASSUME NEW j \in 1..i
                 PROVE  \/ \E o \in DOMAIN new : new[o] = q[j]
                        \/ \E o \in DOMAIN new, r \in 1..(j - 1) : new[o] = q[r] /\ SameFact(q[r], q[j])
      OBVIOUS
    <3>1. CASE j = i
      BY <2>2, <3>1
    <3>2. CASE j # i
      <4>1. j \in 1..(i - 1)
        BY <1>1, <3>2
      <4>2. CASE \E o \in DOMAIN k : k[o] = q[j]
        BY <2>2, <4>2
      <4>3. CASE \E o \in DOMAIN k, r \in 1..(j - 1) : k[o] = q[r] /\ SameFact(q[r], q[j])
        BY <2>2, <4>3
      <4> QED  BY <4>1, <4>2, <4>3 DEF KeptOf
    <3> QED  BY <3>1, <3>2
  <2> QED  BY <2>1, <2>2, <2>3, <2>4 DEF KeptOf
<1> QED  BY <1>2, <1>3

\* Deduplication keeps candidates it is given, and leaves one out only for one that
\* comes before it and is the same fact.
LEMMA DedupeSays ==
    ASSUME NEW S, Sortable(S)
    PROVE  /\ Dedupe(S) \in Seq(S)
           /\ ToSet(Dedupe(S)) \subseteq S
           /\ \A c \in S : \/ c \in ToSet(Dedupe(S))
                           \/ \E d \in ToSet(Dedupe(S)) : d # c /\ Before(d, c) /\ SameFact(d, c)
<1> DEFINE q == Sorted(S)
           n == Len(q)
<1>1. /\ q \in Seq(S) /\ n \in Nat /\ n = Cardinality(S) /\ DOMAIN q = 1..n
      /\ \A c \in S : \E i \in 1..n : q[i] = c
      /\ \A i, j \in 1..n : i < j => q[i] # q[j] /\ Before(q[i], q[j])
  <2>1. Sorted(S) \in Seq(S) /\ DOMAIN Sorted(S) = 1..Cardinality(S) /\ Cardinality(S) \in Nat
    BY SortedLists
  <2>2. Len(Sorted(S)) = Cardinality(S)
    BY <2>1, LenProperties
  <2> QED  BY <2>1, <2>2, SortedLists
<1> HIDE DEF q, n
<1>2. PICK h : /\ h[0] = <<>>
               /\ \A i \in 1..n : h[i] = Keep(h[i - 1], q[i])
               /\ FoldLeft(Keep, <<>>, q) = h[n]
  BY <1>1, KeepsInTurn DEF n
<1> DEFINE Good(i) == h[i] \in Seq(S) /\ KeptOf(h[i], q, i)
           Bad == {i \in Nat : i <= n /\ ~Good(i)}
<1>3. 0 \notin Bad
  <2>1. <<>> \in Seq(S) /\ DOMAIN <<>> = {} /\ 1..0 = {}
    BY EmptySeq
  <2> QED  BY <1>2, <2>1 DEF KeptOf
<1>4. ASSUME NEW i \in Nat, i \notin Bad PROVE i + 1 \notin Bad
  <2> SUFFICES ASSUME i + 1 <= n PROVE Good(i + 1)
    OBVIOUS
  <2>1. Good(i) /\ i + 1 \in 1..n /\ (i + 1) - 1 = i
    BY <1>1, <1>4
  <2> DEFINE j == i + 1
  <2>2. j \in 1..Len(q) /\ h[j - 1] \in Seq(S) /\ KeptOf(h[j - 1], q, j - 1)
    BY <2>1 DEF n
  <2> HIDE DEF j
  <2>3. h[j] = Keep(h[j - 1], q[j])
    BY <1>2, <2>2 DEF n
  <2>4. Keep(h[j - 1], q[j]) \in Seq(S) /\ KeptOf(Keep(h[j - 1], q[j]), q, j)
    <3> DEFINE k == h[j - 1]
    <3>1. q \in Seq(S) /\ j \in 1..Len(q) /\ k \in Seq(S) /\ KeptOf(k, q, i)
      BY <1>1, <2>1, <2>2 DEF j
    <3>2. i = j - 1
      BY DEF j
    <3> HIDE DEF k
    <3>3. Keep(k, q[j]) \in Seq(S) /\ KeptOf(Keep(k, q[j]), q, j)
      BY <3>1, <3>2, KeepOneMore
    <3> QED  BY <3>3 DEF k
  <2>5. Good(j)
    BY <2>3, <2>4
  <2> QED  BY <2>5 DEF j
<1>5. Bad = {}
  <2> SUFFICES ASSUME Bad # {} PROVE FALSE
    OBVIOUS
  <2> HIDE DEF Good
  <2>1. PICK k \in Bad : \A j \in Bad : ~(<<j, k>> \in OpToRel(<, Nat))
    BY WFMin, NatLessThanWellFounded
  <2>2. k \in Nat /\ k # 0
    BY <1>3
  <2>3. k - 1 \in Nat /\ (k - 1) + 1 = k /\ <<k - 1, k>> \in OpToRel(<, Nat)
    BY <2>2 DEF OpToRel
  <2>4. k - 1 \notin Bad
    BY <2>1, <2>3
  <2> HIDE DEF Bad
  <2> QED  BY <1>4, <2>3, <2>4
<1>6. h[n] \in Seq(S) /\ KeptOf(h[n], q, n)
  <2> HIDE DEF Good
  <2>1. n \notin Bad /\ n <= n
    BY <1>1, <1>5
  <2>2. Good(n)
    BY <1>1, <2>1
  <2> QED  BY <2>2 DEF Good
<1>7. Dedupe(S) = h[n]
  BY <1>2 DEF Dedupe, q
<1> DEFINE k == h[n]
<1>8. ToSet(k) = {k[m] : m \in DOMAIN k}
  BY DEF ToSet
<1>9. \A m \in DOMAIN k : k[m] \in S
  BY <1>6
<1>10. ASSUME NEW c \in S
       PROVE  \/ c \in ToSet(k)
              \/ \E d \in ToSet(k) : d # c /\ Before(d, c) /\ SameFact(d, c)
  <2>1. PICK j \in 1..n : q[j] = c
    BY <1>1
  <2>2. CASE \E m \in DOMAIN k : k[m] = q[j]
    BY <1>8, <2>1, <2>2
  <2>3. CASE \E m \in DOMAIN k, l \in 1..(j - 1) : k[m] = q[l] /\ SameFact(q[l], q[j])
    <3>1. PICK m \in DOMAIN k, l \in 1..(j - 1) : k[m] = q[l] /\ SameFact(q[l], q[j])
      BY <2>3
    <3>2. l \in 1..n /\ l < j
      BY <1>1
    <3>3. q[l] # q[j] /\ Before(q[l], q[j])
      BY <1>1, <3>2
    <3> QED  BY <1>8, <2>1, <3>1, <3>3
  <2> QED  BY <1>6, <2>2, <2>3 DEF KeptOf
<1> QED  BY <1>6, <1>7, <1>8, <1>9, <1>10
-----------------------------------------------------------------------------
(* Conflicts.                                                              *)

\* Two members make a set larger than one, and a set larger than one has another.
LEMMA TwoOrMore ==
    ASSUME NEW T, IsFiniteSet(T), NEW a \in T
    PROVE  Cardinality(T) > 1 <=> \E b \in T : b # a
<1>1. T \ {a} \subseteq T /\ IsFiniteSet(T \ {a})
  BY FS_Subset
<1>2. Cardinality(T \ {a}) = Cardinality(T) - 1
  BY FS_RemoveElement
<1>3. Cardinality(T) \in Nat /\ Cardinality(T \ {a}) \in Nat
  BY <1>1, FS_CardinalityType
<1>4. Cardinality(T \ {a}) = 0 <=> T \ {a} = {}
  BY <1>1, FS_EmptySet
<1>5. T \ {a} # {} <=> \E b \in T : b # a
  OBVIOUS
<1> QED  BY <1>2, <1>3, <1>4, <1>5

\* Candidates whose conflict keys are those of memories, of one authority.
Contestable(S) ==
    /\ Sortable(S)
    /\ \A c \in S : c.source # "system" /\ (c.ckey # None => c.source = "memory" /\ c.rank = 1)

\* A group of one key, by its members.
LEMMA GroupSays ==
    ASSUME NEW S, Contestable(S), NEW kept, ToSet(kept) \subseteq S, NEW k
    PROVE  /\ Group(kept, k) = {c \in ToSet(kept) : c.ckey = k}
           /\ Sortable(Group(kept, k)) /\ IsFiniteSet(Values(Group(kept, k)))
           /\ k # None => ~Overridden(Group(kept, k))
           /\ k # None /\ Group(kept, k) # {} => Peers(Group(kept, k)) = Group(kept, k)
<1> DEFINE g == Group(kept, k)
<1>1. g = {c \in ToSet(kept) : c.ckey = k}
  BY DEF Group, ToSet
<1>2. g \subseteq S /\ IsFiniteSet(g)
  BY <1>1, FS_Subset DEF Contestable, Sortable
<1>3. Sortable(g)
  BY <1>2 DEF Contestable, Sortable
<1>4. \A c \in g : c.ckey = k
  BY <1>1
<1> HIDE DEF g
<1>5. IsFiniteSet(Values(g))
  <2> DEFINE f == [c \in g |-> c.val]
  <2>1. f \in Surjection(g, Values(g))
    BY DEF Surjection, Values
  <2> HIDE DEF f
  <2> QED  BY <1>2, <2>1, FS_Surjection
<1>6. ASSUME k # None PROVE ~Overridden(g)
  <2>1. \A c \in g : c.source = "memory"
    BY <1>2, <1>4, <1>6 DEF Contestable
  <2>2. "current_input" \notin {c.source : c \in g}
    BY <2>1
  <2> QED  BY <2>2 DEF Overridden
<1>7. ASSUME k # None, g # {} PROVE Peers(g) = g
  <2>1. \A c \in g : c.rank = 1
    BY <1>2, <1>4, <1>7 DEF Contestable
  <2>2. Cardinality(g) \in Nat /\ Cardinality(g) # 0
    BY <1>2, <1>7, FS_CardinalityType, FS_EmptySet
  <2>3. 1 \in 1..Cardinality(g)
    BY <2>2
  <2>4. Winner(g) \in g
    BY <1>3, <2>3, SortedLists DEF Winner
  <2> QED  BY <2>1, <2>4 DEF Peers
<1> QED  BY <1>1, <1>3, <1>5, <1>6, <1>7 DEF g

\* What the resolution of conflicts lets through and what it takes away.
LEMMA ResolveSays ==
    ASSUME NEW S, Contestable(S), NEW kept, ToSet(kept) \subseteq S,
           NEW R, R = ResolveConflicts(kept)
    PROVE  /\ \A r \in R : r \in ToSet(kept) \/ \E k \in Contested(kept) : r = Notice(k)
           /\ \A c \in ToSet(kept) : c \notin R =>
                c.ckey # None /\ \E d \in ToSet(kept) : d.ckey = c.ckey /\ d.val # c.val
           /\ \A a, b \in R : a.source # "system" /\ b.source # "system"
                /\ a.ckey # None /\ a.ckey = b.ckey => a.val = b.val
           /\ \A n, d \in R : n.source = "system" /\ d.source # "system" => d.ckey # n.ckey
           /\ \A a, b \in ToSet(kept) :
                a.ckey # None /\ a.ckey = b.ckey /\ a.val # b.val /\ (a.risk \/ b.risk)
                => Notice(a.ckey) \in R
<1> DEFINE K == ToSet(kept)
           G(k) == Group(kept, k)
           Open(k) == ~Overridden(G(k)) /\ Unresolved(G(k))
           C == Contested(kept)
           Removed(c) == \E k \in C : c \in Leavers(G(k))
<1>1. \A k \in C : k # None
  BY DEF Contested
<1>2. \A r : r \in R <=> \/ r \in K /\ ~Removed(r)
                         \/ \E k \in C : Open(k) /\ r = Notice(k)
  BY DEF ResolveConflicts
<1>3. \A k : /\ G(k) = {c \in K : c.ckey = k}
             /\ Sortable(G(k)) /\ IsFiniteSet(Values(G(k)))
             /\ k # None => ~Overridden(G(k))
             /\ k # None /\ G(k) # {} => Peers(G(k)) = G(k)
  BY GroupSays
<1>4. \A k : IsFiniteSet(G(k))
  BY <1>3 DEF Sortable
<1>5. \A k : k \in C <=> /\ \E m \in DOMAIN kept : kept[m].ckey = k
                         /\ k # None
                         /\ Cardinality(G(k)) > 1 /\ Cardinality(Values(G(k))) > 1
  BY DEF Contested
<1>6. K = {kept[m] : m \in DOMAIN kept}
  BY DEF ToSet
<1>7. \A k : Notice(k).source = "system" /\ Notice(k).ckey = k
  BY DEF Notice
<1>8. \A c \in K : c.source # "system"
  BY DEF Contestable
<1>9. \A g : Leavers(g) = IF Overridden(g) THEN {c \in g : c.source = "memory"}
                          ELSE IF Unresolved(g) THEN g ELSE g \ {Winner(g)}
  BY DEF Leavers
<1>10. \A g : Unresolved(g) <=> (\E c \in g : c.risk) /\ Cardinality(Values(Peers(g))) > 1
  BY DEF Unresolved
<1>11. \A g : Values(g) = {c.val : c \in g}
  BY DEF Values
<1> HIDE DEF K, G, Open, C, Removed
<1>12. \A k \in C : ~Overridden(G(k))
  BY <1>1, <1>3
<1>13. ASSUME NEW a \in K, NEW b \in K, a.ckey # None, a.ckey = b.ckey, a.val # b.val
       PROVE  a.ckey \in C
  <2>1. a \in G(a.ckey) /\ b \in G(a.ckey) /\ a # b
    BY <1>3, <1>13
  <2>2. a.val \in Values(G(a.ckey)) /\ b.val \in Values(G(a.ckey))
    BY <1>11, <2>1
  <2>3. Cardinality(G(a.ckey)) > 1
    BY <1>4, <2>1, TwoOrMore
  <2>4. Cardinality(Values(G(a.ckey))) > 1
    BY <1>3, <1>13, <2>2, TwoOrMore
  <2>5. \E m \in DOMAIN kept : kept[m].ckey = a.ckey
    BY <1>6
  <2> QED  BY <1>5, <1>13, <2>3, <2>4, <2>5
<1>14. \A r \in R : r \in K \/ \E k \in C : r = Notice(k)
  BY <1>2
<1>15. ASSUME NEW c \in K, c \notin R
       PROVE  c.ckey # None /\ \E d \in K : d.ckey = c.ckey /\ d.val # c.val
  <2>1. PICK k \in C : c \in Leavers(G(k))
    BY <1>2, <1>15 DEF Removed
  <2>2. c \in G(k) /\ c.ckey = k /\ k # None
    BY <1>1, <1>3, <1>9, <2>1
  <2>3. c.val \in Values(G(k)) /\ Cardinality(Values(G(k))) > 1
    BY <1>5, <1>11, <2>2
  <2>4. PICK v \in Values(G(k)) : v # c.val
    BY <1>3, <2>3, TwoOrMore
  <2>5. PICK d \in G(k) : d.val = v
    BY <1>11
  <2> QED  BY <1>3, <2>2, <2>4, <2>5
<1>16. ASSUME NEW a \in R, NEW b \in R, a.source # "system", b.source # "system",
              a.ckey # None, a.ckey = b.ckey, a.val # b.val
       PROVE  FALSE
  <2>1. a \in K /\ b \in K
    BY <1>7, <1>14, <1>16
  <2>2. a.ckey \in C
    BY <1>13, <1>16, <2>1
  <2>3. a \notin Leavers(G(a.ckey)) /\ b \notin Leavers(G(a.ckey))
    <3>1. ~Removed(a) /\ ~Removed(b)
      BY <1>2, <1>7, <1>16
    <3> QED  BY <2>2, <3>1 DEF Removed
  <2>4. a \in G(a.ckey) /\ b \in G(a.ckey)
    BY <1>3, <1>16, <2>1
  <2>5. ~Unresolved(G(a.ckey))
    BY <1>9, <1>12, <2>2, <2>3, <2>4
  <2>6. a = Winner(G(a.ckey)) /\ b = Winner(G(a.ckey))
    BY <1>9, <1>12, <2>2, <2>3, <2>4, <2>5
  <2> QED  BY <1>16, <2>6
<1>17. ASSUME NEW n \in R, NEW d \in R, n.source = "system", d.source # "system"
       PROVE  d.ckey # n.ckey
  <2> SUFFICES ASSUME d.ckey = n.ckey PROVE FALSE
    OBVIOUS
  <2>1. PICK k \in C : Open(k) /\ n = Notice(k)
    BY <1>2, <1>8, <1>17
  <2>2. d \in K /\ ~Removed(d) /\ d.ckey = k
    BY <1>2, <1>7, <1>17, <2>1
  <2>3. d \in G(k) /\ G(k) = Leavers(G(k))
    BY <1>3, <1>9, <2>1, <2>2 DEF Open
  <2> QED  BY <2>2, <2>3 DEF Removed
<1>18. ASSUME NEW a \in K, NEW b \in K, a.ckey # None, a.ckey = b.ckey, a.val # b.val,
              a.risk \/ b.risk
       PROVE  Notice(a.ckey) \in R
  <2>1. a.ckey \in C
    BY <1>13, <1>18
  <2>2. a \in G(a.ckey) /\ b \in G(a.ckey)
    BY <1>3, <1>18
  <2>3. Peers(G(a.ckey)) = G(a.ckey)
    BY <1>3, <1>18, <2>2
  <2>4. \E c \in G(a.ckey) : c.risk
    BY <1>18, <2>2
  <2>5. Unresolved(G(a.ckey))
    BY <1>5, <1>10, <2>1, <2>3, <2>4
  <2>6. Open(a.ckey)
    BY <1>12, <2>1, <2>5 DEF Open
  <2> QED  BY <1>2, <2>1, <2>6
<1>19. \A a, b \in R : a.source # "system" /\ b.source # "system"
            /\ a.ckey # None /\ a.ckey = b.ckey => a.val = b.val
  BY <1>16
<1> QED  BY <1>14, <1>15, <1>17, <1>18, <1>19 DEF K, C
-----------------------------------------------------------------------------
(* The budget.                                                             *)

\* Characters take a number of tokens.
LEMMA TokensType == ASSUME NEW chars \in Nat PROVE Tokens(chars) \in Nat
<1>1. CharsPerToken \in Nat /\ CharsPerToken > 0
  BY ContextConstants
<1>2. chars + CharsPerToken - 1 \in Nat
  BY <1>1
<1>3. \A x \in Nat, y \in Nat : y > 0 => x \div y \in Nat
  OBVIOUS
<1> QED  BY <1>1, <1>2, <1>3 DEF Tokens

\* Limits are numbers, one for each source that has one.
Limited(L) == \A source \in DOMAIN L : L[source] \in Nat

\* Candidates that have a size.
Sized(S) == \A c \in S : c.size \in Nat

\* The accumulators of a selection from S.
Accs(S, L) ==
    [chars : Nat, items : SUBSET S, short : SUBSET S, dropped : SUBSET S,
     used : [DOMAIN L -> Nat], ok : BOOLEAN]

\* An item is whole or a reference, and either way takes some characters.
LEMMA RenderedType == ASSUME NEW c, c.size \in Nat PROVE Rendered(c) \in Nat /\ Minimal \in Nat
  BY ContextConstants DEF Rendered, Minimal

\* What including an item changes.
LEMMA IncludeSays ==
    ASSUME NEW S, NEW L, Limited(L), NEW a \in Accs(S, L), NEW c \in S, NEW n \in Nat
    PROVE  /\ Include(a, c, n) \in Accs(S, L)
           /\ Include(a, c, n).chars = a.chars + n
           /\ Include(a, c, n).items = a.items \cup {c}
           /\ Include(a, c, n).short = a.short
           /\ Include(a, c, n).dropped = a.dropped
           /\ Include(a, c, n).ok = a.ok
           /\ \A source \in DOMAIN L : Include(a, c, n).used[source] =
                    a.used[source] + IF source = c.source THEN Tokens(n) ELSE 0
<1> DEFINE used == [source \in DOMAIN a.used |->
                        a.used[source] + IF source = c.source THEN Tokens(n) ELSE 0]
           t == Tokens(n)
<1>1. t \in Nat
  BY TokensType
<1>2. /\ a.chars \in Nat /\ a.items \in SUBSET S /\ a.short \in SUBSET S /\ a.dropped \in SUBSET S
      /\ a.used \in [DOMAIN L -> Nat] /\ a.ok \in BOOLEAN
  BY DEF Accs
<1>3. used \in [DOMAIN L -> Nat]
  <2> HIDE DEF t
  <2>1. DOMAIN a.used = DOMAIN L
    BY <1>2
  <2>2. \A source \in DOMAIN L : a.used[source] + (IF source = c.source THEN t ELSE 0) \in Nat
    BY <1>1, <1>2
  <2> QED  BY <2>1, <2>2 DEF t
<1>4. Include(a, c, n) = [a EXCEPT !.chars = a.chars + n, !.items = a.items \cup {c}, !.used = used]
  BY DEF Include
<1>5. \A source \in DOMAIN L : used[source] =
                    a.used[source] + IF source = c.source THEN Tokens(n) ELSE 0
  BY <1>2
<1> HIDE DEF used
<1>6. Include(a, c, n) = [chars |-> a.chars + n, items |-> a.items \cup {c}, short |-> a.short,
                          dropped |-> a.dropped, used |-> used, ok |-> a.ok]
  BY <1>4 DEF Accs
<1>7. a.chars + n \in Nat /\ a.items \cup {c} \in SUBSET S
  BY <1>2
<1> QED  BY <1>2, <1>3, <1>5, <1>6, <1>7 DEF Accs

\* A reference is included with its minimal size, and marked.
LEMMA ReferSays ==
    ASSUME NEW S, NEW L, Limited(L), NEW a \in Accs(S, L), NEW c \in S
    PROVE  /\ Refer(a, c) \in Accs(S, L)
           /\ Refer(a, c).chars = a.chars + Minimal
           /\ Refer(a, c).items = a.items \cup {c}
           /\ Refer(a, c).short = a.short \cup {c}
           /\ Refer(a, c).dropped = a.dropped
           /\ Refer(a, c).ok = a.ok
           /\ \A source \in DOMAIN L : Refer(a, c).used[source] =
                    a.used[source] + IF source = c.source THEN Tokens(Minimal) ELSE 0
<1> DEFINE i == Include(a, c, Minimal)
<1>1. Minimal \in Nat
  BY DEF Minimal
<1>2. /\ i \in Accs(S, L)
      /\ i.chars = a.chars + Minimal /\ i.items = a.items \cup {c}
      /\ i.short = a.short /\ i.dropped = a.dropped /\ i.ok = a.ok
      /\ \A source \in DOMAIN L : i.used[source] =
                    a.used[source] + IF source = c.source THEN Tokens(Minimal) ELSE 0
  BY <1>1, IncludeSays
<1>3. Refer(a, c) = [i EXCEPT !.short = i.short \cup {c}]
  BY DEF Refer
<1> HIDE DEF i
<1>4. Refer(a, c) = [chars |-> i.chars, items |-> i.items, short |-> i.short \cup {c},
                     dropped |-> i.dropped, used |-> i.used, ok |-> i.ok]
  BY <1>2, <1>3 DEF Accs
<1>5. i.short \cup {c} \in SUBSET S
  BY <1>2 DEF Accs
<1>6. Refer(a, c) \in Accs(S, L)
  BY <1>2, <1>4, <1>5 DEF Accs
<1> QED  BY <1>2, <1>4, <1>6

\* The four outcomes of a round.
LEMMA SelectSays ==
    ASSUME NEW S, Sized(S), NEW L, Limited(L), NEW a \in Accs(S, L), NEW c \in S, NEW b,
           NEW new, new = Select(a, c, b, L)
    PROVE  /\ new \in Accs(S, L)
           /\ \/ ~a.ok /\ new = a
              \/ a.ok /\ Fits(a, c, Rendered(c), b, L) /\ new = Include(a, c, Rendered(c))
              \/ a.ok /\ Fits(a, c, Minimal, b, L) /\ new = Refer(a, c)
              \/ /\ a.ok /\ ~c.must
                 /\ new.chars = a.chars /\ new.items = a.items /\ new.short = a.short
                 /\ new.dropped = a.dropped \cup {c} /\ new.used = a.used /\ new.ok = a.ok
              \/ /\ a.ok
                 /\ new.chars = a.chars /\ new.items = a.items /\ new.short = a.short
                 /\ new.dropped = a.dropped /\ new.used = a.used /\ ~new.ok
<1>1. Rendered(c) \in Nat
  BY RenderedType DEF Sized
<1>2. Include(a, c, Rendered(c)) \in Accs(S, L)
  BY <1>1, IncludeSays
<1>3. Refer(a, c) \in Accs(S, L)
  BY ReferSays
<1>4. CASE ~a.ok
  BY <1>4 DEF Select
<1>5. CASE a.ok /\ Fits(a, c, Rendered(c), b, L)
  BY <1>2, <1>5 DEF Select
<1>6. CASE a.ok /\ ~Fits(a, c, Rendered(c), b, L) /\ ~c.must
  <2>1. new = [a EXCEPT !.dropped = a.dropped \cup {c}]
    BY <1>6 DEF Select, Drop
  <2>2. new = [chars |-> a.chars, items |-> a.items, short |-> a.short,
               dropped |-> a.dropped \cup {c}, used |-> a.used, ok |-> a.ok]
    BY <2>1 DEF Accs
  <2>3. a.dropped \cup {c} \in SUBSET S
    BY DEF Accs
  <2>4. new \in Accs(S, L)
    BY <2>2, <2>3 DEF Accs
  <2> QED  BY <1>6, <2>2, <2>4
<1>7. CASE a.ok /\ ~Fits(a, c, Rendered(c), b, L) /\ c.must /\ Fits(a, c, Minimal, b, L)
  BY <1>3, <1>7 DEF Select
<1>8. CASE a.ok /\ ~Fits(a, c, Rendered(c), b, L) /\ c.must /\ ~Fits(a, c, Minimal, b, L)
  <2>1. new = [a EXCEPT !.ok = FALSE]
    BY <1>8 DEF Select
  <2>2. new = [chars |-> a.chars, items |-> a.items, short |-> a.short,
               dropped |-> a.dropped, used |-> a.used, ok |-> FALSE]
    BY <2>1 DEF Accs
  <2>3. new \in Accs(S, L)
    BY <2>2 DEF Accs
  <2> QED  BY <1>8, <2>2, <2>3
<1> QED  BY <1>4, <1>5, <1>6, <1>7, <1>8

\* The selection from a list.
SelectAll(q, base, b, L) == FoldLeft(LAMBDA acc, c : Select(acc, c, b, L), base, q)

\* What has been selected after each candidate of a sequence.
LEMMA SelectsInTurn ==
    ASSUME NEW S, Sized(S), NEW L, Limited(L), NEW q \in Seq(S), NEW b, NEW base \in Accs(S, L)
    PROVE  \E h : /\ h[0] = base
                  /\ \A i \in 1..Len(q) : h[i] = Select(h[i - 1], q[i], b, L)
                  /\ SelectAll(q, base, b, L) = h[Len(q)]
<1> DEFINE n == Len(q)
           A == Accs(S, L)
           F == [p \in A \X (1..n) |-> Select(p[1], q[p[2]], b, L)]
           Solves(g) == g = [s \in SUBSET DOMAIN q |->
                           IF s = {} THEN base ELSE Select(g[s \ {Max(s)}], q[Max(s)], b, L)]
           it == CHOOSE g : Solves(g)
<1>1. n \in Nat /\ DOMAIN q = 1..n /\ \A i \in 1..n : q[i] \in S
  OBVIOUS
<1>2. \A a \in A, c \in S : Select(a, c, b, L) \in A
  BY SelectSays
<1> HIDE DEF A
<1>3. F \in [A \X (1..n) -> A] /\ base \in A
  BY <1>1, <1>2 DEF A
<1>4. \A a \in A, i \in 1..n : F[<<a, i>>] = Select(a, q[i], b, L)
  OBVIOUS
<1> HIDE DEF F, n
<1>5. PICK g \in [SUBSET (1..n) -> A] : RightFolds(g, n, base, F)
  BY <1>1, <1>3, FoldToTheRight
<1>6. Solves(g)
  <2>1. ASSUME NEW s \in SUBSET (1..n)
        PROVE  g[s] = IF s = {} THEN base ELSE Select(g[s \ {Max(s)}], q[Max(s)], b, L)
    <3>1. s # {} => Max(s) \in 1..n /\ s \ {Max(s)} \in SUBSET (1..n)
      BY <1>1, LastOf
    <3>2. s # {} => g[s \ {Max(s)}] \in A
      BY <1>5, <3>1
    <3> QED  BY <1>4, <1>5, <3>1, <3>2 DEF RightFolds
  <2> QED  BY <1>1, <1>5, <2>1
<1>7. Solves(it)
  <2> HIDE DEF Solves
  <2> QED  BY <1>6
<1> DEFINE all == SelectAll(q, base, b, L)
<1>8. all = it[DOMAIN q]
  BY DEF SelectAll, FoldLeft, MapThenFoldSet
<1> HIDE DEF it, all
<1> DEFINE h == [i \in 0..n |-> it[1..i]]
<1>9. it[1..0] = base
  BY <1>1, <1>7
<1>10. ASSUME NEW i \in 1..n PROVE it[1..i] = Select(it[1..(i - 1)], q[i], b, L)
  <2>1. /\ 1..i \in SUBSET (1..n) /\ 1..i # {}
        /\ Max(1..i) = i /\ (1..i) \ {i} = 1..(i - 1)
    BY <1>1, FirstPositions
  <2>2. it[1..i] = IF 1..i = {} THEN base
                   ELSE Select(it[(1..i) \ {Max(1..i)}], q[Max(1..i)], b, L)
    BY <1>1, <1>7, <2>1
  <2> QED  BY <2>1, <2>2
<1>11. \A i \in 0..n : h[i] = it[1..i]
  OBVIOUS
<1> HIDE DEF h
<1>12. h[0] = base /\ all = h[n]
  BY <1>1, <1>8, <1>9, <1>11
<1>13. ASSUME NEW i \in 1..n PROVE h[i] = Select(h[i - 1], q[i], b, L)
  <2>1. i \in 0..n /\ i - 1 \in 0..n
    BY <1>1
  <2> QED  BY <1>10, <1>11, <2>1
<1> QED  BY <1>12, <1>13 DEF n, all
-----------------------------------------------------------------------------
(* What a selection adds up to.                                            *)

\* The characters and the tokens of the items.
SizeOf(a) == [c \in a.items |-> IF c \in a.short THEN Minimal ELSE Rendered(c)]
TokensOf(a) == [c \in a.items |-> Tokens(SizeOf(a)[c])]
From(a, source) == {c \in a.items : c.source = source}

\* The accumulator counts what it holds, within the limits, and leaves nothing of
\* T unaccounted for.
Counted(a, L, b) ==
    /\ a.short \subseteq a.items
    /\ a.chars = Wrapper + SumFunctionOnSet(SizeOf(a), a.items)
    /\ \A source \in DOMAIN L :
         /\ a.used[source] = SumFunctionOnSet(TokensOf(a), From(a, source))
         /\ a.used[source] <= L[source]
    /\ a.ok => Tokens(a.chars) <= b
Complete(a, T) ==
    /\ a.items \cup a.dropped \subseteq T
    /\ a.ok => T \subseteq a.items \cup a.dropped
    /\ a.ok => \A c \in T : c.must => c \in a.items

\* Sizes are numbers.
LEMMA SizeType ==
    ASSUME NEW S, Sized(S), NEW L, NEW a \in Accs(S, L), NEW c \in a.items
    PROVE  SizeOf(a)[c] \in Nat /\ TokensOf(a)[c] \in Nat /\ TokensOf(a)[c] = Tokens(SizeOf(a)[c])
<1>1. c \in S
  BY DEF Accs
<1>2. Rendered(c) \in Nat /\ Minimal \in Nat
  BY <1>1, RenderedType DEF Sized
<1>3. SizeOf(a)[c] \in Nat
  BY <1>2 DEF SizeOf
<1>4. TokensOf(a)[c] = Tokens(SizeOf(a)[c])
  BY DEF TokensOf
<1> QED  BY <1>3, <1>4, TokensType

\* An item that fits is counted: whole or as a reference.
LEMMA CountedOneMore ==
    ASSUME NEW S, IsFiniteSet(S), Sized(S), NEW L, Limited(L), NEW b,
           NEW a \in Accs(S, L), NEW c \in S, c \notin a.items, Counted(a, L, b),
           NEW n \in Nat, Fits(a, c, n, b, L),
           NEW new \in Accs(S, L),
           new.chars = a.chars + n, new.items = a.items \cup {c},
           \A source \in DOMAIN L :
              new.used[source] = a.used[source] + IF source = c.source THEN Tokens(n) ELSE 0,
           \/ n = Rendered(c) /\ new.short = a.short
           \/ n = Minimal /\ new.short = a.short \cup {c}
    PROVE  Counted(new, L, b)
<1>1. /\ a.items \in SUBSET S /\ a.short \subseteq a.items /\ a.chars \in Nat
      /\ a.used \in [DOMAIN L -> Nat]
  BY DEF Accs, Counted
<1>2. IsFiniteSet(a.items)
  BY <1>1, FS_Subset
<1>3. \A x \in a.items : SizeOf(a)[x] \in Nat /\ SizeOf(new)[x] = SizeOf(a)[x]
  <2> SUFFICES ASSUME NEW x \in a.items
               PROVE  SizeOf(a)[x] \in Nat /\ SizeOf(new)[x] = SizeOf(a)[x]
    OBVIOUS
  <2>1. x # c /\ x \in new.items /\ (x \in new.short <=> x \in a.short)
    OBVIOUS
  <2> QED  BY <2>1, SizeType DEF SizeOf
<1>4. c \in new.items /\ SizeOf(new)[c] = n
  <2>1. c \in new.items /\ c \notin a.short
    BY <1>1
  <2> QED  BY <2>1 DEF SizeOf
<1>5. \A x \in a.items : TokensOf(a)[x] \in Nat /\ TokensOf(new)[x] = TokensOf(a)[x]
  <2> SUFFICES ASSUME NEW x \in a.items
               PROVE  TokensOf(a)[x] \in Nat /\ TokensOf(new)[x] = TokensOf(a)[x]
    OBVIOUS
  <2>1. x \in new.items
    OBVIOUS
  <2>2. TokensOf(a)[x] = Tokens(SizeOf(a)[x]) /\ TokensOf(a)[x] \in Nat
    BY SizeType
  <2>3. TokensOf(new)[x] = Tokens(SizeOf(new)[x])
    BY <2>1, SizeType
  <2> QED  BY <1>3, <2>2, <2>3
<1>6. TokensOf(new)[c] = Tokens(n) /\ Tokens(n) \in Nat
  BY <1>4, SizeType
<1>7. new.chars = Wrapper + SumFunctionOnSet(SizeOf(new), new.items)
  <2> DEFINE f == SizeOf(a)
             g == SizeOf(new)
             T == a.items
  <2>1. Adds(f, g, T, c)
    BY <1>2, <1>3, <1>4 DEF Adds
  <2> HIDE DEF f, g, T
  <2>2. SumFunctionOnSet(g, T \cup {c}) = SumFunctionOnSet(f, T) + g[c]
    BY <2>1, SumAdd
  <2>3. SumFunctionOnSet(f, T) \in Nat
    BY <2>1, SumAdd
  <2>4. a.chars = Wrapper + SumFunctionOnSet(f, T)
    BY DEF Counted, f, T
  <2>5. g[c] = n /\ Wrapper \in Nat
    BY <1>4, ContextConstants DEF g
  <2>6. new.chars = Wrapper + SumFunctionOnSet(g, T \cup {c})
    BY <2>2, <2>3, <2>4, <2>5
  <2> QED  BY <2>6 DEF g, T
<1>11. ASSUME NEW T \in SUBSET a.items
       PROVE  SumFunctionOnSet(TokensOf(new), T \cup {c}) =
                    SumFunctionOnSet(TokensOf(a), T) + TokensOf(new)[c]
  <2> DEFINE f == TokensOf(a)
             g == TokensOf(new)
  <2>1. Adds(f, g, T, c)
    BY <1>2, <1>5, <1>6, FS_Subset DEF Adds
  <2> HIDE DEF f, g
  <2>2. SumFunctionOnSet(g, T \cup {c}) = SumFunctionOnSet(f, T) + g[c]
    BY <2>1, SumAdd
  <2> QED  BY <2>2 DEF f, g
<1>8. ASSUME NEW u \in DOMAIN L
      PROVE  /\ new.used[u] = SumFunctionOnSet(TokensOf(new), From(new, u))
             /\ new.used[u] <= L[u]
  <2> DEFINE f == TokensOf(a)
             g == TokensOf(new)
             T == From(a, u)
  <2>1. IsFiniteSet(T) /\ c \notin T /\ \A x \in T : f[x] \in Nat /\ g[x] = f[x]
    <3>1. T \subseteq a.items
      BY DEF From
    <3> QED  BY <1>2, <1>5, <3>1, FS_Subset
  <2>2. g[c] = Tokens(n) /\ Tokens(n) \in Nat
    BY <1>6
  <2>3. From(new, u) = IF c.source = u THEN T \cup {c} ELSE T
    BY DEF From
  <2>4. /\ a.used[u] = SumFunctionOnSet(f, T) /\ a.used[u] <= L[u]
        /\ a.used[u] \in Nat /\ L[u] \in Nat
    BY <1>1 DEF Counted, Limited
  <2> HIDE DEF f, g, T
  <2>5. CASE c.source = u
    <3>1. SumFunctionOnSet(g, T \cup {c}) = SumFunctionOnSet(f, T) + g[c]
      BY <1>11 DEF f, g, T, From
    <3>2. a.used[u] + Tokens(n) <= L[u]
      BY <2>5 DEF Fits
    <3>3. new.used[u] = a.used[u] + Tokens(n)
      BY <2>5
    <3>4. From(new, u) = T \cup {c}
      BY <2>3, <2>5
    <3> QED  BY <2>2, <2>4, <3>1, <3>2, <3>3, <3>4 DEF g
  <2>6. CASE c.source # u
    <3>1. SumFunctionOnSet(g, T) = SumFunctionOnSet(f, T)
      BY <2>1, SumSame
    <3>2. new.used[u] = a.used[u] + 0
      BY <2>6
    <3>3. From(new, u) = T
      BY <2>3, <2>6
    <3> QED  BY <2>4, <3>1, <3>2, <3>3 DEF g
  <2> QED  BY <2>5, <2>6
<1>9. Tokens(new.chars) <= b
  BY DEF Fits
<1>10. new.short \subseteq new.items
  BY <1>1
<1> QED  BY <1>7, <1>8, <1>9, <1>10 DEF Counted

\* Fields that say the same are counted the same.
LEMMA CountedSame ==
    ASSUME NEW L, NEW b, NEW a, Counted(a, L, b), NEW new,
           new.chars = a.chars, new.items = a.items, new.short = a.short, new.used = a.used,
           new.ok => a.ok
    PROVE  Counted(new, L, b)
<1>1. SizeOf(new) = SizeOf(a)
  BY DEF SizeOf
<1>2. TokensOf(new) = TokensOf(a)
  BY <1>1 DEF TokensOf
<1>3. \A source : From(new, source) = From(a, source)
  BY DEF From
<1> QED  BY <1>1, <1>2, <1>3 DEF Counted

\* One more candidate.
LEMMA SelectOneMore ==
    ASSUME NEW S, IsFiniteSet(S), Sized(S), NEW L, Limited(L), NEW b,
           NEW a \in Accs(S, L), NEW c \in S, NEW T, c \notin T,
           Counted(a, L, b), Complete(a, T),
           NEW new, new = Select(a, c, b, L)
    PROVE  new \in Accs(S, L) /\ Counted(new, L, b) /\ Complete(new, T \cup {c})
<1>1. new \in Accs(S, L)
  BY SelectSays
<1>2. c \notin a.items
  BY DEF Complete
<1>3. CASE ~a.ok /\ new = a
  BY <1>1, <1>3 DEF Complete
<1>4. CASE a.ok /\ Fits(a, c, Rendered(c), b, L) /\ new = Include(a, c, Rendered(c))
  <2> DEFINE n == Rendered(c)
  <2>1. n \in Nat
    BY RenderedType DEF Sized
  <2>2. /\ new.chars = a.chars + n /\ new.items = a.items \cup {c} /\ new.short = a.short
        /\ new.dropped = a.dropped /\ new.ok = a.ok
        /\ \A source \in DOMAIN L :
              new.used[source] = a.used[source] + IF source = c.source THEN Tokens(n) ELSE 0
    <3> DEFINE i == Include(a, c, n)
    <3>1. /\ i.chars = a.chars + n /\ i.items = a.items \cup {c} /\ i.short = a.short
          /\ i.dropped = a.dropped /\ i.ok = a.ok
          /\ \A source \in DOMAIN L :
                i.used[source] = a.used[source] + IF source = c.source THEN Tokens(n) ELSE 0
      <4> HIDE DEF n
      <4> QED  BY <2>1, IncludeSays
    <3>2. new = i
      BY <1>4
    <3> HIDE DEF i, n
    <3> QED  BY <3>1, <3>2
  <2>3. Fits(a, c, n, b, L)
    BY <1>4
  <2>4. n = Rendered(c)
    OBVIOUS
  <2> HIDE DEF n
  <2>5. Counted(new, L, b)
    BY <1>1, <1>2, <2>1, <2>2, <2>3, <2>4, CountedOneMore
  <2>6. Complete(new, T \cup {c})
    BY <1>4, <2>2 DEF Complete
  <2> QED  BY <1>1, <2>5, <2>6
<1>5. CASE a.ok /\ Fits(a, c, Minimal, b, L) /\ new = Refer(a, c)
  <2> DEFINE n == Minimal
  <2>1. n \in Nat
    BY DEF Minimal
  <2>2. /\ new.chars = a.chars + n /\ new.items = a.items \cup {c} /\ new.short = a.short \cup {c}
        /\ new.dropped = a.dropped /\ new.ok = a.ok
        /\ \A source \in DOMAIN L :
              new.used[source] = a.used[source] + IF source = c.source THEN Tokens(n) ELSE 0
    <3> DEFINE i == Refer(a, c)
    <3>1. /\ i.chars = a.chars + n /\ i.items = a.items \cup {c} /\ i.short = a.short \cup {c}
          /\ i.dropped = a.dropped /\ i.ok = a.ok
          /\ \A source \in DOMAIN L :
                i.used[source] = a.used[source] + IF source = c.source THEN Tokens(n) ELSE 0
      BY ReferSays
    <3>2. new = i
      BY <1>5
    <3> HIDE DEF i, n
    <3> QED  BY <3>1, <3>2
  <2>3. Fits(a, c, n, b, L)
    BY <1>5
  <2>4. n = Minimal
    OBVIOUS
  <2> HIDE DEF n
  <2>5. Counted(new, L, b)
    BY <1>1, <1>2, <2>1, <2>2, <2>3, <2>4, CountedOneMore
  <2>6. Complete(new, T \cup {c})
    BY <1>5, <2>2 DEF Complete
  <2> QED  BY <1>1, <2>5, <2>6
<1>6. CASE /\ a.ok /\ ~c.must
           /\ new.chars = a.chars /\ new.items = a.items /\ new.short = a.short
           /\ new.dropped = a.dropped \cup {c} /\ new.used = a.used /\ new.ok = a.ok
  <2>1. Counted(new, L, b)
    BY <1>6, CountedSame
  <2>2. Complete(new, T \cup {c})
    BY <1>6 DEF Complete
  <2> QED  BY <1>1, <2>1, <2>2
<1>7. CASE /\ a.ok
           /\ new.chars = a.chars /\ new.items = a.items /\ new.short = a.short
           /\ new.dropped = a.dropped /\ new.used = a.used /\ ~new.ok
  <2>1. Counted(new, L, b)
    BY <1>7, CountedSame
  <2>2. Complete(new, T \cup {c})
    BY <1>7 DEF Complete
  <2> QED  BY <1>1, <2>1, <2>2
<1> QED  BY <1>3, <1>4, <1>5, <1>6, <1>7, SelectSays

\* The empty selection.
LEMMA NothingSays ==
    ASSUME NEW S, NEW L, Limited(L), NEW b, NEW a, a = NothingYet(L, Tokens(Wrapper) <= b)
    PROVE  a \in Accs(S, L) /\ Counted(a, L, b) /\ Complete(a, {})
<1>1. /\ a.chars = Wrapper /\ a.items = {} /\ a.short = {} /\ a.dropped = {}
      /\ a.used = [source \in DOMAIN L |-> 0] /\ a.ok = (Tokens(Wrapper) <= b)
  BY DEF NothingYet
<1>2. Wrapper \in Nat
  BY ContextConstants
<1>3. a \in Accs(S, L)
  <2>1. [source \in DOMAIN L |-> 0] \in [DOMAIN L -> Nat]
    OBVIOUS
  <2>2. (Tokens(Wrapper) <= b) \in BOOLEAN
    OBVIOUS
  <2>3. {} \in SUBSET S
    OBVIOUS
  <2> QED  BY <1>2, <2>1, <2>2, <2>3 DEF Accs, NothingYet
<1>4. \A u : From(a, u) = {}
  BY <1>1 DEF From
<1>5. a.chars = Wrapper + SumFunctionOnSet(SizeOf(a), a.items)
  BY <1>1, <1>2, SumEmpty
<1>6. ASSUME NEW u \in DOMAIN L
      PROVE  /\ a.used[u] = SumFunctionOnSet(TokensOf(a), From(a, u))
             /\ a.used[u] <= L[u]
  <2>1. a.used[u] = 0 /\ L[u] \in Nat
    BY <1>1 DEF Limited
  <2> QED  BY <1>4, <2>1, SumEmpty
<1>7. Complete(a, {})
  BY <1>1 DEF Complete
<1> QED  BY <1>1, <1>3, <1>5, <1>6, <1>7 DEF Counted

\* What SelectAndProject returns: every candidate is in, or left out for the budget
\* if it may be, and what is in is counted.
LEMMA SelectionSays ==
    ASSUME NEW R, Sortable(R), Sized(R), NEW b, NEW s, Limited(Limits(b, s)),
           NEW sel, sel = SelectAndProject(R, b, s)
    PROVE  sel \in Accs(R, Limits(b, s)) /\ Counted(sel, Limits(b, s), b) /\ Complete(sel, R)
<1> DEFINE L == Limits(b, s)
           q == Sorted(R)
           n == Len(q)
           base == NothingYet(L, Tokens(Wrapper) <= b)
           all == SelectAll(q, base, b, L)
<1>1. /\ q \in Seq(R) /\ n \in Nat /\ DOMAIN q = 1..n
      /\ \A c \in R : \E i \in 1..n : q[i] = c
      /\ \A i, j \in 1..n : i < j => q[i] # q[j]
      /\ \A i \in 1..n : q[i] \in R
  <2>1. Sorted(R) \in Seq(R) /\ DOMAIN Sorted(R) = 1..Cardinality(R) /\ Cardinality(R) \in Nat
    BY SortedLists
  <2>2. Len(Sorted(R)) = Cardinality(R)
    BY <2>1, LenProperties
  <2> QED  BY <2>1, <2>2, SortedLists
<1>2. sel = all
  BY DEF SelectAndProject, SelectAll
<1>3. base \in Accs(R, L) /\ Counted(base, L, b) /\ Complete(base, {}) /\ Limited(L)
  BY NothingSays
<1>4. IsFiniteSet(R)
  BY DEF Sortable
<1> HIDE DEF L, q, base
<1>5. PICK h : /\ h[0] = base
               /\ \A i \in 1..n : h[i] = Select(h[i - 1], q[i], b, L)
               /\ all = h[n]
  BY <1>1, <1>3, SelectsInTurn
<1> HIDE DEF n, all
<1> DEFINE T(i) == {q[j] : j \in 1..i}
           Good(i) == h[i] \in Accs(R, L) /\ Counted(h[i], L, b) /\ Complete(h[i], T(i))
           Bad == {i \in Nat : i <= n /\ ~Good(i)}
<1>6. 0 \notin Bad
  <2>1. T(0) = {}
    OBVIOUS
  <2> HIDE DEF T
  <2> QED  BY <1>3, <1>5, <2>1
<1>7. ASSUME NEW i \in Nat, i \notin Bad PROVE i + 1 \notin Bad
  <2> SUFFICES ASSUME i + 1 <= n PROVE Good(i + 1)
    OBVIOUS
  <2> DEFINE j == i + 1
             a == h[i]
             c == q[j]
  <2>1. Good(i) /\ j \in 1..n /\ j - 1 = i
    BY <1>1, <1>7
  <2>2. c \in R
    BY <1>1, <2>1
  <2>3. c \notin T(i) /\ T(j) = T(i) \cup {c}
    <3>1. \A o \in 1..i : o \in 1..n /\ o < j
      BY <1>1, <2>1
    <3>2. \A o \in 1..i : q[o] # q[j]
      BY <1>1, <2>1, <3>1
    <3>3. 1..j = (1..i) \cup {j}
      OBVIOUS
    <3> HIDE DEF j
    <3> QED  BY <3>2, <3>3
  <2>4. h[j] = Select(a, c, b, L)
    <3>1. h[j] = Select(h[j - 1], q[j], b, L)
      <4> HIDE DEF j
      <4> QED  BY <1>5, <2>1
    <3> QED  BY <2>1, <3>1
  <2> HIDE DEF j, c, T, a
  <2>5. a \in Accs(R, L) /\ Counted(a, L, b) /\ Complete(a, T(i))
    BY <2>1 DEF a
  <2> DEFINE new == h[j]
             U == T(i)
  <2>6. new = Select(a, c, b, L) /\ c \notin U /\ Complete(a, U)
    BY <2>3, <2>4, <2>5
  <2> HIDE DEF new, U
  <2>7. new \in Accs(R, L) /\ Counted(new, L, b) /\ Complete(new, U \cup {c})
    BY <1>3, <1>4, <2>2, <2>5, <2>6, SelectOneMore
  <2>8. Good(j)
    BY <2>3, <2>7 DEF new, U
  <2> QED  BY <2>8 DEF j
<1>8. Bad = {}
  <2> SUFFICES ASSUME Bad # {} PROVE FALSE
    OBVIOUS
  <2> HIDE DEF Good
  <2>1. PICK k \in Bad : \A j \in Bad : ~(<<j, k>> \in OpToRel(<, Nat))
    BY WFMin, NatLessThanWellFounded
  <2>2. k \in Nat /\ k # 0
    BY <1>6
  <2>3. k - 1 \in Nat /\ (k - 1) + 1 = k /\ <<k - 1, k>> \in OpToRel(<, Nat)
    BY <2>2 DEF OpToRel
  <2>4. k - 1 \notin Bad
    BY <2>1, <2>3
  <2> HIDE DEF Bad
  <2> QED  BY <1>7, <2>3, <2>4
<1>9. Good(n)
  <2> HIDE DEF Good
  <2>1. n \notin Bad /\ n <= n
    BY <1>1, <1>8
  <2> QED  BY <1>1, <2>1
<1>10. T(n) = R
  BY <1>1
<1> HIDE DEF T
<1> QED  BY <1>2, <1>5, <1>9, <1>10 DEF L
-----------------------------------------------------------------------------
(* One assembly.                                                           *)

\* A candidate as the providers make it: typed, contestable only if it is a memory,
\* and neither denied nor ever expired nor contestable if it is critical.
GoodCand(c) ==
    /\ c.must \in BOOLEAN /\ c.rank \in Int /\ c.prio \in Int /\ c.rel \in Int /\ c.id \in Nat
    /\ c.size \in Nat /\ c.source \in Sources
    /\ c.ckey \in Nat \cup {None} /\ c.exp \in Int \cup {Never}
    /\ c.ckey # None => c.source = "memory" /\ c.rank = 1
    /\ c.must => c.denied = "no" /\ c.exp = Never /\ c.ckey = None

\* Candidates with names of their own, no two critical ones the same fact.
GoodCands(C) ==
    /\ IsFiniteSet(C)
    /\ \A c \in C : GoodCand(c)
    /\ \A c, d \in C : c.id = d.id => c = d
    /\ \A c, d \in C : c.must /\ d.must /\ SameFact(c, d) => c = d

\* Who may be read.
MayBeRead(c, t) == c.denied = "no" /\ (c.exp # Never => c.exp > t)

\* Governance lets through what may be read.
LEMMA GovernSays ==
    ASSUME NEW C, GoodCands(C), NEW t \in Int, NEW E, E = Govern(C, t)
    PROVE  /\ E \subseteq C /\ \A c \in C : c \in E <=> MayBeRead(c, t)
           /\ Contestable(E) /\ Sized(E)
           /\ \A c \in C : c.must => c \in E
<1>1. E = {c \in C : Denial(c, t) = "no"}
  BY DEF Govern
<1>2. \A c \in C : Denial(c, t) = "no" <=> MayBeRead(c, t)
  <2> SUFFICES ASSUME NEW c \in C PROVE Denial(c, t) = "no" <=> MayBeRead(c, t)
    OBVIOUS
  <2>1. c.exp \in Int \cup {Never}
    BY DEF GoodCands, GoodCand
  <2> QED  BY <2>1 DEF Denial, Expired, MayBeRead
<1>3. IsFiniteSet(E)
  BY <1>1, FS_Subset DEF GoodCands
<1>4. Sortable(E)
  BY <1>1, <1>3 DEF Sortable, GoodCands, GoodCand
<1>5. \A c \in E : c.source # "system"
  BY <1>1 DEF GoodCands, GoodCand, Sources
<1>6. Contestable(E)
  BY <1>1, <1>4, <1>5 DEF Contestable, GoodCands, GoodCand
<1>7. \A c \in C : c.must => MayBeRead(c, t)
  BY DEF GoodCands, GoodCand, MayBeRead
<1> QED  BY <1>1, <1>2, <1>6, <1>7 DEF Sized, GoodCands, GoodCand

\* What is resolved can be sorted and has sizes.
LEMMA ResolvedSortable ==
    ASSUME NEW C, GoodCands(C), NEW E, E \subseteq C, Contestable(E),
           NEW kept \in Seq(E), NEW R, R = ResolveConflicts(kept)
    PROVE  Sortable(R) /\ Sized(R)
<1> DEFINE K == ToSet(kept)
           CK == Contested(kept)
           N == {Notice(k) : k \in CK}
<1>1. K \subseteq E
  BY DEF ToSet
<1>2. /\ IsFiniteSet(K)
      /\ \A c \in K : GoodCand(c)
      /\ \A c, d \in K : c.id = d.id => c = d
  <2>1. K \subseteq C
    BY <1>1
  <2> HIDE DEF K
  <2> QED  BY <2>1, FS_Subset DEF GoodCands
<1>3. CK \subseteq {c.ckey : c \in K} \ {None}
  BY DEF Contested, ToSet
<1>4. \A k \in CK : k \in Nat
  <2> HIDE DEF CK, K
  <2>1. \A c \in K : c.ckey \in Nat \cup {None}
    BY <1>2 DEF GoodCand
  <2> QED  BY <1>3, <2>1
<1>5. IsFiniteSet(N)
  <2> DEFINE f == [c \in K |-> c.ckey]
             g == [k \in CK |-> Notice(k)]
  <2>1. f \in Surjection(K, {c.ckey : c \in K})
    BY DEF Surjection
  <2>2. IsFiniteSet({c.ckey : c \in K})
    <3> HIDE DEF f, K
    <3> QED  BY <1>2, <2>1, FS_Surjection
  <2>3. IsFiniteSet(CK)
    <3> HIDE DEF CK, K
    <3> QED  BY <1>3, <2>2, FS_Subset
  <2>4. g \in Surjection(CK, N)
    BY DEF Surjection
  <2> HIDE DEF g, CK, N
  <2> QED  BY <2>3, <2>4, FS_Surjection
<1>6. R \subseteq K \cup N
  <2>1. \A r \in R : r \in K \/ \E k \in CK : r = Notice(k)
    <3>1. K \subseteq E
      BY <1>1
    <3> QED  BY <3>1, ResolveSays
  <2> QED  BY <2>1
<1>7. \A n \in N : \E k \in Nat : n = Notice(k)
  BY <1>4
<1>8. \A k \in Nat : /\ Notice(k).must \in BOOLEAN /\ Notice(k).rank \in Int /\ Notice(k).prio \in Int
                     /\ Notice(k).rel \in Int /\ Notice(k).id \in Int /\ Notice(k).size \in Nat
                     /\ Notice(k).id = -1 - k
  BY ContextConstants DEF Notice
<1> HIDE DEF K, CK, N
<1>9. IsFiniteSet(R)
  <2>1. IsFiniteSet(K \cup N)
    BY <1>2, <1>5, FS_Union
  <2> QED  BY <1>6, <2>1, FS_Subset
<1>10. \A c \in R : /\ c.must \in BOOLEAN /\ c.rank \in Int /\ c.prio \in Int /\ c.rel \in Int
                    /\ c.id \in Int /\ c.size \in Nat
  <2> SUFFICES ASSUME NEW c \in R
               PROVE  /\ c.must \in BOOLEAN /\ c.rank \in Int /\ c.prio \in Int /\ c.rel \in Int
                      /\ c.id \in Int /\ c.size \in Nat
    OBVIOUS
  <2>1. CASE c \in K
    BY <1>2, <2>1 DEF GoodCand
  <2>2. CASE c \in N
    BY <1>7, <1>8, <2>2
  <2> QED  BY <1>6, <2>1, <2>2
<1>11. \A c, d \in R : c.id = d.id => c = d
  <2> SUFFICES ASSUME NEW c \in R, NEW d \in R, c.id = d.id PROVE c = d
    OBVIOUS
  <2>1. \A x \in K : x.id \in Nat
    BY <1>2 DEF GoodCand
  <2>2. \A x \in N : \E k \in Nat : x = Notice(k) /\ x.id = -1 - k
    BY <1>7, <1>8
  <2>3. CASE c \in K /\ d \in K
    BY <1>2, <2>3
  <2>4. CASE c \in N /\ d \in N
    <3>1. PICK k \in Nat : c = Notice(k) /\ c.id = -1 - k
      BY <2>2, <2>4
    <3>2. PICK l \in Nat : d = Notice(l) /\ d.id = -1 - l
      BY <2>2, <2>4
    <3>3. k = l
      BY <3>1, <3>2
    <3> QED  BY <3>1, <3>2, <3>3
  <2>5. CASE c \in K /\ d \in N
    BY <2>1, <2>2, <2>5
  <2>6. CASE c \in N /\ d \in K
    BY <2>1, <2>2, <2>6
  <2> QED  BY <1>6, <2>3, <2>4, <2>5, <2>6
<1> QED  BY <1>9, <1>10, <1>11 DEF Sortable, Sized

\* The bodies of the three properties, for one assembly.
BudgetHolds(sel, L, b, C) ==
    /\ Tokens(Wrapper + SumFunction(SizeOf(sel))) <= b
    /\ \A source \in DOMAIN L : SumFunctionOnSet(TokensOf(sel), From(sel, source)) <= L[source]
    /\ \A c \in C : c.must => c \in sel.items
Rival(a, b) == SameFact(a, b) \/ (a.ckey # None /\ a.ckey = b.ckey /\ a.val # b.val)
OnlyTheEligible(sel, C, t) ==
    \A c \in C :
        /\ c \in sel.items \cup sel.dropped => MayBeRead(c, t)
        /\ MayBeRead(c, t) /\ c \notin sel.items \cup sel.dropped =>
              \E d \in C \ {c} : MayBeRead(d, t) /\ Rival(c, d)
Real(sel) == {c \in sel.items : c.source # "system"}
Settled(sel, C, t) ==
    /\ \A a, b \in Real(sel) : a.ckey # None /\ a.ckey = b.ckey => a.val = b.val
    /\ \A c \in sel.items \ Real(sel) : \A d \in Real(sel) : d.ckey # c.ckey
    /\ \A a, b \in Govern(C, t) :
         /\ a.source = "memory" /\ b.source = "memory"
         /\ a.ckey # None /\ a.ckey = b.ckey /\ a.val # b.val /\ (a.risk \/ b.risk)
         /\ \A c \in Govern(C, t) : (c # a => ~SameFact(c, a)) /\ (c # b => ~SameFact(c, b))
         => \E n \in sel.items : n.source = "system" /\ n.ckey = a.ckey

\* They hold of whatever the pipeline assembles.
LEMMA AssembledSays ==
    ASSUME NEW C, GoodCands(C), NEW t \in Int, NEW b, NEW s, Limited(Limits(b, s)),
           NEW sel, sel = AssembleCandidates(C, t, b, s)
    PROVE  /\ sel.ok => BudgetHolds(sel, Limits(b, s), b, C)
           /\ sel.ok => OnlyTheEligible(sel, C, t)
           /\ sel.ok => Settled(sel, C, t)
           /\ sel.items \subseteq C \cup {c \in sel.items : c.source = "system"}
           /\ IsFiniteSet(sel.items)
<1> DEFINE E == Govern(C, t)
           kept == Dedupe(E)
           K == ToSet(kept)
           R == ResolveConflicts(kept)
           L == Limits(b, s)
<1>1. sel = SelectAndProject(R, b, s)
  BY DEF AssembleCandidates
<1>2. /\ E \subseteq C /\ \A c \in C : c \in E <=> MayBeRead(c, t)
      /\ Contestable(E) /\ Sized(E)
      /\ \A c \in C : c.must => c \in E
  BY GovernSays
<1>3. /\ kept \in Seq(E) /\ K \subseteq E
      /\ \A c \in E : c \in K \/ \E d \in K : d # c /\ Before(d, c) /\ SameFact(d, c)
  <2>1. Sortable(E)
    BY <1>2 DEF Contestable
  <2> HIDE DEF E
  <2> QED  BY <2>1, DedupeSays
<1> HIDE DEF E, kept
<1>4. /\ \A r \in R : r \in K \/ \E k \in Contested(kept) : r = Notice(k)
      /\ \A c \in K : c \notin R =>
            c.ckey # None /\ \E d \in K : d.ckey = c.ckey /\ d.val # c.val
      /\ \A x, y \in R : x.source # "system" /\ y.source # "system"
            /\ x.ckey # None /\ x.ckey = y.ckey => x.val = y.val
      /\ \A n, d \in R : n.source = "system" /\ d.source # "system" => d.ckey # n.ckey
      /\ \A x, y \in K :
            x.ckey # None /\ x.ckey = y.ckey /\ x.val # y.val /\ (x.risk \/ y.risk)
            => Notice(x.ckey) \in R
  BY <1>2, <1>3, ResolveSays
<1>5. Sortable(R) /\ Sized(R)
  BY <1>2, <1>3, ResolvedSortable
<1> HIDE DEF K, R
<1>6. sel \in Accs(R, L) /\ Counted(sel, L, b) /\ Complete(sel, R)
  BY <1>1, <1>5, SelectionSays
<1> HIDE DEF L
<1>7. sel.items \subseteq R /\ sel.dropped \subseteq R
  BY <1>6 DEF Complete
<1>8. \A k : Notice(k).source = "system" /\ Notice(k).ckey = k /\ Notice(k).must
  BY DEF Notice
<1>9. \A c \in C : c.source # "system"
  BY DEF GoodCands, GoodCand, Sources
<1>10. \A r \in R : r.source # "system" => r \in K
  BY <1>4, <1>8
<1>11. ASSUME sel.ok, NEW c \in C, c.must PROVE c \in sel.items
  <2>1. c \in E
    BY <1>2, <1>11
  <2>2. \A d \in E : Before(d, c) => d.must
    <3>1. Sortable(E)
      BY <1>2 DEF Contestable
    <3> QED  BY <1>11, <2>1, <3>1, StrictOrder
  <2>3. ~\E d \in K : d # c /\ Before(d, c) /\ SameFact(d, c)
    BY <1>2, <1>3, <1>11, <2>2 DEF GoodCands
  <2>4. c \in K
    BY <1>3, <2>1, <2>3
  <2>5. c.ckey = None
    BY <1>11 DEF GoodCands, GoodCand
  <2>6. c \in R
    BY <1>4, <2>4, <2>5
  <2> QED  BY <1>6, <1>11, <2>6 DEF Complete
<1>12. ASSUME sel.ok PROVE BudgetHolds(sel, L, b, C)
  <2>1. SumFunction(SizeOf(sel)) = SumFunctionOnSet(SizeOf(sel), sel.items)
    BY DEF SumFunction, SizeOf
  <2>2. Tokens(Wrapper + SumFunction(SizeOf(sel))) <= b
    BY <1>6, <1>12, <2>1 DEF Counted
  <2>3. \A source \in DOMAIN L : SumFunctionOnSet(TokensOf(sel), From(sel, source)) <= L[source]
    BY <1>6 DEF Counted
  <2> QED  BY <1>11, <1>12, <2>2, <2>3 DEF BudgetHolds
<1>13. ASSUME sel.ok PROVE OnlyTheEligible(sel, C, t)
  <2>1. sel.items \cup sel.dropped = R
    BY <1>6, <1>13 DEF Complete
  <2>2. ASSUME NEW c \in C, c \in R PROVE MayBeRead(c, t)
    BY <1>2, <1>3, <1>9, <1>10, <2>2
  <2>3. ASSUME NEW c \in C, MayBeRead(c, t), c \notin R
        PROVE  \E d \in C \ {c} : MayBeRead(d, t) /\ Rival(c, d)
    <3>1. c \in E
      BY <1>2, <2>3
    <3>2. CASE c \in K
      <4>1. c.ckey # None /\ \E d \in K : d.ckey = c.ckey /\ d.val # c.val
        BY <1>4, <2>3, <3>2
      <4>2. PICK d \in K : d.ckey = c.ckey /\ d.val # c.val
        BY <4>1
      <4>3. d \in C \ {c} /\ MayBeRead(d, t)
        BY <1>2, <1>3, <4>2
      <4>4. Rival(c, d)
        BY <4>1, <4>2 DEF Rival
      <4> QED  BY <4>3, <4>4
    <3>3. CASE c \notin K
      <4>1. PICK d \in K : d # c /\ SameFact(d, c)
        BY <1>3, <3>1, <3>3
      <4>2. d \in C \ {c} /\ MayBeRead(d, t)
        BY <1>2, <1>3, <4>1
      <4>3. SameFact(c, d)
        BY <4>1 DEF SameFact
      <4> QED  BY <4>2, <4>3 DEF Rival
    <3> QED  BY <3>2, <3>3
  <2> QED  BY <2>1, <2>2, <2>3 DEF OnlyTheEligible
<1>14. ASSUME sel.ok PROVE Settled(sel, C, t)
  <2>1. \A x, y \in Real(sel) : x.ckey # None /\ x.ckey = y.ckey => x.val = y.val
    BY <1>4, <1>7 DEF Real
  <2>2. \A c \in sel.items \ Real(sel) : \A d \in Real(sel) : d.ckey # c.ckey
    BY <1>4, <1>7 DEF Real
  <2>3. ASSUME NEW x \in E, NEW y \in E,
               x.ckey # None, x.ckey = y.ckey, x.val # y.val, x.risk \/ y.risk,
               \A c \in E : (c # x => ~SameFact(c, x)) /\ (c # y => ~SameFact(c, y))
        PROVE  \E n \in sel.items : n.source = "system" /\ n.ckey = x.ckey
    <3>1. x \in K /\ y \in K
      BY <1>3, <2>3
    <3>2. Notice(x.ckey) \in R
      BY <1>4, <2>3, <3>1
    <3>3. Notice(x.ckey) \in sel.items
      BY <1>6, <1>8, <1>14, <3>2 DEF Complete
    <3> QED  BY <1>8, <3>3
  <2> QED  BY <2>1, <2>2, <2>3 DEF Settled, E
<1>15. sel.items \subseteq C \cup {c \in sel.items : c.source = "system"}
  BY <1>2, <1>3, <1>7, <1>10
<1>16. IsFiniteSet(sel.items)
  <2>1. IsFiniteSet(R)
    BY <1>5 DEF Sortable
  <2> QED  BY <1>7, <2>1, FS_Subset
<1> QED  BY <1>12, <1>13, <1>14, <1>15, <1>16 DEF L
-----------------------------------------------------------------------------
(* What the providers serve.                                               *)

\* The sources a provider serves.
SourcesOf(p) ==
    CASE p = "current_input" -> {"current_input"}
      [] p = "current_agent" -> {"current_agent"}
      [] p = "plan" -> {"current_plan"}
      [] p = "history" -> {"host_history", "agent_history"}
      [] p = "results" -> {"recent_result"}
      [] p = "events" -> {"recent_event"}
      [] p = "artifacts" -> {"artifact"}
      [] p = "evidence" -> {"evidence"}
      [] p = "frontend_context" -> {"frontend_context"}
      [] p \in {"memory", "existing_memory"} -> {"memory"}
      [] p = "knowledge" -> {"knowledge"}
      [] p = "plugin" -> {"plugin"}

\* Candidates of the facts W, as a provider serves them.
FromFact(c, W) ==
    /\ c.fact \in W \cup {InputFact}
    /\ c.id = c.fact.id /\ c.source = c.fact.src /\ c.text = c.fact.text /\ c.key = c.fact.key
    /\ c.must => Critical(c.fact)
ServedBy(X, W, p) ==
    /\ IsFiniteSet(X)
    /\ \A c \in X : GoodCand(c) /\ FromFact(c, W) /\ c.source \in SourcesOf(p)
    /\ \A c, d \in X : c.id = d.id => c = d

Makes(g, D, W, p, X) ==
    /\ D \subseteq W \cup {InputFact}
    /\ \A f \in D : /\ g[f].fact = f
                    /\ GoodCand(g[f]) /\ FromFact(g[f], W) /\ g[f].source \in SourcesOf(p)
    /\ X = {g[f] : f \in D}

\* One fact makes one candidate.
LEMMA ServedOnce ==
    ASSUME NEW W \in Worlds, NEW p, NEW D, NEW g, NEW X, Makes(g, D, W, p, X)
    PROVE  ServedBy(X, W, p)
<1> USE DEF Makes
<1>1. IsFiniteSet(D)
  <2>1. IsFiniteSet(W)
    BY ContextConstants
  <2>2. IsFiniteSet(W \cup {InputFact})
    BY <2>1, FS_AddElement
  <2> QED  BY <2>2, FS_Subset
<1>2. IsFiniteSet(X)
  <2> DEFINE h == [f \in D |-> g[f]]
  <2>1. h \in Surjection(D, X)
    BY DEF Surjection
  <2> HIDE DEF h
  <2> QED  BY <1>1, <2>1, FS_Surjection
<1>3. \A c, d \in X : c.id = d.id => c = d
  <2> SUFFICES ASSUME NEW e \in D, NEW f \in D, g[e].id = g[f].id PROVE g[e] = g[f]
    OBVIOUS
  <2>1. g[e].id = e.id /\ g[f].id = f.id
    BY DEF FromFact
  <2>2. e \in W \cup {InputFact} /\ f \in W \cup {InputFact} /\ e.id = f.id
    BY <2>1
  <2>3. e = f
    BY <2>2, ContextConstants
  <2> QED  BY <2>3
<1> QED  BY <1>2, <1>3 DEF ServedBy

\* The candidate of a fact.
LEMMA CandidateSays ==
    ASSUME NEW W \in Worlds, NEW f \in W \cup {InputFact}, NEW r \in Int, NEW pr \in Int,
           NEW m \in BOOLEAN, m => Critical(f), NEW c, c = Candidate(f, r, pr, m)
    PROVE  c.fact = f /\ GoodCand(c) /\ FromFact(c, W) /\ c.source = f.src
<1>1. f \in Fact
  BY ContextConstants
<1>2. /\ f.id \in Nat /\ f.src \in Sources /\ f.rel \in Int /\ f.size \in Nat
  BY <1>1 DEF Fact
<1>3. /\ c.fact = f /\ c.id = f.id /\ c.source = f.src /\ c.rank = r /\ c.prio = pr /\ c.must = m
      /\ c.rel = f.rel /\ c.text = f.text /\ c.key = f.key /\ c.ckey = None /\ c.exp = Never
      /\ c.size = f.size /\ c.denied = "no"
  BY DEF Candidate
<1>4. GoodCand(c)
  BY <1>2, <1>3 DEF GoodCand
<1>5. FromFact(c, W)
  BY <1>3 DEF FromFact
<1> QED  BY <1>3, <1>4, <1>5

\* A set of plain candidates of one authority and priority.
LEMMA ServedPlain ==
    ASSUME NEW W \in Worlds, NEW p, NEW D, D \subseteq W \cup {InputFact}, NEW r \in Int,
           NEW pr \in Int, NEW m \in BOOLEAN, m => \A f \in D : Critical(f),
           \A f \in D : f.src \in SourcesOf(p),
           NEW X, X = {Candidate(f, r, pr, m) : f \in D}
    PROVE  ServedBy(X, W, p)
<1> DEFINE g == [f \in D |-> Candidate(f, r, pr, m)]
<1>1. \A f \in D : /\ g[f].fact = f
                   /\ GoodCand(g[f]) /\ FromFact(g[f], W) /\ g[f].source \in SourcesOf(p)
  BY CandidateSays
<1>2. X = {g[f] : f \in D}
  OBVIOUS
<1> HIDE DEF g
<1>3. Makes(g, D, W, p, X)
  BY <1>1, <1>2 DEF Makes
<1> QED  BY <1>3, ServedOnce

\* The sources of each provider, one by one.
LEMMA SourcesSay ==
    /\ SourcesOf("current_input") = {"current_input"}
    /\ SourcesOf("current_agent") = {"current_agent"}
    /\ SourcesOf("plan") = {"current_plan"}
    /\ SourcesOf("history") = {"host_history", "agent_history"}
    /\ SourcesOf("results") = {"recent_result"}
    /\ SourcesOf("events") = {"recent_event"}
    /\ SourcesOf("artifacts") = {"artifact"}
    /\ SourcesOf("evidence") = {"evidence"}
    /\ SourcesOf("frontend_context") = {"frontend_context"}
    /\ SourcesOf("memory") = {"memory"}
    /\ SourcesOf("existing_memory") = {"memory"}
    /\ SourcesOf("knowledge") = {"knowledge"}
    /\ SourcesOf("plugin") = {"plugin"}
  BY DEF SourcesOf

\* What a provider offers.
LEMMA OfferSays ==
    ASSUME NEW s \in {"route", "dispatch", "invoke"}, NEW p \in Providers(s),
           p # "existing_memory", world.facts \in Worlds
    PROVE  ServedBy(Offer(p, s), world.facts, p)
<1> DEFINE W == world.facts
<1>1. \A source : Of(source) \subseteq W \cup {InputFact} /\ \A f \in Of(source) : f.src = source
  BY DEF Of
<1>2. W \in Worlds
  OBVIOUS
<1>3. InputFact.src = "current_input" /\ InputFact \in W \cup {InputFact}
  BY ContextConstants
<1>4. \A f \in W \cup {InputFact} : f \in Fact
  BY ContextConstants
<1>5. TRUE \in BOOLEAN /\ FALSE \in BOOLEAN
  OBVIOUS
<1>6. Offer(p, s) =
         CASE p = "current_input" -> CurrentInputProvider
           [] p = "current_agent" -> CurrentAgentProvider
           [] p = "plan" -> PlanProvider
           [] p = "history" -> HistoryProvider
           [] p = "results" -> ResultProvider
           [] p = "events" -> EventProvider
           [] p = "artifacts" -> ArtifactProvider
           [] p = "evidence" -> EvidenceContextProvider
           [] p = "frontend_context" -> FrontendContextProvider
           [] p = "memory" -> MemoryRetrievalProvider(s)
           [] p = "existing_memory" -> FilterTaskMemory(results["dispatch"].memory)
           [] p = "knowledge" -> KnowledgeRetrievalProvider
           [] p = "plugin" -> PluginProvider
  BY DEF Offer
<1> DEFINE X == Offer(p, s)
<1> HIDE DEF W, X
<1>7. CASE p = "current_input"
  <2> DEFINE D == {InputFact}
             r == 0
             pr == 100
             m == TRUE
  <2>1. X = {Candidate(f, r, pr, m) : f \in D}
    BY <1>6, <1>7 DEF CurrentInputProvider, X
  <2>2. D \subseteq W \cup {InputFact} /\ \A f \in D : Critical(f) /\ f.src \in SourcesOf(p)
    BY <1>3, <1>7, SourcesSay DEF Critical
  <2>3. r \in Int /\ pr \in Int /\ m \in BOOLEAN
    OBVIOUS
  <2> HIDE DEF D, r, pr, m
  <2>4. ServedBy(X, W, p)
    BY <1>2, <2>1, <2>2, <2>3, ServedPlain
  <2> QED  BY <2>4 DEF W, X
<1>8. CASE p \in {"current_agent", "plan"}
  <2> DEFINE source == IF p = "plan" THEN "current_plan" ELSE "current_agent"
             pr == IF p = "plan" THEN 90 ELSE 95
             D == Of(source)
             r == 0
             m == TRUE
  <2>1. X = {Candidate(f, r, pr, m) : f \in D}
    BY <1>6, <1>8 DEF PlanProvider, CurrentAgentProvider, X
  <2>2. D \subseteq W \cup {InputFact} /\ \A f \in D : Critical(f) /\ f.src \in SourcesOf(p)
    BY <1>1, <1>8, SourcesSay DEF Critical
  <2>3. r \in Int /\ pr \in Int /\ m \in BOOLEAN
    OBVIOUS
  <2> HIDE DEF D, pr, r, m
  <2>4. ServedBy(X, W, p)
    BY <1>2, <2>1, <2>2, <2>3, ServedPlain
  <2> QED  BY <2>4 DEF W, X
<1>9. CASE p \in {"results", "artifacts", "evidence", "frontend_context", "knowledge"}
  <2> DEFINE source == CASE p = "results" -> "recent_result"
                         [] p = "artifacts" -> "artifact" [] p = "evidence" -> "evidence"
                         [] p = "frontend_context" -> "frontend_context"
                         [] p = "knowledge" -> "knowledge"
             r == CASE p \in {"results", "artifacts"} -> 0
                    [] p \in {"evidence", "knowledge"} -> 1 [] p = "frontend_context" -> 2
             pr == CASE p = "results" -> 72 [] p = "artifacts" -> 70
                     [] p = "evidence" -> 58 [] p = "frontend_context" -> 55 [] p = "knowledge" -> 68
             D == Of(source)
  <2>1. X = {Candidate(f, r, pr, FALSE) : f \in D}
    BY <1>6, <1>9 DEF ResultProvider, ArtifactProvider, EvidenceContextProvider,
                      FrontendContextProvider, KnowledgeRetrievalProvider, X
  <2>2. D \subseteq W \cup {InputFact} /\ \A f \in D : f.src \in SourcesOf(p)
    BY <1>1, <1>9, SourcesSay
  <2>3. r \in Int /\ pr \in Int
    BY <1>9
  <2> HIDE DEF D, pr, r
  <2>4. ServedBy(X, W, p)
    BY <1>2, <2>1, <2>2, <2>3, ServedPlain
  <2> QED  BY <2>4 DEF W, X
<1>10. CASE p \in {"history", "events"}
  <2> DEFINE D == IF p = "events" THEN Of("recent_event")
                  ELSE Of("host_history") \cup Of("agent_history")
             rank(f) == IF p = "events" THEN 0
                        ELSE IF f.mark = "user" THEN 0 ELSE IF f.mark = "agent" THEN 3 ELSE 1
             prio(f) == IF p = "events" THEN (IF f.mark = "referenced" THEN 74 ELSE 56)
                        ELSE IF f.src = "agent_history" THEN 48 ELSE 40
             g == [f \in D |-> Candidate(f, rank(f), prio(f), FALSE)]
  <2>1. X = {g[f] : f \in D}
    <3>1. CASE p = "history"
      BY <1>6, <3>1 DEF HistoryProvider, X
    <3>2. CASE p = "events"
      BY <1>6, <3>2 DEF EventProvider, X
    <3> QED  BY <1>10, <3>1, <3>2
  <2>2. D \subseteq W \cup {InputFact} /\ \A f \in D : f.src \in SourcesOf(p)
    BY <1>1, <1>10, SourcesSay
  <2>3. \A f \in D : g[f].fact = f /\ GoodCand(g[f]) /\ FromFact(g[f], W) /\ g[f].source = f.src
    <3> HIDE DEF D
    <3> SUFFICES ASSUME NEW f \in D
                 PROVE  g[f].fact = f /\ GoodCand(g[f]) /\ FromFact(g[f], W) /\ g[f].source = f.src
      OBVIOUS
    <3> DEFINE r == rank(f)
               pr == prio(f)
               m == FALSE
               c == g[f]
    <3>1. c = Candidate(f, r, pr, m) /\ r \in Int /\ pr \in Int /\ m \in BOOLEAN /\ ~m
      OBVIOUS
    <3>2. f \in W \cup {InputFact}
      BY <2>2
    <3> HIDE DEF r, pr, m, c
    <3>3. c.fact = f /\ GoodCand(c) /\ FromFact(c, W) /\ c.source = f.src
      BY <1>2, <3>1, <3>2, CandidateSays
    <3> QED  BY <3>3 DEF c
  <2> HIDE DEF D, g
  <2>4. Makes(g, D, W, p, X)
    BY <2>1, <2>2, <2>3 DEF Makes
  <2> QED  BY <1>2, <2>4, ServedOnce DEF W, X
<1>11. CASE p = "memory"
  <2> DEFINE D == {f \in Of("memory") :
                    IF f.scope = "task" THEN s # "route" /\ "task" \in AgentScopes /\ PlanIsActive
                    ELSE f.scope \in (IF s = "route" THEN RouteScopes ELSE AgentScopes)}
             g == [f \in D |-> [Candidate(f, 1, 64, FALSE) EXCEPT !.ckey = f.ckey, !.exp = f.exp]]
  <2>1. X = {g[f] : f \in D}
    BY <1>6, <1>11 DEF MemoryRetrievalProvider, X
  <2>2. D \subseteq W \cup {InputFact} /\ \A f \in D : f.src = "memory" /\ f.src \in SourcesOf(p)
    BY <1>1, <1>11, SourcesSay
  <2>3. \A f \in D : /\ g[f].fact = f
                     /\ GoodCand(g[f]) /\ FromFact(g[f], W) /\ g[f].source \in SourcesOf(p)
    <3> HIDE DEF D
    <3> SUFFICES ASSUME NEW f \in D
                 PROVE  /\ g[f].fact = f
                        /\ GoodCand(g[f]) /\ FromFact(g[f], W) /\ g[f].source \in SourcesOf(p)
      OBVIOUS
    <3> DEFINE c == g[f]
    <3>1. f \in Fact /\ f \in W \cup {InputFact} /\ f.src = "memory" /\ f.src \in SourcesOf(p)
      BY <1>4, <2>2
    <3>2. c = [Candidate(f, 1, 64, FALSE) EXCEPT !.ckey = f.ckey, !.exp = f.exp]
      OBVIOUS
    <3> HIDE DEF g, c
    <3>3. /\ c.fact = f /\ c.id = f.id /\ c.source = f.src /\ c.rank = 1 /\ c.prio = 64
          /\ c.must \in BOOLEAN /\ ~c.must /\ c.rel = f.rel /\ c.text = f.text /\ c.key = f.key
          /\ c.ckey = f.ckey /\ c.exp = f.exp /\ c.size = f.size
      BY <3>2 DEF Candidate
    <3>4. /\ f.id \in Nat /\ f.src \in Sources /\ f.rel \in Int /\ f.size \in Nat
          /\ f.ckey \in Nat \cup {None} /\ f.exp \in Int \cup {Never}
      BY <3>1 DEF Fact
    <3>5. GoodCand(c)
      BY <3>1, <3>3, <3>4 DEF GoodCand
    <3>6. FromFact(c, W)
      BY <3>1, <3>3 DEF FromFact
    <3> QED  BY <3>1, <3>3, <3>5, <3>6 DEF c
  <2> HIDE DEF D, g
  <2>4. Makes(g, D, W, p, X)
    BY <2>1, <2>2, <2>3 DEF Makes
  <2> QED  BY <1>2, <2>4, ServedOnce DEF W, X
<1>12. CASE p = "plugin"
  <2> DEFINE D == Of("plugin")
             g == [f \in D |-> [Candidate(f, 0, 99, FALSE) EXCEPT !.denied = f.denied, !.exp = f.exp]]
  <2>1. X = {g[f] : f \in D}
    BY <1>6, <1>12 DEF PluginProvider, X
  <2>2. D \subseteq W \cup {InputFact} /\ \A f \in D : f.src \in SourcesOf(p)
    BY <1>1, <1>12, SourcesSay
  <2>3. \A f \in D : /\ g[f].fact = f
                     /\ GoodCand(g[f]) /\ FromFact(g[f], W) /\ g[f].source \in SourcesOf(p)
    <3> HIDE DEF D
    <3> SUFFICES ASSUME NEW f \in D
                 PROVE  /\ g[f].fact = f
                        /\ GoodCand(g[f]) /\ FromFact(g[f], W) /\ g[f].source \in SourcesOf(p)
      OBVIOUS
    <3> DEFINE c == g[f]
    <3>1. f \in Fact /\ f \in W \cup {InputFact} /\ f.src \in SourcesOf(p)
      BY <1>4, <2>2
    <3>2. c = [Candidate(f, 0, 99, FALSE) EXCEPT !.denied = f.denied, !.exp = f.exp]
      OBVIOUS
    <3> HIDE DEF g, c
    <3>3. /\ c.fact = f /\ c.id = f.id /\ c.source = f.src /\ c.rank = 0 /\ c.prio = 99
          /\ c.must \in BOOLEAN /\ ~c.must /\ c.rel = f.rel /\ c.text = f.text /\ c.key = f.key
          /\ c.ckey = None /\ c.exp = f.exp /\ c.size = f.size
      BY <3>2 DEF Candidate
    <3>4. /\ f.id \in Nat /\ f.src \in Sources /\ f.rel \in Int /\ f.size \in Nat
          /\ f.exp \in Int \cup {Never}
      BY <3>1 DEF Fact
    <3>5. GoodCand(c)
      BY <3>3, <3>4 DEF GoodCand
    <3>6. FromFact(c, W)
      BY <3>1, <3>3 DEF FromFact
    <3> QED  BY <3>1, <3>3, <3>5, <3>6 DEF c
  <2> HIDE DEF D, g
  <2>4. Makes(g, D, W, p, X)
    BY <2>1, <2>2, <2>3 DEF Makes
  <2> QED  BY <1>2, <2>4, ServedOnce DEF W, X
<1>13. p \in {"current_input", "current_agent", "plan", "history", "results", "events", "artifacts",
              "evidence", "frontend_context", "memory", "plugin", "knowledge"}
  BY DEF Providers
<1> QED  BY <1>7, <1>8, <1>9, <1>10, <1>11, <1>12, <1>13

\* The memories that are in the input already.
LEMMA FilteredMemory ==
    ASSUME NEW W \in Worlds, NEW X, ServedBy(X, W, "memory")
    PROVE  ServedBy(FilterTaskMemory(X), W, "existing_memory")
<1> DEFINE D == {d \in X : d.fact.scope = "task" => PlanIsActive}
           g == [c \in D |-> [c EXCEPT !.ckey = None]]
           Y == FilterTaskMemory(X)
<1>1. Y = {g[c] : c \in D}
  BY DEF FilterTaskMemory
<1>2. D \subseteq X /\ IsFiniteSet(D)
  BY FS_Subset DEF ServedBy
<1>3. IsFiniteSet(Y)
  <2>1. g \in Surjection(D, Y)
    BY <1>1 DEF Surjection
  <2> HIDE DEF g, D, Y
  <2> QED  BY <1>2, <2>1, FS_Surjection
<1>4. ASSUME NEW c \in D
      PROVE  /\ g[c].id = c.id
             /\ GoodCand(g[c]) /\ FromFact(g[c], W) /\ g[c].source \in SourcesOf("existing_memory")
  <2> DEFINE d == g[c]
  <2>1. GoodCand(c) /\ FromFact(c, W) /\ c.source \in SourcesOf("memory")
    BY <1>2 DEF ServedBy
  <2>2. d = [c EXCEPT !.ckey = None]
    OBVIOUS
  <2> HIDE DEF d, D
  <2>3. /\ d.fact = c.fact /\ d.id = c.id /\ d.source = c.source /\ d.rank = c.rank
        /\ d.prio = c.prio /\ d.must = c.must /\ d.rel = c.rel /\ d.text = c.text
        /\ d.key = c.key /\ d.exp = c.exp /\ d.size = c.size /\ d.denied = c.denied
        /\ d.ckey \in Nat \cup {None} /\ (d.ckey # None => d.ckey = c.ckey)
    BY <2>1, <2>2 DEF GoodCand
  <2>4. GoodCand(d)
    BY <2>1, <2>3 DEF GoodCand
  <2>5. FromFact(d, W)
    BY <2>1, <2>3 DEF FromFact
  <2> QED  BY <2>1, <2>3, <2>4, <2>5, SourcesSay DEF d
<1>5. \A c, d \in Y : c.id = d.id => c = d
  <2>1. ASSUME NEW c \in D, NEW d \in D, g[c].id = g[d].id PROVE g[c] = g[d]
    <3>1. c.id = d.id
      BY <1>4, <2>1
    <3>2. c = d
      BY <1>2, <3>1 DEF ServedBy
    <3> QED  BY <3>2
  <2> HIDE DEF g, D, Y
  <2> QED  BY <1>1, <2>1
<1>6. \A c \in Y : GoodCand(c) /\ FromFact(c, W) /\ c.source \in SourcesOf("existing_memory")
  BY <1>1, <1>4
<1> QED  BY <1>3, <1>5, <1>6 DEF ServedBy
-----------------------------------------------------------------------------
(* The pipeline.                                                           *)

\* Two providers of one assembly serve different sources.
LEMMA SourcesApart ==
    ASSUME NEW s \in {"route", "dispatch", "invoke"}, NEW p \in Providers(s), NEW o \in Providers(s),
           NEW source \in SourcesOf(p), source \in SourcesOf(o)
    PROVE  p = o
<1>1. s = "route" => Providers(s) = {"current_input", "current_agent", "plan", "history", "results",
            "events", "artifacts", "evidence", "frontend_context", "memory", "plugin"}
  BY DEF Providers
<1>2. s = "dispatch" => Providers(s) = {"plan", "memory"}
  BY DEF Providers
<1>3. s = "invoke" => Providers(s) = {"plan", "existing_memory", "knowledge"}
  BY DEF Providers
<1>4. CASE s = "dispatch"
  BY <1>2, <1>4, SourcesSay
<1>5. CASE s = "invoke"
  BY <1>3, <1>5, SourcesSay
<1>6. CASE s = "route"
  <2> DEFINE Is(q) == \/ q = "current_input" /\ source = "current_input"
                      \/ q = "current_agent" /\ source = "current_agent"
                      \/ q = "plan" /\ source = "current_plan"
                      \/ q = "history" /\ source \in {"host_history", "agent_history"}
                      \/ q = "results" /\ source = "recent_result"
                      \/ q = "events" /\ source = "recent_event"
                      \/ q = "artifacts" /\ source = "artifact"
                      \/ q = "evidence" /\ source = "evidence"
                      \/ q = "frontend_context" /\ source = "frontend_context"
                      \/ q = "memory" /\ source = "memory"
                      \/ q = "plugin" /\ source = "plugin"
  <2>1. \A q \in Providers(s) : source \in SourcesOf(q) => Is(q)
    BY <1>1, <1>6, SourcesSay
  <2>2. Is(p) /\ Is(o)
    BY <2>1
  <2> QED  BY <2>2
<1> QED  BY <1>4, <1>5, <1>6

\* What the providers of an assembly have answered together.
LEMMA CollectedSays ==
    ASSUME NEW s \in {"route", "dispatch", "invoke"}, world.facts \in Worlds,
           DOMAIN got = Providers(s),
           \A p \in Providers(s) : ServedBy(got[p].cands, world.facts, p)
    PROVE  GoodCands(Collected) /\ \A c \in Collected : FromFact(c, world.facts)
<1> DEFINE W == world.facts
           C == Collected
<1>1. \A c \in C : \E p \in Providers(s) : c \in got[p].cands
  BY DEF Collected
<1>2. \A c \in C : GoodCand(c) /\ FromFact(c, W)
  BY <1>1 DEF ServedBy
<1>3. ASSUME NEW c \in C, NEW d \in C, c.fact = d.fact PROVE c = d
  <2>1. PICK p \in Providers(s) : c \in got[p].cands
    BY <1>1
  <2>2. PICK o \in Providers(s) : d \in got[o].cands
    BY <1>1
  <2>3. c.source = d.source /\ c.id = d.id
    BY <1>2, <1>3 DEF FromFact
  <2>4. c.source \in SourcesOf(p) /\ c.source \in SourcesOf(o)
    BY <2>1, <2>2, <2>3 DEF ServedBy
  <2>5. p = o
    BY <2>4, SourcesApart
  <2> QED  BY <2>1, <2>2, <2>3, <2>5 DEF ServedBy
<1>4. W \in Worlds /\ \A f, e \in W \cup {InputFact} : f.id = e.id => f = e
  BY ContextConstants
<1>5. \A c, d \in C : c.id = d.id => c = d
  <2> SUFFICES ASSUME NEW c \in C, NEW d \in C, c.id = d.id PROVE c = d
    OBVIOUS
  <2>1. /\ c.fact \in W \cup {InputFact} /\ d.fact \in W \cup {InputFact}
        /\ c.id = c.fact.id /\ d.id = d.fact.id
    BY <1>2 DEF FromFact
  <2> HIDE DEF C, W
  <2>2. c.fact = d.fact
    BY <1>4, <2>1
  <2> QED  BY <1>3, <2>2
<1>6. ASSUME NEW c \in C, NEW d \in C, c.must, d.must, SameFact(c, d) PROVE c = d
  <2> DEFINE f == c.fact
             e == d.fact
  <2>1. /\ f \in W \cup {InputFact} /\ e \in W \cup {InputFact} /\ Critical(f) /\ Critical(e)
        /\ c.key = f.key /\ d.key = e.key /\ c.source = f.src /\ d.source = e.src
    BY <1>2, <1>6 DEF FromFact
  <2>2. CASE c.key = d.key
    <3>1. f.key = e.key
      BY <2>1, <2>2
    <3> HIDE DEF f, e, W
    <3>2. f = e
      BY <1>4, <2>1, <3>1, ContextConstants
    <3> QED  BY <1>3, <3>2 DEF f, e
  <2>3. CASE c.key # d.key
    <3>1. Family(c.source) # None /\ Family(c.source) = Family(d.source)
      BY <1>6, <2>3 DEF SameFact
    <3>2. c.source \in {"current_input", "current_agent", "current_plan"}
          /\ d.source \in {"current_input", "current_agent", "current_plan"}
      BY <2>1 DEF Critical
    <3>3. Family("current_agent") = None /\ Family("current_plan") = None
      BY DEF Family
    <3>4. c.source = "current_input" /\ d.source = "current_input"
      BY <3>1, <3>2, <3>3
    <3>5. \A x \in W : x.src # "current_input"
      BY <1>4, ContextConstants
    <3>6. f = InputFact /\ e = InputFact
      BY <2>1, <3>4, <3>5
    <3> QED  BY <1>3, <3>6
  <2> QED  BY <2>2, <2>3
<1>7. IsFiniteSet(C)
  <2> DEFINE F == [c \in C |-> c.fact]
             D == W \cup {InputFact}
  <2>1. IsFiniteSet(D)
    <3>1. IsFiniteSet(W)
      BY <1>4, ContextConstants
    <3> QED  BY <3>1, FS_AddElement
  <2>2. \A c \in C : c.fact \in D
    BY <1>2 DEF FromFact
  <2> HIDE DEF C, D
  <2>3. F \in Injection(C, D)
    BY <1>3, <2>2 DEF Injection, IsInjective
  <2> HIDE DEF F
  <2> QED  BY <2>1, <2>3, FS_Injection
<1> QED  BY <1>2, <1>5, <1>6, <1>7 DEF GoodCands

\* Cutting the Agent's input to fit only takes away.
LEMMA FittingSays ==
    ASSUME NEW M, Sortable(M), NEW N, Sortable(N), NEW summary
    PROVE  Fitting(M, N, summary)[1] \subseteq M
<1> DEFINE m == Sorted(M)
           k == Sorted(N)
           Cut(i, j) == <<ToSet(SubSeq(m, 1, i)), ToSet(SubSeq(k, 1, j))>>
           Room(ij) == /\ ij[2] > 0 => ij[1] = Len(m)
                       /\ InputTokens(Cut(ij[1], ij[2])[1] \cup Cut(ij[1], ij[2])[2], summary)
                            <= AgentBudget
           good == {ij \in (0..Len(m)) \X (0..Len(k)) : Room(ij)}
           best == IF good = {} THEN <<0, 0>>
                   ELSE CHOOSE ij \in good : \A o \in good : o[1] + o[2] <= ij[1] + ij[2]
<1>1. Fitting(M, N, summary) = Cut(best[1], best[2])
  BY DEF Fitting
<1>2. m \in Seq(M) /\ Len(m) \in Nat /\ Len(k) \in Nat
  BY SortedLists
<1>3. good \subseteq (0..Len(m)) \X (0..Len(k))
  OBVIOUS
<1> HIDE DEF Room, good, m, k
<1>4. best[1] \in 0..Len(m)
  <2>1. CASE good = {}
    BY <1>2, <2>1
  <2>2. CASE good # {}
    <3> DEFINE Left(ij) == (Len(m) + Len(k)) - (ij[1] + ij[2])
               T == {x \in Nat : \E ij \in good : x = Left(ij)}
    <3>1. \A ij \in good : ij[1] \in 0..Len(m) /\ ij[2] \in 0..Len(k)
      BY <1>3
    <3>2. \A ij \in good : Left(ij) \in Nat
      BY <1>2, <3>1
    <3>3. T # {} /\ T \subseteq Nat
      BY <2>2, <3>2
    <3>4. PICK x \in T : \A y \in T : ~(<<y, x>> \in OpToRel(<, Nat))
      BY <3>3, WFMin, NatLessThanWellFounded
    <3>5. PICK ij \in good : x = Left(ij)
      OBVIOUS
    <3>6. \A o \in good : o[1] + o[2] <= ij[1] + ij[2]
      <4> SUFFICES ASSUME NEW o \in good PROVE o[1] + o[2] <= ij[1] + ij[2]
        OBVIOUS
      <4>1. Left(o) \in T /\ Left(o) \in Nat /\ x \in Nat
        BY <3>2
      <4>2. ~(Left(o) < x)
        BY <3>4, <4>1 DEF OpToRel
      <4> QED  BY <1>2, <3>1, <3>5, <4>2
    <3>7. \E p \in good : \A o \in good : o[1] + o[2] <= p[1] + p[2]
      BY <3>6
    <3>8. best \in good
      BY <2>2, <3>7
    <3> HIDE DEF best
    <3> QED  BY <3>1, <3>8
  <2> QED  BY <2>1, <2>2
<1> HIDE DEF best
<1>5. ToSet(SubSeq(m, 1, best[1])) \subseteq M
  <2> DEFINE i == best[1]
             q == SubSeq(m, 1, i)
  <2>1. i \in Int /\ 1 \in Int /\ \A j \in 1..i : m[j] \in M
    BY <1>2, <1>4
  <2> HIDE DEF i
  <2>2. q \in Seq(M)
    BY <2>1, SubSeqProperties
  <2> HIDE DEF q
  <2>3. ToSet(q) \subseteq M
    BY <2>2 DEF ToSet
  <2> QED  BY <2>3 DEF q, i
<1> QED  BY <1>1, <1>5

\* The Agent's token budget is a number.
LEMMA AgentTokensType == AgentTokens \in Nat
<1>1. BaseInput \in Nat /\ AgentBudget \in Nat
  BY ContextConstants
<1>2. Tokens(BaseInput) \in Nat
  BY <1>1, TokensType
<1> QED  BY <1>1, <1>2 DEF AgentTokens

\* The limits of a stage are numbers.
LEMMA StageLimits ==
    ASSUME NEW s \in {"route", "dispatch", "invoke"} PROVE Limited(Limits(BudgetOf(s), s))
<1>1. CASE s = "route"
  BY <1>1, ContextConstants DEF Limits, Limited
<1>2. CASE s # "route"
  <2>1. Limits(BudgetOf(s), s) = [source \in {"memory", "knowledge"} |-> AgentTokens]
    BY <1>2 DEF Limits, BudgetOf
  <2> QED  BY <2>1, AgentTokensType DEF Limited
<1> QED  BY <1>1, <1>2

\* A finished assembly: its result is what the pipeline makes of its candidates,
\* and the memories a dispatch leaves to the invocation are some of them.
AssembledOf(s, r) ==
    /\ r.at \in Int /\ GoodCands(r.cands)
    /\ r.sel = AssembleCandidates(r.cands, r.at, BudgetOf(s), s)
    /\ s = "dispatch" => ServedBy(r.memory, world.facts, "memory")

\* What holds of the pipeline in every state.
PipelineInv ==
    /\ world.facts \in Worlds /\ now \in Int
    /\ stage \in {"route", "dispatch", "invoke"}
    /\ DOMAIN results = {"route", "dispatch", "invoke"}
    /\ stage = "invoke" => results["dispatch"] # NoResult
    /\ DOMAIN got = Providers(stage)
    /\ \A p \in Providers(stage) : ServedBy(got[p].cands, world.facts, p)
    /\ \A s \in {"route", "dispatch", "invoke"} :
         results[s] # NoResult => AssembledOf(s, results[s])

\* No candidates are served by anyone.
LEMMA NothingServed == ASSUME NEW W, NEW p PROVE ServedBy({}, W, p)
  BY FS_EmptySet DEF ServedBy

\* Whatever a provider of an assembly offers, the memories in the input included.
LEMMA OfferServed ==
    ASSUME NEW s \in {"route", "dispatch", "invoke"}, NEW p \in Providers(s), world.facts \in Worlds,
           s = "invoke" => ServedBy(results["dispatch"].memory, world.facts, "memory")
    PROVE  ServedBy(Offer(p, s), world.facts, p)
<1>1. CASE p # "existing_memory"
  BY <1>1, OfferSays
<1>2. CASE p = "existing_memory"
  <2>1. s = "invoke"
    BY <1>2 DEF Providers
  <2>2. Offer(p, s) = FilterTaskMemory(results["dispatch"].memory)
    BY <1>2 DEF Offer
  <2>3. ServedBy(FilterTaskMemory(results["dispatch"].memory), world.facts, "existing_memory")
    BY <2>1, FilteredMemory
  <2> QED  BY <1>2, <2>2, <2>3
<1> QED  BY <1>1, <1>2

\* What the in-process providers of a new assembly have served.
LEMMA AskedSays ==
    ASSUME NEW s \in {"route", "dispatch", "invoke"}, world.facts \in Worlds,
           s = "invoke" => ServedBy(results["dispatch"].memory, world.facts, "memory")
    PROVE  DOMAIN Asked(s) = Providers(s)
           /\ \A p \in Providers(s) : ServedBy(Asked(s)[p].cands, world.facts, p)
<1>1. DOMAIN Asked(s) = Providers(s)
  BY DEF Asked
<1>2. ASSUME NEW p \in Providers(s) PROVE ServedBy(Asked(s)[p].cands, world.facts, p)
  <2>1. Asked(s)[p].cands = {} \/ Asked(s)[p].cands = Offer(p, s)
    BY DEF Asked
  <2>2. ServedBy({}, world.facts, p)
    BY NothingServed
  <2>3. ServedBy(Offer(p, s), world.facts, p)
    BY OfferServed
  <2> QED  BY <2>1, <2>2, <2>3
<1> QED  BY <1>1, <1>2

\* Every initial state.
LEMMA PipelineStart == CtxInit => PipelineInv
<1> SUFFICES ASSUME CtxInit PROVE PipelineInv
  OBVIOUS
<1>1. world.facts \in Worlds /\ now = 0 /\ stage = "route" /\ got = Asked("route")
  BY DEF CtxInit
<1>2. results = [s \in {"route", "dispatch", "invoke"} |-> NoResult]
  BY ThreeStages DEF CtxInit
<1>3. DOMAIN got = Providers("route")
      /\ \A p \in Providers("route") : ServedBy(got[p].cands, world.facts, p)
  BY <1>1, AskedSays
<1> QED  BY <1>1, <1>2, <1>3 DEF PipelineInv

\* The memories among what was selected, and the knowledge.
LEMMA SelectedFrom ==
    ASSUME NEW C, GoodCands(C), NEW W, \A c \in C : FromFact(c, W),
           NEW sel, sel.items \subseteq C \cup {c \in sel.items : c.source = "system"},
           NEW source, source # "system"
    PROVE  BySource(sel, source) \subseteq C /\ Sortable(BySource(sel, source))
           /\ \A c \in BySource(sel, source) : c.source = source
<1> DEFINE B == BySource(sel, source)
<1>1. B \subseteq C /\ \A c \in B : c.source = source
  BY DEF BySource
<1> HIDE DEF B
<1>2. IsFiniteSet(B)
  BY <1>1, FS_Subset DEF GoodCands
<1>3. Sortable(B)
  BY <1>1, <1>2 DEF Sortable, GoodCands, GoodCand
<1> QED  BY <1>1, <1>3 DEF B

\* The result of the assembly of this stage.
LEMMA ResultSays ==
    ASSUME PipelineInv, NEW r, r = IF stage = "route" THEN RouteResult ELSE AgentResult(stage)
    PROVE  AssembledOf(stage, r)
<1> DEFINE C == Collected
           W == world.facts
           b == BudgetOf(stage)
           sel == AssembleCandidates(C, now, b, stage)
<1>1. GoodCands(C) /\ \A c \in C : FromFact(c, W)
  BY CollectedSays DEF PipelineInv
<1>2. Limited(Limits(b, stage)) /\ now \in Int /\ stage \in {"route", "dispatch", "invoke"}
  BY StageLimits DEF PipelineInv
<1> HIDE DEF C, W, b, sel
<1>3. sel.items \subseteq C \cup {c \in sel.items : c.source = "system"}
  BY <1>1, <1>2, AssembledSays DEF sel
<1>4. CASE stage = "route"
  <2>1. r = RouteResult /\ b = world.budget
    BY <1>4 DEF BudgetOf, b
  <2>2. r.at = now /\ r.cands = C /\ r.sel = sel
    BY <1>4, <2>1 DEF RouteResult, Result, C, sel, b
  <2> QED  BY <1>1, <1>2, <1>4, <2>2 DEF AssembledOf, b, sel
<1>5. CASE stage # "route"
  <2>1. r = AgentResult(stage) /\ b = AgentTokens
    BY <1>5 DEF BudgetOf, b
  <2> DEFINE M == BySource(sel, "memory")
             N == BySource(sel, "knowledge")
             summary == MemorySummary(sel, stage)
             fit == Fitting(M, N, summary \cup N)
  <2>2. r.at = now /\ r.cands = C /\ r.sel = sel /\ r.memory = fit[1]
    BY <2>1 DEF AgentResult, Result, C, sel
  <2>3. M \subseteq C /\ Sortable(M) /\ \A c \in M : c.source = "memory"
    BY <1>1, <1>3, SelectedFrom
  <2>4. Sortable(N)
    BY <1>1, <1>3, SelectedFrom
  <2> HIDE DEF M, N, summary
  <2>5. fit[1] \subseteq M
    BY <2>3, <2>4, FittingSays
  <2> HIDE DEF fit
  <2>6. ServedBy(r.memory, W, "memory")
    <3>1. r.memory \subseteq C /\ \A c \in r.memory : c.source = "memory"
      BY <2>2, <2>3, <2>5
    <3>2. IsFiniteSet(r.memory)
      BY <1>1, <3>1, FS_Subset DEF GoodCands
    <3>3. SourcesOf("memory") = {"memory"}
      BY SourcesSay
    <3> QED  BY <1>1, <3>1, <3>2, <3>3 DEF ServedBy, GoodCands
  <2> QED  BY <1>1, <1>2, <2>2, <2>6 DEF AssembledOf, b, sel, W
<1> QED  BY <1>4, <1>5

\* Finished assemblies that stay as they are stay what they are.
LEMMA FinishedStay ==
    ASSUME PipelineInv, UNCHANGED world, NEW s \in {"route", "dispatch", "invoke"},
           results'[s] = results[s], results[s] # NoResult
    PROVE  AssembledOf(s, results[s])'
<1>1. BudgetOf(s)' = BudgetOf(s)
  BY DEF BudgetOf
<1>2. AssembledOf(s, results[s])
  BY DEF PipelineInv
<1> QED  BY <1>1, <1>2 DEF AssembledOf

\* The answer of a provider, or its failure.
LEMMA AnswerKept ==
    ASSUME PipelineInv, UNCHANGED <<world, now, stage, results>>, NEW p \in DOMAIN got, NEW status,
           NEW cands, cands = {} \/ cands = Offer(p, stage),
           got' = [got EXCEPT ![p] = [status |-> status, cands |-> cands]]
    PROVE  PipelineInv'
<1>1. p \in Providers(stage) /\ stage \in {"route", "dispatch", "invoke"}
      /\ world.facts \in Worlds
  BY DEF PipelineInv
<1>2. ServedBy(cands, world.facts, p)
  <2>1. stage = "invoke" => ServedBy(results["dispatch"].memory, world.facts, "memory")
    BY DEF PipelineInv, AssembledOf
  <2>2. ServedBy({}, world.facts, p) /\ ServedBy(Offer(p, stage), world.facts, p)
    BY <1>1, <2>1, NothingServed, OfferServed
  <2> QED  BY <2>2
<1>3. DOMAIN got' = Providers(stage)
      /\ \A o \in Providers(stage) : ServedBy(got'[o].cands, world.facts, o)
  BY <1>2 DEF PipelineInv
<1>4. \A s \in {"route", "dispatch", "invoke"} :
        results'[s] # NoResult => AssembledOf(s, results[s])'
  <2> SUFFICES ASSUME NEW s \in {"route", "dispatch", "invoke"}, results'[s] # NoResult
               PROVE  AssembledOf(s, results[s])'
    OBVIOUS
  <2>1. results'[s] = results[s] /\ results[s] # NoResult
    BY DEF NoResult
  <2> QED  BY <2>1, FinishedStay
<1> QED  BY <1>1, <1>3, <1>4 DEF PipelineInv, NoResult, Providers

\* Every step of the pipeline keeps what its results are made of.
LEMMA PipelineStep == PipelineInv /\ [CtxNext]_ctxVars => PipelineInv'
<1> SUFFICES ASSUME PipelineInv, [CtxNext]_ctxVars PROVE PipelineInv'
  OBVIOUS
<1>1. CASE \E p \in DOMAIN got : Collect(p)
  <2>1. PICK p \in DOMAIN got : Collect(p)
    BY <1>1
  <2> DEFINE cands == Offer(p, stage)
             status == IF Offer(p, stage) = {} THEN "empty" ELSE "ok"
  <2>2. /\ UNCHANGED <<world, now, stage, results>>
        /\ got' = [got EXCEPT ![p] = [status |-> status, cands |-> cands]]
    BY <2>1 DEF Collect
  <2> SUFFICES ASSUME NEW x, x = status, NEW y, y = cands PROVE PipelineInv'
    OBVIOUS
  <2>3. got' = [got EXCEPT ![p] = [status |-> x, cands |-> y]]
    BY <2>2
  <2>4. y = {} \/ y = Offer(p, stage)
    OBVIOUS
  <2> HIDE DEF cands, status
  <2> QED  BY <2>2, <2>3, <2>4, AnswerKept
<1>2. CASE \E p \in DOMAIN got, f \in Failures : CollectFails(p, f)
  <2>1. PICK p \in DOMAIN got, f \in Failures : CollectFails(p, f)
    BY <1>2
  <2> DEFINE none == {}
  <2>2. /\ UNCHANGED <<world, now, stage, results>>
        /\ got' = [got EXCEPT ![p] = [status |-> f, cands |-> none]]
    BY <2>1 DEF CollectFails
  <2>3. none = {} \/ none = Offer(p, stage)
    OBVIOUS
  <2> HIDE DEF none
  <2> QED  BY <2>2, <2>3, AnswerKept
<1>3. ASSUME UNCHANGED world, NEW s \in {"route", "dispatch", "invoke"},
             results'[s] = results[s], results'[s] # NoResult
      PROVE  AssembledOf(s, results[s])'
  <2>1. results[s] # NoResult
    BY <1>3 DEF NoResult
  <2> QED  BY <1>3, <2>1, FinishedStay
<1>4. CASE Tick \/ UNCHANGED ctxVars
  <2>1. UNCHANGED <<world, stage, got, results>> /\ now' \in Int
    BY <1>4 DEF Tick, ctxVars, PipelineInv
  <2>2. \A s \in {"route", "dispatch", "invoke"} :
          results'[s] # NoResult => AssembledOf(s, results[s])'
    BY <1>3, <2>1
  <2> QED  BY <2>1, <2>2 DEF PipelineInv, Providers, NoResult
<1>5. CASE Assemble
  <2> DEFINE new == IF stage = "route" THEN RouteResult ELSE AgentResult(stage)
  <2>1. results' = [results EXCEPT ![stage] = new] /\ UNCHANGED <<world, now, stage, got>>
    BY <1>5 DEF Assemble
  <2>2. AssembledOf(stage, new)
    <3> HIDE DEF new
    <3>1. PICK r : r = new
      OBVIOUS
    <3>2. r = IF stage = "route" THEN RouteResult ELSE AgentResult(stage)
      BY <3>1 DEF new
    <3> QED  BY <3>1, <3>2, ResultSays
  <2> HIDE DEF new
  <2>3. /\ DOMAIN results' = {"route", "dispatch", "invoke"} /\ stage \in {"route", "dispatch", "invoke"}
        /\ results'[stage] = new
        /\ \A s \in {"route", "dispatch", "invoke"} : s # stage => results'[s] = results[s]
    BY <2>1 DEF PipelineInv
  <2>4. BudgetOf(stage)' = BudgetOf(stage)
    BY <2>1 DEF BudgetOf
  <2>5. AssembledOf(stage, results[stage])'
    BY <2>1, <2>2, <2>3, <2>4 DEF AssembledOf
  <2>6. ASSUME NEW s \in {"route", "dispatch", "invoke"}, results'[s] # NoResult
        PROVE  AssembledOf(s, results[s])'
    <3>1. CASE s = stage
      BY <2>1, <2>5, <3>1
    <3>2. CASE s # stage
      BY <1>3, <2>1, <2>3, <2>6, <3>2
    <3> QED  BY <3>1, <3>2
  <2>7. stage' = "invoke" => results'["dispatch"] # NoResult
    BY <2>1, <2>3 DEF PipelineInv, NoResult
  <2> QED  BY <2>1, <2>3, <2>6, <2>7 DEF PipelineInv, Providers
<1>6. CASE Proceed
  <2>1. /\ UNCHANGED <<world, now, results>> /\ stage' \in {"route", "dispatch", "invoke"}
        /\ results[stage].status = "ok" /\ got' = Asked(NextStage) /\ stage' = NextStage
        /\ stage' = "invoke" => stage = "dispatch"
    BY <1>6 DEF Proceed, NextStage, PipelineInv
  <2>2. stage' = "invoke" => results["dispatch"] # NoResult
    BY <2>1 DEF NoResult
  <2>3. stage' = "invoke" => ServedBy(results["dispatch"].memory, world.facts, "memory")
    BY <2>2 DEF PipelineInv, AssembledOf
  <2>4. DOMAIN got' = Providers(stage')
        /\ \A p \in Providers(stage') : ServedBy(got'[p].cands, world.facts, p)
    <3>1. PICK s \in {"route", "dispatch", "invoke"} : s = NextStage
      BY <2>1
    <3>2. DOMAIN Asked(s) = Providers(s)
          /\ \A p \in Providers(s) : ServedBy(Asked(s)[p].cands, world.facts, p)
      BY <2>1, <2>3, <3>1, AskedSays DEF PipelineInv
    <3>3. got' = Asked(s) /\ stage' = s
      BY <2>1, <3>1
    <3> QED  BY <3>2, <3>3
  <2>5. \A s \in {"route", "dispatch", "invoke"} :
          results'[s] # NoResult => AssembledOf(s, results[s])'
    BY <1>3, <2>1
  <2> QED  BY <2>1, <2>2, <2>4, <2>5 DEF PipelineInv, Providers, NoResult
<1> QED  BY <1>1, <1>2, <1>4, <1>5, <1>6 DEF CtxNext

\* What holds of every finished assembly that succeeded.
LEMMA SucceededSays ==
    ASSUME PipelineInv, NEW s \in Succeeded
    PROVE  /\ BudgetHolds(results[s].sel, Limits(BudgetOf(s), s), BudgetOf(s), results[s].cands)
           /\ OnlyTheEligible(results[s].sel, results[s].cands, results[s].at)
           /\ Settled(results[s].sel, results[s].cands, results[s].at)
<1>1. s \in {"route", "dispatch", "invoke"} /\ results[s] # NoResult /\ results[s].sel.ok
  BY ThreeStages DEF Succeeded, Finished
<1> DEFINE C == results[s].cands
           t == results[s].at
           b == BudgetOf(s)
           sel == results[s].sel
<1>2. GoodCands(C) /\ t \in Int /\ sel = AssembleCandidates(C, t, b, s)
  BY <1>1 DEF PipelineInv, AssembledOf
<1>3. Limited(Limits(b, s)) /\ sel.ok
  BY <1>1, StageLimits
<1> HIDE DEF C, t, b, sel
<1>4. /\ sel.ok => BudgetHolds(sel, Limits(b, s), b, C)
      /\ sel.ok => OnlyTheEligible(sel, C, t)
      /\ sel.ok => Settled(sel, C, t)
  BY <1>2, <1>3, AssembledSays
<1> QED  BY <1>3, <1>4 DEF C, t, b, sel

\* The hard budget, whatever a request finds, however its budgets are set: what a
\* successful assembly projects stays within the total budget and within every
\* source's, and no critical candidate is missing (_select_and_project).
THEOREM HardBudgetAlwaysHolds == CtxSpec => []HardBudget
<1>1. PipelineInv => HardBudget
  <2> SUFFICES ASSUME PipelineInv, NEW s \in Succeeded
               PROVE  LET sel == results[s].sel
                          limits == Limits(BudgetOf(s), s)
                          size == [c \in sel.items |-> IF c \in sel.short THEN Minimal ELSE Rendered(c)]
                          tokens == [c \in sel.items |-> Tokens(size[c])]
                      IN  /\ Tokens(Wrapper + SumFunction(size)) <= BudgetOf(s)
                          /\ \A source \in DOMAIN limits :
                                SumFunctionOnSet(tokens, {c \in sel.items : c.source = source})
                                    <= limits[source]
                          /\ \A c \in results[s].cands : c.must => c \in sel.items
    BY DEF HardBudget
  <2>1. BudgetHolds(results[s].sel, Limits(BudgetOf(s), s), BudgetOf(s), results[s].cands)
    BY SucceededSays
  <2> QED  BY <2>1 DEF BudgetHolds, SizeOf, TokensOf, From
<1> QED  BY <1>1, PipelineStart, PipelineStep, PTL DEF CtxSpec

\* Governance comes first: only what the consumer may read decides what it reads,
\* and only another one that may be read keeps a candidate out (_govern,
\* _dedupe_and_resolve_conflicts).
THEOREM EligibleAlwaysDecide == CtxSpec => []OnlyEligibleInfluence
<1>1. PipelineInv => OnlyEligibleInfluence
  <2> SUFFICES ASSUME PipelineInv, NEW s \in Succeeded
               PROVE  LET sel == results[s].sel
                          may(c) == c.denied = "no" /\ (c.exp # Never => c.exp > results[s].at)
                          shown == sel.items \cup sel.dropped
                          rival(a, b) ==
                              \/ SameFact(a, b)
                              \/ a.ckey # None /\ a.ckey = b.ckey /\ a.val # b.val
                      IN  \A c \in results[s].cands :
                             /\ c \in shown => may(c)
                             /\ may(c) /\ c \notin shown =>
                                   \E d \in results[s].cands \ {c} : may(d) /\ rival(c, d)
    BY DEF OnlyEligibleInfluence
  <2>1. OnlyTheEligible(results[s].sel, results[s].cands, results[s].at)
    BY SucceededSays
  <2> QED  BY <2>1 DEF OnlyTheEligible, MayBeRead, Rival
<1> QED  BY <1>1, PipelineStart, PipelineStep, PTL DEF CtxSpec

\* Conflicts, for any set of memories: what is projected never holds two values of
\* one contested fact, and a risky disagreement leaves only its notice
\* (_dedupe_and_resolve_conflicts).
THEOREM ConflictsAlwaysSettled == CtxSpec => []ConflictsSettled
<1>1. PipelineInv => ConflictsSettled
  <2> SUFFICES ASSUME PipelineInv, NEW s \in Succeeded
               PROVE  LET items == results[s].sel.items
                          real == {c \in items : c.source # "system"}
                          may == Govern(results[s].cands, results[s].at)
                      IN  /\ \A a, b \in real : a.ckey # None /\ a.ckey = b.ckey => a.val = b.val
                          /\ \A c \in items \ real : \A d \in real : d.ckey # c.ckey
                          /\ \A a, b \in may :
                               /\ a.source = "memory" /\ b.source = "memory"
                               /\ a.ckey # None /\ a.ckey = b.ckey /\ a.val # b.val /\ (a.risk \/ b.risk)
                               /\ \A c \in may : (c # a => ~SameFact(c, a)) /\ (c # b => ~SameFact(c, b))
                               => \E n \in items : n.source = "system" /\ n.ckey = a.ckey
    BY DEF ConflictsSettled
  <2>1. Settled(results[s].sel, results[s].cands, results[s].at)
    BY SucceededSays
  <2> QED  BY <2>1 DEF Settled, Real
<1> QED  BY <1>1, PipelineStart, PipelineStep, PTL DEF CtxSpec
=============================================================================
