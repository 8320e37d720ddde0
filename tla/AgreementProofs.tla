--------------------------- MODULE AgreementProofs ----------------------------
(***************************************************************************)
(* The Turn of an invocation is decided once, for any number of handlers   *)
(* and repairers: Invocations implements TurnLifecycle, and Turn, Result   *)
(* and answers agree.  Every replica keeps a copy of the agents that agrees *)
(* with their rows.  Memories rest on what users and the system have said, *)
(* whoever decides about them and however often.                           *)
(***************************************************************************)
EXTENDS Invocations, AgentRegistry, MemoryDecisions, TLAPS

-----------------------------------------------------------------------------
(* Canonical invocations.                                                  *)

AllStatus == {"none"} \cup ResultStatus

TurnType == [status : ACTIVE_TURN_STATUSES \cup TERMINAL_RUN_STATUSES, version : Nat,
             runs : Seq(Handler), results : Seq(Handler)]
RunType == [status : {"running"} \cup AllStatus, suppressed : BOOLEAN, attached : BOOLEAN]
ResultType == [status : AllStatus, suppressed : BOOLEAN]
HandlerType == [pc : {"new", "invoking", "answered", "commit", "store", "done"},
                status : AllStatus, suppressed : BOOLEAN, version : Nat,
                answer : SUBSET Handler]
RepairType == [pc : {"idle", "classified", "repaired"}, runs : SUBSET Handler]

InvTypeOK ==
    /\ turn \in TurnType
    /\ run \in [Handler -> RunType]
    /\ result \in [Handler -> ResultType]
    /\ handler \in [Handler -> HandlerType]
    /\ repair \in [Repairer -> RepairType]

\* An open Turn has neither an announcement nor a Result.
OpenIsUndecided == TurnActive => outbox = {} /\ audit = {} /\ turn.results = <<>>

\* The lock of a repair is exclusive, and its Turn stays open under it.
LockHolds ==
    /\ \A k \in Repairer : repair[k].pc = "classified" => TurnActive
    /\ \A j, k \in Repairer :
          repair[j].pc = "classified" /\ repair[k].pc = "classified" => j = k

\* What a handler about to commit has read is old, or the Turn is still open.
ReadIsOldOrOpen ==
    \A h \in Handler : HandlerAt(h, "commit") =>
        /\ handler[h].version <= turn.version
        /\ handler[h].version = turn.version => TurnActive

\* What a handler has done so far.
Progress ==
    \A h \in Handler :
        /\ ~HandlerAt(h, "done") => result[h].status = "none"
        /\ handler[h].pc \in {"answered", "commit", "store"} => handler[h].status \in ResultStatus
        /\ HandlerAt(h, "commit") => h \in Managed
        /\ HandlerAt(h, "store") => h \in Direct
        /\ h \in Managed /\ handler[h].pc \in {"invoking", "answered", "commit"} => run[h].attached

\* An answer names the Result of the Turn, which exists.
AnswerNamesResult ==
    \A h \in Managed : handler[h].answer # {} =>
        turn.results # <<>> /\ handler[h].answer = {Latest(turn.results)}

InvInv ==
    /\ InvTypeOK /\ OpenIsUndecided /\ LockHolds /\ ReadIsOldOrOpen /\ Progress
    /\ TurnShowsResult /\ AnswerNamesResult

\* The first id of a list is its only and its latest one.
LEMMA AddToEmpty ==
    ASSUME NEW h \in Handler
    PROVE  /\ Add(<<>>, h) = <<h>>
           /\ Add(<<>>, h) # <<>>
           /\ Latest(Add(<<>>, h)) = h
BY DEF Add, Latest

\* A list of handlers stays one.
LEMMA AddKeepsType ==
    ASSUME NEW h \in Handler, NEW s \in Seq(Handler)
    PROVE  Add(s, h) \in Seq(Handler)
BY DEF Add

\* The inductive invariant holds initially.
LEMMA InvInitially == InvInit => InvInv
<1> SUFFICES ASSUME InvInit PROVE InvInv
  OBVIOUS
<1>1. InvTypeOK
  BY DEF InvInit, InvTypeOK, TurnType, RunType, ResultType, HandlerType, RepairType,
         AllStatus, NoRun, NoResult, ACTIVE_TURN_STATUSES
<1>2. OpenIsUndecided /\ LockHolds /\ ReadIsOldOrOpen /\ Progress
  BY DEF InvInit, OpenIsUndecided, LockHolds, ReadIsOldOrOpen, Progress, HandlerAt, NoResult
<1>3. TurnShowsResult /\ AnswerNamesResult
  BY DEF InvInit, TurnShowsResult, AnswerNamesResult, Handler
<1> QED BY <1>1, <1>2, <1>3 DEF InvInv

-----------------------------------------------------------------------------
(* Steps that leave the Turn, its notices and the Results alone.           *)

\* A step that changes one handler, and at most its Run, keeps the invariant if
\* what the handler holds fits the rows.
LEMMA HandlerStepKeeps ==
    ASSUME InvInv, NEW h \in Handler, NEW new \in HandlerType,
           handler' = [handler EXCEPT ![h] = new],
           UNCHANGED <<turn, result, outbox, audit, repair>>,
           run' \in [Handler -> RunType],
           \A g \in Handler : g # h \/ result[h].status # "none" => run'[g] = run[g],
           new.pc # "done" => result[h].status = "none",
           new.pc \in {"answered", "commit", "store"} => new.status \in ResultStatus,
           new.pc = "commit" => h \in Managed /\ new.version = turn.version /\ TurnActive,
           new.pc = "store" => h \in Direct,
           h \in Managed /\ new.pc \in {"invoking", "answered", "commit"} => run'[h].attached,
           h \in Managed /\ new.answer # {} =>
               turn.results # <<>> /\ new.answer = {Latest(turn.results)}
    PROVE  InvInv'
<1>0. handler \in [Handler -> HandlerType] /\ turn \in TurnType
  BY DEF InvInv, InvTypeOK
<1>h. \A g \in Handler : handler'[g] = IF g = h THEN new ELSE handler[g]
  BY <1>0
<1>1. InvTypeOK'
  BY <1>0 DEF InvInv, InvTypeOK
<1>2. OpenIsUndecided' /\ LockHolds'
  BY DEF InvInv, OpenIsUndecided, LockHolds, TurnActive
<1>3. ReadIsOldOrOpen'
  <2>1. turn.version \in Nat
    BY <1>0 DEF TurnType
  <2> QED BY <1>h, <2>1 DEF InvInv, ReadIsOldOrOpen, TurnActive, HandlerAt
<1>4. Progress'
  <2> SUFFICES ASSUME NEW g \in Handler
               PROVE  /\ handler'[g].pc # "done" => result[g].status = "none"
                      /\ handler'[g].pc \in {"answered", "commit", "store"}
                            => handler'[g].status \in ResultStatus
                      /\ handler'[g].pc = "commit" => g \in Managed
                      /\ handler'[g].pc = "store" => g \in Direct
                      /\ g \in Managed /\ handler'[g].pc \in {"invoking", "answered", "commit"}
                            => run'[g].attached
    BY DEF Progress, HandlerAt
  <2>1. CASE g = h
    BY <2>1, <1>h
  <2>2. CASE g # h
    BY <2>2, <1>h DEF InvInv, Progress, HandlerAt
  <2> QED BY <2>1, <2>2
<1>5. TurnShowsResult'
  <2>1. turn.results # <<>> => Latest(turn.results) \in Handler
    BY <1>0 DEF TurnType, Latest
  <2> QED BY <2>1 DEF InvInv, TurnShowsResult, TurnActive, Latest
<1>6. AnswerNamesResult'
  BY <1>h DEF InvInv, AnswerNamesResult, Handler, Latest
<1> QED BY <1>1, <1>2, <1>3, <1>4, <1>5, <1>6 DEF InvInv

\* The steps of that form: calls, answers, reads, refusals and deaths.
LEMMA HandlersKeep ==
    ASSUME InvInv, NEW h \in Handler,
           \/ \E b \in BOOLEAN : AddRun(h, b)
           \/ \E s \in ResultStatus : InvokerReturns(h, s)
           \/ ReplayRun(h) \/ RefuseRun(h) \/ ReadRows(h)
           \/ CompleteConflict(h) \/ UpdateRun(h) \/ Dies(h)
    PROVE  InvInv'
<1>0. /\ handler \in [Handler -> HandlerType] /\ handler[h] \in HandlerType
      /\ run \in [Handler -> RunType] /\ run[h] \in RunType /\ turn \in TurnType
  BY DEF InvInv, InvTypeOK
<1>p. /\ handler[h].pc # "done" => result[h].status = "none"
      /\ h \in Managed /\ handler[h].pc \in {"invoking", "answered", "commit"} => run[h].attached
      /\ h \in Managed /\ handler[h].answer # {} =>
            turn.results # <<>> /\ handler[h].answer = {Latest(turn.results)}
      /\ handler[h].pc \in {"answered", "commit", "store"} => handler[h].status \in ResultStatus
  BY DEF InvInv, Progress, AnswerNamesResult, HandlerAt
<1>d. h \in Direct => h \notin Managed
  BY InvocationsAssumption
<1>1. ASSUME NEW b \in BOOLEAN, AddRun(h, b) PROVE InvInv'
  <2> DEFINE new == [handler[h] EXCEPT !.pc = "invoking", !.suppressed = b]
  <2>1. new \in HandlerType
    BY <1>0 DEF HandlerType
  <2>2. new.pc = "invoking" /\ new.answer = handler[h].answer
    BY <1>0 DEF HandlerType
  <2>3. handler' = [handler EXCEPT ![h] = new]
    BY <1>1, <1>0 DEF AddRun
  <2>4. run' \in [Handler -> RunType]
    BY <1>1, <1>0 DEF AddRun, RunType
  <2>5. \A g \in Handler : g # h => run'[g] = run[g]
    BY <1>1, <1>0 DEF AddRun
  <2>6. h \in Direct /\ handler[h].pc = "new" /\ UNCHANGED <<turn, result, outbox, audit, repair>>
    BY <1>1 DEF AddRun, HandlerAt
  <2> QED
    <3> HIDE DEF new
    <3> QED BY <2>1, <2>2, <2>3, <2>4, <2>5, <2>6, <1>p, <1>d, HandlerStepKeeps
<1>2. ASSUME NEW s \in ResultStatus, InvokerReturns(h, s) PROVE InvInv'
  <2> DEFINE new == [handler[h] EXCEPT !.pc = "answered", !.status = s]
  <2>1. new \in HandlerType
    BY <1>0 DEF HandlerType, AllStatus
  <2>2. new.pc = "answered" /\ new.status = s /\ new.answer = handler[h].answer
    BY <1>0 DEF HandlerType
  <2>3. handler' = [handler EXCEPT ![h] = new]
    BY <1>2, <1>0 DEF InvokerReturns
  <2>4. handler[h].pc = "invoking" /\ UNCHANGED <<turn, run, result, outbox, audit, repair>>
    BY <1>2 DEF InvokerReturns, HandlerAt
  <2> QED
    <3> HIDE DEF new
    <3> QED BY <2>1, <2>2, <2>3, <2>4, <1>0, <1>p, HandlerStepKeeps
<1>3. ASSUME NEW a \in SUBSET Handler, handler' = [handler EXCEPT ![h].pc = "done", ![h].answer = a],
             UNCHANGED <<turn, run, result, outbox, audit, repair>>,
             h \in Managed /\ a # {} => turn.results # <<>> /\ a = {Latest(turn.results)}
      PROVE  InvInv'
  <2> DEFINE new == [handler[h] EXCEPT !.pc = "done", !.answer = a]
  <2>1. new \in HandlerType
    BY <1>0 DEF HandlerType
  <2>2. new.pc = "done" /\ new.answer = a
    BY <1>0 DEF HandlerType
  <2>3. handler' = [handler EXCEPT ![h] = new]
    BY <1>3, <1>0
  <2> QED
    <3> HIDE DEF new
    <3> QED BY <2>1, <2>2, <2>3, <1>3, <1>0, HandlerStepKeeps
<1>4. CASE ReplayRun(h)
  <2>1. turn.results # <<>> => Latest(turn.results) \in Handler
    BY <1>0 DEF TurnType, Latest
  <2> DEFINE a == IF turn.results = <<>> THEN {} ELSE {Latest(turn.results)}
  <2>2. a \in SUBSET Handler /\ (a # {} => turn.results # <<>> /\ a = {Latest(turn.results)})
    BY <2>1
  <2>3. handler' = [handler EXCEPT ![h].pc = "done", ![h].answer = a]
    BY <1>4 DEF ReplayRun
  <2>4. UNCHANGED <<turn, run, result, outbox, audit, repair>>
    BY <1>4 DEF ReplayRun
  <2> QED
    <3> HIDE DEF a
    <3> QED BY <2>2, <2>3, <2>4, <1>3
<1>5. CASE Goto(h, "done") /\ UNCHANGED <<turn, run, result, outbox, audit, repair>>
  <2>1. handler[h].answer \in SUBSET Handler
    BY <1>0 DEF HandlerType
  <2>2. handler' = [handler EXCEPT ![h].pc = "done", ![h].answer = handler[h].answer]
    <3>1. [handler[h] EXCEPT !.pc = "done"]
            = [[handler[h] EXCEPT !.pc = "done"] EXCEPT !.answer = handler[h].answer]
      BY <1>0 DEF HandlerType
    <3> QED BY <1>5, <1>0, <3>1 DEF Goto
  <2> QED BY <1>5, <2>1, <2>2, <1>3, <1>p
<1>6. CASE RefuseRun(h) \/ CompleteConflict(h) \/ Dies(h)
  BY <1>5, <1>6 DEF RefuseRun, CompleteConflict, Dies
<1>7. CASE ReadRows(h)
  <2>1. CASE ~TurnActive
    <3>1. handler' = [handler EXCEPT ![h] = [handler[h] EXCEPT !.pc = "done"]]
      BY <1>7, <2>1 DEF ReadRows
    <3>2. Goto(h, "done")
      BY <3>1 DEF Goto
    <3> QED BY <1>5, <1>7, <3>2 DEF ReadRows
  <2>2. CASE TurnActive
    <3> DEFINE new == [handler[h] EXCEPT !.pc = "commit", !.version = turn.version]
    <3>1. new \in HandlerType
      BY <1>0 DEF HandlerType, TurnType
    <3>2. /\ new.pc = "commit" /\ new.version = turn.version
          /\ new.status = handler[h].status /\ new.answer = handler[h].answer
      BY <1>0 DEF HandlerType
    <3>3. handler' = [handler EXCEPT ![h] = new]
      BY <1>7, <2>2 DEF ReadRows
    <3>4. /\ h \in Managed /\ handler[h].pc = "answered"
          /\ UNCHANGED <<turn, run, result, outbox, audit, repair>>
      BY <1>7 DEF ReadRows, HandlerAt
    <3> QED
      <4> HIDE DEF new
      <4> QED BY <3>1, <3>2, <3>3, <3>4, <2>2, <1>0, <1>p, HandlerStepKeeps
  <2> QED BY <2>1, <2>2
<1>8. CASE UpdateRun(h)
  <2> DEFINE new == [handler[h] EXCEPT !.pc = "store"]
  <2>1. new \in HandlerType
    BY <1>0 DEF HandlerType
  <2>2. new.pc = "store" /\ new.status = handler[h].status /\ new.answer = handler[h].answer
    BY <1>0 DEF HandlerType
  <2>3. handler' = [handler EXCEPT ![h] = new]
    BY <1>8, <1>0 DEF UpdateRun, Goto
  <2>4. /\ h \in Direct /\ handler[h].pc = "answered"
        /\ run' = [run EXCEPT ![h] = [run[h] EXCEPT !.status = handler[h].status]]
        /\ UNCHANGED <<turn, result, outbox, audit, repair>>
    BY <1>8, <1>0 DEF UpdateRun, HandlerAt
  <2>5. /\ [run[h] EXCEPT !.status = handler[h].status] \in RunType
        /\ [run[h] EXCEPT !.status = handler[h].status].attached = run[h].attached
    BY <1>0, <1>p, <2>4 DEF RunType, AllStatus
  <2>6. /\ run' \in [Handler -> RunType] /\ run'[h].attached = run[h].attached
        /\ \A g \in Handler : g # h => run'[g] = run[g]
    BY <2>4, <2>5, <1>0
  <2> QED
    <3> HIDE DEF new
    <3> QED BY <2>1, <2>2, <2>3, <2>4, <2>6, <1>p, <1>d, HandlerStepKeeps
<1> QED BY <1>1, <1>2, <1>4, <1>6, <1>7, <1>8

-----------------------------------------------------------------------------
(* Steps that change the Turn or a Result.                                 *)

\* The Run is created and attached to the Turn.
LEMMA StartRunKeeps ==
    ASSUME InvInv, NEW h \in Handler, NEW b \in BOOLEAN, StartRun(h, b)
    PROVE  InvInv'
<1>0. /\ handler \in [Handler -> HandlerType] /\ handler[h] \in HandlerType
      /\ run \in [Handler -> RunType] /\ turn \in TurnType
  BY DEF InvInv, InvTypeOK
<1> DEFINE new == [handler[h] EXCEPT !.pc = "invoking", !.suppressed = b]
           row == [status |-> "running", suppressed |-> b, attached |-> TRUE]
<1>1. /\ new \in HandlerType /\ new.pc = "invoking" /\ new.answer = handler[h].answer
      /\ handler' = [handler EXCEPT ![h] = new]
  BY <1>0 DEF StartRun, HandlerType
<1>2. row \in RunType /\ row.attached /\ run' = [run EXCEPT ![h] = row]
  BY DEF StartRun, RunType
<1>3. /\ turn' \in TurnType /\ TurnActive /\ TurnActive'
      /\ turn'.version = turn.version + 1 /\ turn'.results = turn.results
  <2>1. turn' = [turn EXCEPT !.status = "running", !.version = turn.version + 1,
                             !.runs = Append(turn.runs, h)]
    BY DEF StartRun
  <2>2. Append(turn.runs, h) \in Seq(Handler) /\ turn.version + 1 \in Nat
    BY <1>0 DEF TurnType
  <2>3. turn'.status = "running" /\ turn'.version = turn.version + 1 /\ turn'.results = turn.results
    BY <2>1, <1>0 DEF TurnType
  <2>4. "running" \in ACTIVE_TURN_STATUSES
    BY DEF ACTIVE_TURN_STATUSES
  <2>5. turn' \in TurnType
    <3> HIDE DEF ACTIVE_TURN_STATUSES, new, row
    <3> QED BY <2>1, <2>2, <2>4, <1>0 DEF TurnType
  <2>6. TurnActive
    BY DEF StartRun
  <2> QED BY <2>3, <2>4, <2>5, <2>6 DEF TurnActive
<1>4. /\ handler[h].pc = "new" /\ h \in Managed
      /\ UNCHANGED <<result, outbox, audit, repair>>
  BY DEF StartRun, HandlerAt
<1>5. turn.results = <<>> /\ turn'.results = <<>>
  BY <1>3 DEF InvInv, OpenIsUndecided
<1> HIDE DEF new, row
<1>h. \A g \in Handler : handler'[g] = IF g = h THEN new ELSE handler[g]
  BY <1>0, <1>1
<1>r. \A g \in Handler : run'[g] = IF g = h THEN row ELSE run[g]
  BY <1>0, <1>2
<1>6. InvTypeOK'
  BY <1>0, <1>1, <1>2, <1>3, <1>4 DEF InvInv, InvTypeOK
<1>7. OpenIsUndecided' /\ LockHolds'
  BY <1>3, <1>4, <1>5 DEF InvInv, OpenIsUndecided, LockHolds
<1>8. ReadIsOldOrOpen'
  <2>1. turn.version \in Nat /\ \A g \in Handler : handler[g].version \in Nat
    BY <1>0 DEF TurnType, HandlerType
  <2> QED BY <1>h, <1>1, <1>3, <2>1 DEF InvInv, ReadIsOldOrOpen, HandlerAt
<1>9. Progress'
  <2>1. h \notin Direct
    BY <1>4, InvocationsAssumption
  <2> QED BY <1>h, <1>r, <1>1, <1>2, <1>4, <2>1 DEF InvInv, Progress, HandlerAt
<1>10. TurnShowsResult'
  BY <1>5 DEF TurnShowsResult
<1>11. AnswerNamesResult'
  BY <1>h, <1>1, <1>5 DEF InvInv, AnswerNamesResult, Handler
<1> QED BY <1>6, <1>7, <1>8, <1>9, <1>10, <1>11 DEF InvInv

\* The Result of a Run is added.
LEMMA AddResultKeeps ==
    ASSUME InvInv, NEW h \in Handler, AddResult(h)
    PROVE  InvInv'
<1>0. /\ handler \in [Handler -> HandlerType] /\ handler[h] \in HandlerType
      /\ result \in [Handler -> ResultType] /\ turn \in TurnType
  BY DEF InvInv, InvTypeOK
<1> DEFINE new == [handler[h] EXCEPT !.pc = "done", !.answer = {h}]
           row == [status |-> handler[h].status, suppressed |-> handler[h].suppressed]
<1>1. new \in HandlerType /\ new.pc = "done" /\ handler' = [handler EXCEPT ![h] = new]
  BY <1>0 DEF AddResult, HandlerType
<1>2. row \in ResultType /\ result' = [result EXCEPT ![h] = row]
  BY <1>0 DEF AddResult, ResultType, HandlerType
<1>3. handler[h].pc = "store" /\ UNCHANGED <<turn, run, outbox, audit, repair>>
  BY DEF AddResult, HandlerAt
<1>4. h \notin Managed /\ result[h].status = "none"
  BY <1>3, InvocationsAssumption DEF InvInv, Progress, HandlerAt
<1> HIDE DEF new, row
<1>h. \A g \in Handler : handler'[g] = IF g = h THEN new ELSE handler[g]
  BY <1>0, <1>1
<1>r. \A g \in Handler : g # h => result'[g] = result[g]
  BY <1>0, <1>2
<1>5. InvTypeOK'
  BY <1>0, <1>1, <1>2, <1>3 DEF InvInv, InvTypeOK
<1>6. OpenIsUndecided' /\ LockHolds'
  BY <1>3 DEF InvInv, OpenIsUndecided, LockHolds, TurnActive
<1>7. ReadIsOldOrOpen'
  BY <1>h, <1>1, <1>3 DEF InvInv, ReadIsOldOrOpen, HandlerAt, TurnActive
<1>8. Progress'
  BY <1>h, <1>r, <1>1, <1>3 DEF InvInv, Progress, HandlerAt
<1>9. TurnShowsResult'
  <2>1. turn.results # <<>> => Latest(turn.results) \in Handler
    BY <1>0 DEF TurnType, Latest
  <2>2. turn.results # <<>> => Latest(turn.results) # h
    BY <1>4 DEF InvInv, TurnShowsResult
  <2> QED BY <2>1, <2>2, <1>r, <1>3 DEF InvInv, TurnShowsResult, TurnActive, Latest
<1>10. AnswerNamesResult'
  BY <1>h, <1>3, <1>4 DEF InvInv, AnswerNamesResult, Handler, Latest
<1> QED BY <1>5, <1>6, <1>7, <1>8, <1>9, <1>10 DEF InvInv

\* The one step that decides the Turn, by a completion or by a repair.
LEMMA DecisionKeeps ==
    ASSUME InvInv, NEW h \in Handler, TurnActive,
           turn' = [turn EXCEPT !.status = TerminalStatus(result'[h].status),
                                !.version = turn.version + 1,
                                !.runs = Add(turn.runs, h), !.results = Add(turn.results, h)],
           InvTypeOK', LockHolds', run'[h].attached, result'[h].status # "none",
           \A g \in Handler : handler'[g] # handler[g] =>
               /\ handler'[g].pc = "done"
               /\ handler'[g].answer = {h},
           \A g \in Handler : handler'[g].pc # "done" => result'[g] = result[g],
           \A g \in Handler : run[g].attached => run'[g].attached
    PROVE  InvInv'
<1>0. turn \in TurnType /\ handler \in [Handler -> HandlerType]
  BY DEF InvInv, InvTypeOK
<1>1. turn.results = <<>>
  BY DEF InvInv, OpenIsUndecided
<1>2. /\ turn'.status = TerminalStatus(result'[h].status)
      /\ turn'.version = turn.version + 1 /\ turn'.results = Add(<<>>, h)
  BY <1>0, <1>1 DEF TurnType
<1>3. ~TurnActive'
  BY <1>2 DEF TurnActive, TerminalStatus, ACTIVE_TURN_STATUSES
<1>4. turn'.results # <<>> /\ Latest(turn'.results) = h
  BY <1>2, AddToEmpty
<1>5. OpenIsUndecided'
  BY <1>3 DEF OpenIsUndecided
<1>6. ReadIsOldOrOpen'
  <2>1. turn.version \in Nat /\ \A g \in Handler : handler[g].version \in Nat
    BY <1>0 DEF TurnType, HandlerType
  <2> QED BY <1>2, <2>1 DEF InvInv, ReadIsOldOrOpen, HandlerAt
<1>7. Progress'
  BY DEF InvInv, Progress, HandlerAt
<1>8. TurnShowsResult'
  BY <1>2, <1>3, <1>4 DEF TurnShowsResult, TerminalStatus
<1>9. AnswerNamesResult'
  BY <1>1, <1>4 DEF InvInv, AnswerNamesResult, Handler
<1> QED BY <1>5, <1>6, <1>7, <1>8, <1>9 DEF InvInv

\* A decided Turn is well-typed.
LEMMA DecidedTurnType ==
    ASSUME turn \in TurnType, NEW h \in Handler, NEW s \in TERMINAL_RUN_STATUSES
    PROVE  [turn EXCEPT !.status = s, !.version = turn.version + 1,
                        !.runs = Add(turn.runs, h), !.results = Add(turn.results, h)] \in TurnType
<1>1. /\ Add(turn.runs, h) \in Seq(Handler) /\ Add(turn.results, h) \in Seq(Handler)
      /\ turn.version + 1 \in Nat
  BY AddKeepsType DEF TurnType
<1> QED BY <1>1 DEF TurnType

\* A handler decides only an active Turn.
LEMMA CompleteRunKeeps ==
    ASSUME InvInv, NEW h \in Handler, CompleteRun(h)
    PROVE  InvInv' /\ TurnActive
<1>0. /\ handler \in [Handler -> HandlerType] /\ handler[h] \in HandlerType
      /\ result \in [Handler -> ResultType] /\ turn \in TurnType
      /\ run \in [Handler -> RunType] /\ run[h] \in RunType
  BY DEF InvInv, InvTypeOK
<1> DEFINE new == [handler[h] EXCEPT !.pc = "done", !.answer = {h}]
           row == [status |-> handler[h].status, suppressed |-> handler[h].suppressed]
           ended == [run[h] EXCEPT !.status = handler[h].status]
           s == TerminalStatus(handler[h].status)
<1>1. /\ handler[h].pc = "commit" /\ h \in Managed /\ TurnActive /\ run[h].attached
      /\ handler[h].status \in ResultStatus
  BY DEF CompleteRun, InvInv, ReadIsOldOrOpen, Progress, HandlerAt
<1>2. /\ new \in HandlerType /\ new.pc = "done" /\ new.answer = {h}
      /\ handler' = [handler EXCEPT ![h] = new]
  BY <1>0 DEF CompleteRun, HandlerType
<1>3. /\ row \in ResultType /\ row.status = handler[h].status
      /\ result' = [result EXCEPT ![h] = row]
  BY <1>0 DEF CompleteRun, ResultType, HandlerType
<1>4. ended \in RunType /\ ended.attached /\ run' = [run EXCEPT ![h] = ended]
  BY <1>0, <1>1 DEF CompleteRun, RunType, AllStatus
<1>5. /\ turn' = [turn EXCEPT !.status = s, !.version = turn.version + 1,
                              !.runs = Add(turn.runs, h), !.results = Add(turn.results, h)]
      /\ repair' = repair /\ TurnUnlocked
  BY DEF CompleteRun
<1>6. s \in TERMINAL_RUN_STATUSES
  BY DEF TerminalStatus, TERMINAL_RUN_STATUSES
<1>7. result'[h].status = handler[h].status
  BY <1>0, <1>3
<1> HIDE DEF new, row, ended, s
<1>8. turn' \in TurnType
  BY <1>0, <1>5, <1>6, DecidedTurnType
<1>9. InvTypeOK'
  BY <1>0, <1>2, <1>3, <1>4, <1>5, <1>8 DEF InvInv, InvTypeOK
<1>10. LockHolds'
  BY <1>5 DEF LockHolds, TurnUnlocked
<1>11. turn' = [turn EXCEPT !.status = TerminalStatus(result'[h].status),
                            !.version = turn.version + 1,
                            !.runs = Add(turn.runs, h), !.results = Add(turn.results, h)]
  BY <1>5, <1>7 DEF s
<1>12. run'[h].attached /\ \A g \in Handler : run[g].attached => run'[g].attached
  BY <1>0, <1>4
<1>13. result'[h].status # "none"
  BY <1>1, <1>7 DEF ResultStatus
<1>14. \A g \in Handler : g # h => handler'[g] = handler[g] /\ result'[g] = result[g]
  BY <1>0, <1>2, <1>3
<1>15. handler'[h].pc = "done" /\ handler'[h].answer = {h}
  BY <1>0, <1>2
<1> QED BY <1>1, <1>9, <1>10, <1>11, <1>12, <1>13, <1>14, <1>15, DecisionKeeps

\* A repair decides only an active Turn.
LEMMA RepairTurnKeeps ==
    ASSUME InvInv, NEW k \in Repairer, RepairTurn(k)
    PROVE  InvInv' /\ TurnActive
<1>0. /\ handler \in [Handler -> HandlerType] /\ turn \in TurnType
      /\ result \in [Handler -> ResultType] /\ run \in [Handler -> RunType]
      /\ repair \in [Repairer -> RepairType]
  BY DEF InvInv, InvTypeOK
<1>1. PICK h \in Handler :
        /\ Pairs(k) = {h}
        /\ turn' = [turn EXCEPT !.status = TerminalStatus(result[h].status),
                                !.version = turn.version + 1,
                                !.runs = Add(turn.runs, h), !.results = Add(turn.results, h)]
        /\ run' = [run EXCEPT ![h].attached = TRUE]
  BY DEF RepairTurn
<1>2. repair[k].pc = "classified" /\ UNCHANGED <<result, handler>>
  BY DEF RepairTurn
<1>3. TurnActive
  BY <1>2 DEF InvInv, LockHolds
<1>4. result[h].status # "none" /\ result'[h].status = result[h].status
  BY <1>1, <1>2 DEF Pairs, TERMINAL_RUN_STATUSES
<1>5. turn' \in TurnType
  <2>1. TerminalStatus(result[h].status) \in TERMINAL_RUN_STATUSES
    BY DEF TerminalStatus, TERMINAL_RUN_STATUSES
  <2> QED BY <1>0, <1>1, <2>1, DecidedTurnType
<1>6. /\ run' \in [Handler -> RunType] /\ run'[h].attached
      /\ \A g \in Handler : run[g].attached => run'[g].attached
  <2>1. run[h] \in RunType
    BY <1>0
  <2> DEFINE row == [run[h] EXCEPT !.attached = TRUE]
  <2>2. row \in RunType /\ row.attached
    BY <2>1 DEF RunType
  <2>3. run' = [run EXCEPT ![h] = row]
    BY <1>0, <1>1
  <2> HIDE DEF row
  <2> QED BY <1>0, <2>2, <2>3
<1>7. repair' \in [Repairer -> RepairType] /\ LockHolds'
  <2> DEFINE idle == [pc |-> "repaired", runs |-> {}]
  <2>1. idle \in RepairType /\ idle.pc # "classified" /\ repair' = [repair EXCEPT ![k] = idle]
    BY DEF RepairTurn, RepairType
  <2> HIDE DEF idle
  <2>2. \A j \in Repairer : repair'[j].pc # "classified"
    BY <1>0, <1>2, <2>1 DEF InvInv, LockHolds
  <2> QED BY <1>0, <2>1, <2>2 DEF LockHolds
<1>8. InvTypeOK'
  BY <1>0, <1>2, <1>5, <1>6, <1>7 DEF InvTypeOK
<1> QED BY <1>1, <1>2, <1>3, <1>4, <1>6, <1>7, <1>8, DecisionKeeps

\* The Turn is decided by a direct reply.
LEMMA DirectReplyKeeps ==
    ASSUME InvInv, DirectReply
    PROVE  InvInv'
<1>0. turn \in TurnType /\ handler \in [Handler -> HandlerType]
  BY DEF InvInv, InvTypeOK
<1>1. /\ turn' = [turn EXCEPT !.status = "completed", !.version = turn.version + 1]
      /\ TurnActive /\ TurnUnlocked /\ UNCHANGED <<run, result, audit, handler, repair>>
  BY DEF DirectReply
<1>2. turn.results = <<>>
  BY <1>1 DEF InvInv, OpenIsUndecided
<1>3. turn' \in TurnType
  <2>1. "completed" \in TERMINAL_RUN_STATUSES /\ turn.version + 1 \in Nat
    BY <1>0 DEF TERMINAL_RUN_STATUSES, TurnType
  <2> QED BY <1>0, <1>1, <2>1 DEF TurnType
<1>4. turn'.status = "completed" /\ turn'.version = turn.version + 1 /\ turn'.results = <<>>
  BY <1>0, <1>1, <1>2 DEF TurnType
<1>5. InvTypeOK'
  BY <1>1, <1>3 DEF InvInv, InvTypeOK
<1>6. OpenIsUndecided' /\ LockHolds'
  BY <1>1, <1>4 DEF OpenIsUndecided, TurnActive, ACTIVE_TURN_STATUSES, LockHolds, TurnUnlocked
<1>7. ReadIsOldOrOpen'
  <2>1. turn.version \in Nat /\ \A g \in Handler : handler[g].version \in Nat
    BY <1>0 DEF TurnType, HandlerType
  <2> QED BY <1>1, <1>4, <2>1 DEF InvInv, ReadIsOldOrOpen, HandlerAt
<1>8. Progress' /\ TurnShowsResult'
  BY <1>1, <1>4 DEF InvInv, Progress, HandlerAt, TurnShowsResult
<1>9. AnswerNamesResult'
  BY <1>1, <1>2 DEF InvInv, AnswerNamesResult
<1> QED BY <1>5, <1>6, <1>7, <1>8, <1>9 DEF InvInv

\* The repair's reads and its outcomes without a decision.
LEMMA RepairReadsKeep ==
    ASSUME InvInv, NEW k \in Repairer,
           ClassifyRuns(k) \/ RepairAmbiguous(k) \/ RepairAgain(k) \/ RepairReplay(k)
    PROVE  InvInv'
<1>0. repair \in [Repairer -> RepairType] /\ repair[k] \in RepairType
  BY DEF InvInv, InvTypeOK
<1>1. UNCHANGED <<turn, run, result, outbox, audit, handler>>
  BY DEF ClassifyRuns, RepairAmbiguous, RepairAgain, RepairReplay
<1>2. ASSUME NEW new \in RepairType, repair' = [repair EXCEPT ![k] = new],
             new.pc = "classified" => TurnActive /\ TurnUnlocked
      PROVE  InvInv'
  <2>1. InvTypeOK'
    BY <1>0, <1>1, <1>2 DEF InvInv, InvTypeOK
  <2>2. OpenIsUndecided' /\ ReadIsOldOrOpen' /\ Progress'
    BY <1>1 DEF InvInv, OpenIsUndecided, ReadIsOldOrOpen, Progress, HandlerAt, TurnActive
  <2>3. TurnShowsResult' /\ AnswerNamesResult'
    BY <1>1 DEF InvInv, TurnShowsResult, AnswerNamesResult, TurnActive, Latest
  <2>4. LockHolds'
    <3>1. \A j \in Repairer : repair'[j] = IF j = k THEN new ELSE repair[j]
      BY <1>0, <1>2
    <3> QED BY <1>1, <1>2, <3>1 DEF InvInv, LockHolds, TurnActive, TurnUnlocked
  <2> QED BY <2>1, <2>2, <2>3, <2>4 DEF InvInv
<1>3. CASE ClassifyRuns(k)
  <2> DEFINE ended == {h \in Handler : run[h].status \in TERMINAL_RUN_STATUSES}
             new == [pc |-> "classified", runs |-> ended]
  <2>1. new \in RepairType
    BY DEF RepairType
  <2>2. repair' = [repair EXCEPT ![k] = new] /\ TurnActive /\ TurnUnlocked
    BY <1>3 DEF ClassifyRuns
  <2> HIDE DEF new
  <2> QED BY <1>2, <2>1, <2>2
<1>4. CASE RepairAmbiguous(k)
  <2> DEFINE new == [pc |-> "idle", runs |-> {}]
  <2>1. new \in RepairType /\ new.pc # "classified" /\ repair' = [repair EXCEPT ![k] = new]
    BY <1>4 DEF RepairAmbiguous, RepairType
  <2> HIDE DEF new
  <2> QED BY <1>2, <2>1
<1>5. CASE RepairAgain(k)
  <2> DEFINE new == [repair[k] EXCEPT !.pc = "idle"]
  <2>1. new \in RepairType /\ new.pc # "classified" /\ repair' = [repair EXCEPT ![k] = new]
    BY <1>0, <1>5 DEF RepairAgain, RepairType
  <2> HIDE DEF new
  <2> QED BY <1>2, <2>1
<1>6. CASE RepairReplay(k)
  <2> DEFINE new == [repair[k] EXCEPT !.pc = "repaired"]
  <2>1. new \in RepairType /\ new.pc # "classified" /\ repair' = [repair EXCEPT ![k] = new]
    BY <1>0, <1>6 DEF RepairReplay, RepairType
  <2> HIDE DEF new
  <2> QED BY <1>2, <2>1
<1> QED BY <1>3, <1>4, <1>5, <1>6

-----------------------------------------------------------------------------
(* The step, and what follows.                                             *)

\* Every step preserves the inductive invariant.
LEMMA InvStep == InvInv /\ [InvNext]_invVars => InvInv'
<1> SUFFICES ASSUME InvInv, [InvNext]_invVars PROVE InvInv'
  OBVIOUS
<1>1. ASSUME NEW h \in Handler, NEW b \in BOOLEAN, StartRun(h, b) PROVE InvInv'
  BY <1>1, StartRunKeeps
<1>2. ASSUME NEW h \in Handler, CompleteRun(h) PROVE InvInv'
  BY <1>2, CompleteRunKeeps
<1>3. ASSUME NEW h \in Handler, AddResult(h) PROVE InvInv'
  BY <1>3, AddResultKeeps
<1>4. ASSUME NEW h \in Handler,
             \/ \E b \in BOOLEAN : AddRun(h, b)
             \/ \E s \in ResultStatus : InvokerReturns(h, s)
             \/ ReplayRun(h) \/ RefuseRun(h) \/ ReadRows(h)
             \/ CompleteConflict(h) \/ UpdateRun(h) \/ Dies(h)
      PROVE  InvInv'
  BY <1>4, HandlersKeep
<1>5. CASE DirectReply
  BY <1>5, DirectReplyKeeps
<1>6. ASSUME NEW k \in Repairer, RepairTurn(k) PROVE InvInv'
  BY <1>6, RepairTurnKeeps
<1>7. ASSUME NEW k \in Repairer,
             ClassifyRuns(k) \/ RepairAmbiguous(k) \/ RepairAgain(k) \/ RepairReplay(k)
      PROVE  InvInv'
  BY <1>7, RepairReadsKeep
<1>8. CASE UNCHANGED invVars
  <2>1. UNCHANGED <<turn, run, result, outbox, audit, handler, repair>>
    BY <1>8 DEF invVars
  <2>2. InvTypeOK' /\ OpenIsUndecided' /\ LockHolds'
    BY <2>1 DEF InvInv, InvTypeOK, OpenIsUndecided, LockHolds, TurnActive
  <2>3. ReadIsOldOrOpen' /\ Progress'
    BY <2>1 DEF InvInv, ReadIsOldOrOpen, Progress, HandlerAt, TurnActive
  <2>4. TurnShowsResult' /\ AnswerNamesResult'
    BY <2>1 DEF InvInv, TurnShowsResult, AnswerNamesResult, TurnActive, Latest
  <2> QED BY <2>2, <2>3, <2>4 DEF InvInv
<1> QED BY <1>1, <1>2, <1>3, <1>4, <1>5, <1>6, <1>7, <1>8 DEF InvNext

\* Handlers, repairs and the Turn keep to the strengthened invariant: an open
\* Turn is undecided, a repair's lock is exclusive, a commit knows its Turn.
THEOREM InvocationsInvariant == InvSpec => []InvInv
BY InvInitially, InvStep, PTL DEF InvSpec

\* Turn, Result and every answer given for the routed request agree, however
\* completions, repairs, retries and direct calls interleave.
THEOREM AnswersAgreeWithTurn == InvSpec => []InvocationsAgree
<1>1. InvInv => InvocationsAgree
  BY DEF InvInv, InvocationsAgree, AnswersAgree, AnswerNamesResult
<1> QED BY <1>1, InvocationsInvariant, PTL

\* The initial states are initial states of the lifecycle.
LEMMA LifecycleInit == InvInit => Lifecycle!Init
BY DEF InvInit, Lifecycle!Init, TurnActive, ACTIVE_TURN_STATUSES

\* Every step is a step of the lifecycle or leaves it unchanged.
LEMMA LifecycleStep == InvInv /\ [InvNext]_invVars => [Lifecycle!Next]_(Lifecycle!vars)
<1> DEFINE Outcome == IF TurnActive THEN "open" ELSE turn.status
           Answer == IF turn.results = <<>> THEN {} ELSE {Latest(turn.results)}
<1> SUFFICES ASSUME InvInv, [InvNext]_invVars
             PROVE  [Lifecycle!Next]_(Lifecycle!vars)
  OBVIOUS
<1>0. turn \in TurnType
  BY DEF InvInv, InvTypeOK
<1>s. ASSUME Outcome' = Outcome, Answer' = Answer, UNCHANGED <<outbox, audit>>
      PROVE  [Lifecycle!Next]_(Lifecycle!vars)
  BY <1>s DEF Lifecycle!vars
<1>e. ASSUME TurnActive, ~TurnActive', turn'.status \in {"completed", "failed"},
             turn'.results = <<>> \/ Len(turn'.results) = 1,
             \E n : outbox' \cup audit' = {n}
      PROVE  [Lifecycle!Next]_(Lifecycle!vars)
  <2>1. outbox \cup audit = {} /\ Answer = {} /\ Outcome = "open"
    BY <1>e DEF InvInv, OpenIsUndecided
  <2>2. Outcome' \in {"completed", "failed"}
    BY <1>e
  <2>3. Lifecycle!AtMostOne(Answer')
    BY DEF Lifecycle!AtMostOne
  <2>4. outbox' \cup audit' # {} /\ Lifecycle!AtMostOne(outbox' \cup audit')
    BY <1>e DEF Lifecycle!AtMostOne
  <2>5. Lifecycle!End
    BY <2>1, <2>2, <2>3, <2>4 DEF Lifecycle!End
  <2> QED BY <2>5 DEF Lifecycle!Next
<1>q. ASSUME UNCHANGED <<turn, outbox, audit>> PROVE [Lifecycle!Next]_(Lifecycle!vars)
  BY <1>q, <1>s DEF TurnActive, Latest
<1>1. ASSUME NEW h \in Handler, NEW b \in BOOLEAN, StartRun(h, b)
      PROVE  [Lifecycle!Next]_(Lifecycle!vars)
  <2>1. /\ turn' = [turn EXCEPT !.status = "running", !.version = turn.version + 1,
                                !.runs = Append(turn.runs, h)]
        /\ TurnActive /\ UNCHANGED <<outbox, audit>>
    BY <1>1 DEF StartRun
  <2>2. turn'.status = "running" /\ turn'.results = turn.results
    BY <2>1, <1>0 DEF TurnType
  <2>3. TurnActive'
    BY <2>2 DEF TurnActive, ACTIVE_TURN_STATUSES
  <2> QED BY <2>1, <2>2, <2>3, <1>s DEF Latest
<1>d. ASSUME TurnActive, NEW h \in Handler, NEW s,
             turn' = [turn EXCEPT !.status = TerminalStatus(s), !.version = turn.version + 1,
                                  !.runs = Add(turn.runs, h), !.results = Add(turn.results, h)]
      PROVE  /\ ~TurnActive' /\ turn'.status \in {"completed", "failed"}
             /\ Len(turn'.results) = 1
  <2>1. turn.results = <<>>
    BY <1>d DEF InvInv, OpenIsUndecided
  <2>2. turn'.status = TerminalStatus(s) /\ turn'.results = <<h>>
    BY <1>d, <1>0, <2>1, AddToEmpty DEF TurnType
  <2> QED BY <2>2 DEF TurnActive, ACTIVE_TURN_STATUSES, TerminalStatus
<1>2. ASSUME NEW h \in Handler, CompleteRun(h) PROVE [Lifecycle!Next]_(Lifecycle!vars)
  <2>1. TurnActive
    BY <1>2, CompleteRunKeeps
  <2>2. ~TurnActive' /\ turn'.status \in {"completed", "failed"} /\ Len(turn'.results) = 1
    BY <1>2, <2>1, <1>d DEF CompleteRun
  <2>3. outbox = {} /\ audit = {}
    BY <2>1 DEF InvInv, OpenIsUndecided
  <2>4. \E n : outbox' \cup audit' = {n}
    BY <1>2, <2>3 DEF CompleteRun
  <2> QED BY <2>1, <2>2, <2>4, <1>e
<1>3. CASE DirectReply
  <2>1. /\ turn' = [turn EXCEPT !.status = "completed", !.version = turn.version + 1]
        /\ TurnActive
    BY <1>3 DEF DirectReply
  <2>2. outbox = {} /\ audit = {} /\ turn.results = <<>>
    BY <2>1 DEF InvInv, OpenIsUndecided
  <2>3. turn'.status = "completed" /\ turn'.results = <<>>
    BY <2>1, <2>2, <1>0 DEF TurnType
  <2>4. ~TurnActive'
    BY <2>3 DEF TurnActive, ACTIVE_TURN_STATUSES
  <2>5. \E n : outbox' \cup audit' = {n}
    BY <1>3, <2>2 DEF DirectReply
  <2> QED BY <2>1, <2>3, <2>4, <2>5, <1>e
<1>4. ASSUME NEW k \in Repairer, RepairTurn(k) PROVE [Lifecycle!Next]_(Lifecycle!vars)
  <2>1. TurnActive
    BY <1>4, RepairTurnKeeps
  <2>2. ~TurnActive' /\ turn'.status \in {"completed", "failed"} /\ Len(turn'.results) = 1
    BY <1>4, <2>1, <1>d DEF RepairTurn
  <2>3. outbox = {} /\ audit = {}
    BY <2>1 DEF InvInv, OpenIsUndecided
  <2>4. \E n : outbox' \cup audit' = {n}
    BY <1>4, <2>3 DEF RepairTurn
  <2> QED BY <2>1, <2>2, <2>4, <1>e
<1>5. ASSUME NEW h \in Handler,
             \/ \E b \in BOOLEAN : AddRun(h, b)
             \/ \E s \in ResultStatus : InvokerReturns(h, s)
             \/ ReplayRun(h) \/ RefuseRun(h) \/ ReadRows(h)
             \/ CompleteConflict(h) \/ UpdateRun(h) \/ AddResult(h) \/ Dies(h)
      PROVE  [Lifecycle!Next]_(Lifecycle!vars)
  BY <1>5, <1>q DEF AddRun, InvokerReturns, ReplayRun, RefuseRun, ReadRows, CompleteConflict,
                    UpdateRun, AddResult, Dies
<1>6. ASSUME NEW k \in Repairer,
             ClassifyRuns(k) \/ RepairAmbiguous(k) \/ RepairAgain(k) \/ RepairReplay(k)
      PROVE  [Lifecycle!Next]_(Lifecycle!vars)
  BY <1>6, <1>q DEF ClassifyRuns, RepairAmbiguous, RepairAgain, RepairReplay
<1>7. CASE UNCHANGED invVars
  BY <1>7, <1>q DEF invVars
<1> HIDE DEF Outcome, Answer
<1> QED BY <1>1, <1>2, <1>3, <1>4, <1>5, <1>6, <1>7 DEF InvNext

\* The invocation store, the unmanaged calls and the reconciler implement the
\* life of a Turn: outcome, answer and announcement appear in one step and stay.
THEOREM TurnDecidedOnce == InvSpec => ImplementsTurnLifecycle
BY InvocationsInvariant, LifecycleInit, LifecycleStep, PTL
   DEF InvSpec, ImplementsTurnLifecycle, Lifecycle!Spec

-----------------------------------------------------------------------------
(* The agent registry.                                                     *)

(* The inductive invariant.                                                *)

Definitions == [rev : Nat, w : Nat, here : BOOLEAN]
Ops == HostOps \cup AdminOps \cup {"list", "reload"}
AskType ==
    [at : {"start", "first", "look", "load", "store", "mutate", "write"}, op : Ops, agent : AgentId,
     base : Definitions, got : [AgentId -> Definitions], ok : BOOLEAN]
CopyType ==
    [status : {"ok", "degraded", "error"}, source : {"none", "file", "database"},
     agents : [AgentId -> Definitions]]

RegTypeOK ==
    /\ setup \in RegistryCasts
    /\ defs \in [AgentId -> Definitions]
    /\ trail \in [AgentId -> Definitions]
    /\ foreign \subseteq AgentId
    /\ copies \in [Process -> CopyType]
    /\ asks \in [Asker -> AskType \cup {NoAsk}]
    /\ \A h \in Asker : asks[h].at # "idle" => asks[h].op \in setup.ops
    /\ \A h \in Asker : asks[h].at = "write" => asks[h].op \in AdminOps
    /\ up \in BOOLEAN /\ nWrites \in Nat

\* A registry whose requests come one by one, in one process, with a file to
\* fall back to when it falls back at all.
Calm ==
    /\ setup.serial /\ (setup.fallback => setup.file)
    /\ \A p, q \in Process : p = q

UpToDate(p) == copies[p].status = "ok" /\ copies[p].source = "database" => copies[p].agents = defs
Quiet(h) == asks[h].at \in {"idle", "start", "mutate", "write"}

\* One request at a time; the copy is the table's until a request has written,
\* and a request that stores a copy has read the table after that.
CalmHolds ==
    Calm =>
        /\ \A g, h \in Asker : asks[g].at # "idle" /\ asks[h].at # "idle" => g = h
        /\ (\A h \in Asker : Quiet(h)) => \A p \in Process : UpToDate(p)
        /\ \A h \in Asker : asks[h].at \in {"store", "look"} => asks[h].got = defs
        /\ \A p \in Process : setup.backend = "file" => copies[p].source # "database"

\* While definitions are only added and edited under their revision, whatever is
\* known of one is older than the row or is the row.
OnlyEdits == setup.ops \cap ({"delete"} \cup AdminOps) = {}
Older(d, a) == d.rev <= defs[a].rev /\ (d.rev = defs[a].rev => d.w = defs[a].w)
EditsHold ==
    OnlyEdits =>
        \A a \in AgentId :
            /\ defs[a].rev = 0 => defs[a].w = 0
            /\ \A p \in Process : Older(copies[p].agents[a], a)
            /\ \A h \in Asker : asks[h].at # "idle" =>
                   /\ Older(asks[h].got[a], a)
                   /\ asks[h].agent = a => Older(asks[h].base, a)

RegInv == RegTypeOK /\ TrailExplains /\ CalmHolds /\ EditsHold
-----------------------------------------------------------------------------
(* Types.                                                                  *)

(* The shape of a request at work.                                         *)
LEMMA AskShape ==
  ASSUME RegTypeOK, NEW h \in Asker
  PROVE  /\ asks[h].at = "idle" => asks[h] = NoAsk
         /\ asks[h].at # "idle" => asks[h] \in AskType /\ asks[h].op \in setup.ops
         /\ asks[h].at = "write" => asks[h].op \in AdminOps
         /\ NoAsk.at = "idle"
BY DEF RegTypeOK, NoAsk, AskType

(* A request that goes on to another place.                                *)
LEMMA GoesType ==
  ASSUME RegTypeOK, NEW h \in Asker, asks[h].at # "idle", NEW where \in {"load", "first"},
         Goes(h, where)
  PROVE  /\ asks' = [asks EXCEPT ![h] = [asks[h] EXCEPT !.at = where]]
         /\ [asks[h] EXCEPT !.at = where] \in AskType
         /\ asks' \in [Asker -> AskType \cup {NoAsk}]
         /\ \A g \in Asker : asks'[g].at # "idle" => asks'[g].op \in setup.ops
         /\ \A g \in Asker : asks'[g].at = "write" => asks'[g].op \in AdminOps
<1>1. asks[h] \in AskType /\ asks[h].op \in setup.ops
  BY AskShape
<1> DEFINE e == [asks[h] EXCEPT !.at = where]
<1>2. e \in AskType /\ e.op = asks[h].op /\ e.at = where
  BY <1>1 DEF AskType
<1>3. asks' = [asks EXCEPT ![h] = e]
  BY DEF Goes
<1> HIDE DEF e
<1>4. asks' \in [Asker -> AskType \cup {NoAsk}]
  BY <1>2, <1>3 DEF RegTypeOK
<1>5. \A g \in Asker : asks'[g].at # "idle" => asks'[g].op \in setup.ops
  BY <1>1, <1>2, <1>3 DEF RegTypeOK
<1>6. \A g \in Asker : asks'[g].at = "write" => asks'[g].op \in AdminOps
  BY <1>2, <1>3 DEF RegTypeOK
<1> QED BY <1>2, <1>3, <1>4, <1>5, <1>6 DEF e

(* A request that ends.                                                    *)
LEMMA LeavesType ==
  ASSUME RegTypeOK, NEW h \in Asker, Leaves(h)
  PROVE  /\ asks' \in [Asker -> AskType \cup {NoAsk}]
         /\ \A g \in Asker : asks'[g].at # "idle" => asks'[g].op \in setup.ops
         /\ \A g \in Asker : asks'[g].at = "write" => asks'[g].op \in AdminOps
BY DEF RegTypeOK, Leaves, NoAsk

(* The definitions a change leaves, the file and the copies of a load.     *)
LEMMA DefinitionTypes ==
  /\ NoDef \in Definitions /\ NoDefs \in [AgentId -> Definitions]
  /\ FileDefs \in [AgentId -> Definitions]
BY DEF NoDef, NoDefs, FileDefs, Definitions

(* A host's change is a definition.                                        *)
LEMMA ChangedType ==
  ASSUME RegTypeOK, NEW op, NEW row \in Definitions
  PROVE  Changed(op, row) \in Definitions
BY DEF RegTypeOK, Changed, Definitions, NoDef

(* The setup of this behaviour.                                            *)
LEMMA SetupType ==
  ASSUME RegTypeOK
  PROVE  /\ setup.backend \in {"file", "database", "hybrid"}
         /\ setup.serial \in BOOLEAN /\ setup.fallback \in BOOLEAN /\ setup.file \in BOOLEAN
         /\ setup.at \in [Asker -> Process] /\ setup.ops \subseteq Ops
BY RegistryAssumption DEF RegTypeOK, Ops

(* What a load can leave: what the file says, what was read, nothing, or     *)
(* what was there.                                                         *)
LEMMA LoadSays ==
  ASSUME RegTypeOK, NEW ok \in BOOLEAN, NEW got \in [AgentId -> Definitions], NEW old \in CopyType
  PROVE  LET state == Load(ok, got, old).state
         IN  /\ state \in CopyType
             /\ state.agents \in {FileDefs, NoDefs, got, old.agents}
             /\ (setup.fallback => setup.file) /\ (setup.backend = "file" => old.source # "database") =>
                   (state.status = "ok" /\ state.source = "database" => state.agents = got)
             /\ setup.backend = "file" /\ old.source # "database" => state.source # "database"
<1>1. ASSUME NEW status \in {"ok", "degraded"}
      PROVE  /\ setup.file => LoadFile(status, old).state =
                                  [status |-> status, source |-> "file", agents |-> FileDefs]
             /\ ~setup.file => LoadFile(status, old).state = old
  BY DEF LoadFile
<1>2. [status |-> "ok", source |-> "file", agents |-> FileDefs] \in CopyType
      /\ [status |-> "degraded", source |-> "file", agents |-> FileDefs] \in CopyType
      /\ [status |-> "error", source |-> "database", agents |-> NoDefs] \in CopyType
      /\ [status |-> "error", source |-> "none", agents |-> NoDefs] \in CopyType
      /\ [status |-> "ok", source |-> "database", agents |-> got] \in CopyType
  BY DefinitionTypes DEF CopyType
<1>3. CASE setup.backend = "file"
  BY <1>1, <1>2, <1>3, SetupType DEF Load
<1>4. CASE setup.backend = "database"
  <2>1. Load(ok, got, old) = LoadDatabase(ok, got, old)
    BY <1>4 DEF Load
  <2>2. CASE ~ok
    BY <1>2, <1>4, <2>1, <2>2 DEF LoadDatabase
  <2>3. CASE ok /\ Known(got) = {} /\ setup.fallback
    BY <1>1, <1>2, <1>4, <2>1, <2>3, SetupType DEF LoadDatabase
  <2>4. CASE ok /\ ~(Known(got) = {} /\ setup.fallback)
    BY <1>2, <1>4, <2>1, <2>4 DEF LoadDatabase
  <2> QED BY <2>2, <2>3, <2>4
<1>5. CASE setup.backend = "hybrid"
  <2>1. Load(ok, got, old) = LoadHybrid(ok, got, old)
    BY <1>5 DEF Load
  <2>2. CASE ~ok /\ ~setup.file
    BY <1>2, <1>5, <2>1, <2>2 DEF LoadHybrid
  <2>3. CASE ~ok /\ setup.file
    BY <1>1, <1>2, <1>5, <2>1, <2>3 DEF LoadHybrid
  <2>4. CASE ok /\ Known(got) = {} /\ setup.fallback
    BY <1>1, <1>2, <1>5, <2>1, <2>4, SetupType DEF LoadHybrid, LoadDatabase
  <2>5. CASE ok /\ ~(Known(got) = {} /\ setup.fallback)
    BY <1>2, <1>5, <2>1, <2>5 DEF LoadHybrid, LoadDatabase
  <2> QED BY <2>2, <2>3, <2>4, <2>5
<1> QED BY <1>3, <1>4, <1>5, SetupType

(* Every step keeps the types.                                             *)
LEMMA RegTypeStep ==
  ASSUME RegTypeOK, [RegNext]_regVars
  PROVE  RegTypeOK'
<1> DEFINE Typed(f) == /\ f \in [Asker -> AskType \cup {NoAsk}]
                       /\ \A g \in Asker : f[g].at # "idle" => f[g].op \in setup.ops
                       /\ \A g \in Asker : f[g].at = "write" => f[g].op \in AdminOps
<1>0. /\ setup \in RegistryCasts /\ defs \in [AgentId -> Definitions]
      /\ trail \in [AgentId -> Definitions] /\ foreign \subseteq AgentId
      /\ copies \in [Process -> CopyType] /\ Typed(asks) /\ up \in BOOLEAN /\ nWrites \in Nat
  BY DEF RegTypeOK
<1>1. ASSUME UNCHANGED <<setup, defs, trail, foreign, copies, up, nWrites>>, Typed(asks')
      PROVE  RegTypeOK'
  BY <1>0, <1>1 DEF RegTypeOK
<1>2. ASSUME NEW h \in Asker, Leaves(h) PROVE Typed(asks')
  BY <1>2, LeavesType
<1>3. ASSUME NEW h \in Asker, asks[h].at # "idle", NEW where \in {"load", "first"},
             Goes(h, where)
      PROVE  Typed(asks')
  BY <1>3, GoesType
<1>4. ASSUME NEW h \in Asker, NEW e \in AskType, e.op \in setup.ops,
             e.at = "write" => e.op \in AdminOps, asks' = [asks EXCEPT ![h] = e]
      PROVE  Typed(asks')
  BY <1>0, <1>4
<1> HIDE DEF Typed
<1>c. ASSUME NEW h \in Asker, asks[h].at # "idle", NEW current \in Definitions, Chooses(h, current)
      PROVE  Typed(asks')
  <2> DEFINE e == [asks[h] EXCEPT !.at = "mutate", !.base = current]
  <2>1. asks[h] \in AskType /\ asks[h].op \in setup.ops
    BY <1>c, AskShape
  <2>2. e \in AskType /\ e.op = asks[h].op /\ e.at = "mutate"
    BY <2>1 DEF AskType
  <2>3. Leaves(h) \/ asks' = [asks EXCEPT ![h] = e]
    BY <1>c DEF Chooses
  <2> HIDE DEF e
  <2> QED BY <1>2, <1>4, <2>1, <2>2, <2>3
<1>5. ASSUME NEW h \in Asker, NEW op \in setup.ops, NEW a \in AgentId, Ask(h, op, a)
      PROVE  RegTypeOK'
  <2> DEFINE e == [at |-> "start", op |-> op, agent |-> a, base |-> NoDef, got |-> NoDefs, ok |-> TRUE]
  <2>1. e \in AskType /\ e.op = op /\ e.at = "start"
    BY SetupType, DefinitionTypes DEF AskType
  <2> HIDE DEF e
  <2>2. asks' = [asks EXCEPT ![h] = e]
    BY <1>5 DEF Ask, e
  <2> QED BY <1>1, <1>4, <1>5, <2>1, <2>2 DEF Ask
<1>6. ASSUME NEW h \in Asker, ReadAll(h) PROVE RegTypeOK'
  <2> DEFINE e == [asks[h] EXCEPT !.at = IF @ = "load" THEN "store" ELSE "look", !.got = defs, !.ok = up]
  <2>1. asks[h] \in AskType /\ asks[h].op \in setup.ops
    BY <1>6, AskShape DEF ReadAll
  <2>2. e \in AskType /\ e.op = asks[h].op /\ e.at \in {"store", "look"}
    BY <1>0, <2>1 DEF AskType
  <2>3. asks' = [asks EXCEPT ![h] = e]
    BY <1>6 DEF ReadAll
  <2> HIDE DEF e
  <2> QED BY <1>1, <1>4, <1>6, <2>1, <2>2, <2>3 DEF ReadAll
<1>7. ASSUME NEW h \in Asker, StoreCopy(h) PROVE RegTypeOK'
  <2> DEFINE p == setup.at[h]
             state == Load(asks[h].ok, asks[h].got, copies[p]).state
  <2>1. asks[h] \in AskType /\ p \in Process /\ asks[h].at # "idle"
    BY <1>7, AskShape, SetupType DEF StoreCopy
  <2>2. state \in CopyType
    BY <1>0, <2>1, LoadSays DEF AskType
  <2>3. /\ copies' = [copies EXCEPT ![p] = state] /\ UNCHANGED <<setup, defs, trail, foreign, up, nWrites>>
        /\ Leaves(h) \/ Chooses(h, state.agents[asks[h].agent])
    BY <1>7 DEF StoreCopy
  <2> HIDE DEF state
  <2>4. copies' \in [Process -> CopyType]
    BY <1>0, <2>2, <2>3
  <2>5. state.agents[asks[h].agent] \in Definitions
    BY <2>1, <2>2 DEF AskType, CopyType
  <2>6. Typed(asks')
    BY <1>2, <1>c, <2>1, <2>3, <2>5
  <2> QED BY <1>0, <2>3, <2>4, <2>6 DEF RegTypeOK, Typed
<1>8. ASSUME NEW h \in Asker, ListAgents(h) \/ AdminReload(h) PROVE RegTypeOK'
  BY <1>1, <1>2, <1>3, <1>8 DEF ListAgents, AdminReload
<1>9. ASSUME NEW h \in Asker, HostReads(h) PROVE RegTypeOK'
  <2>1. asks[h] \in AskType /\ asks[h].at # "idle"
    BY <1>9, AskShape DEF HostReads
  <2>2. Definition(h) \in Definitions
    BY <1>0, <2>1, SetupType DEF Definition, AskType, CopyType
  <2>3. Goes(h, "first") \/ Chooses(h, Definition(h))
    BY <1>9 DEF HostReads
  <2> QED BY <1>1, <1>3, <1>c, <1>9, <2>1, <2>2, <2>3 DEF HostReads
<1>10. ASSUME NEW h \in Asker, Mutate(h) PROVE RegTypeOK'
  <2>1. asks[h] \in AskType /\ asks[h].at # "idle"
    BY <1>10, AskShape DEF Mutate
  <2>2. CASE Leaves(h) /\ UNCHANGED <<defs, trail, nWrites>>
    BY <1>1, <1>2, <1>10, <2>2 DEF Mutate
  <2>3. CASE ~(Leaves(h) /\ UNCHANGED <<defs, trail, nWrites>>)
    <3> DEFINE a == asks[h].agent
               d == Changed(asks[h].op, defs[a])
    <3>1. /\ nWrites' = nWrites + 1 /\ defs' = [defs EXCEPT ![a] = d]
          /\ trail' = [trail EXCEPT ![a] = d]
          /\ Goes(h, "load") /\ UNCHANGED <<setup, foreign, copies, up>>
      BY <1>10, <2>3 DEF Mutate
    <3>2. d \in Definitions
      BY <1>0, <2>1, ChangedType DEF AskType
    <3> HIDE DEF d
    <3>3. defs' \in [AgentId -> Definitions] /\ trail' \in [AgentId -> Definitions]
      BY <1>0, <3>1, <3>2
    <3> QED BY <1>0, <1>3, <2>1, <3>1, <3>3 DEF RegTypeOK, Typed
  <2> QED BY <2>2, <2>3
<1>11. ASSUME NEW h \in Asker, NEW base \in Definitions, asks[h].at # "idle", AdminStores(h, base) PROVE RegTypeOK'
  <2> DEFINE a == asks[h].agent
             d == [rev |-> base.rev + 1, w |-> nWrites + 1, here |-> TRUE]
  <2>1. a \in AgentId
    BY <1>11, AskShape DEF AskType
  <2>2. /\ nWrites' = nWrites + 1 /\ defs' = [defs EXCEPT ![a] = d] /\ foreign' = foreign \cup {a}
        /\ Goes(h, "load") /\ UNCHANGED <<setup, trail, copies, up>>
    BY <1>11 DEF AdminStores
  <2>3. d \in Definitions
    BY <1>0, <1>11 DEF Definitions
  <2> HIDE DEF d
  <2>4. defs' \in [AgentId -> Definitions] /\ foreign' \subseteq AgentId
    BY <1>0, <2>1, <2>2, <2>3
  <2> QED BY <1>0, <1>3, <1>11, <2>2, <2>4 DEF RegTypeOK, Typed
<1>12. ASSUME NEW h \in Asker, AdminReads(h) PROVE RegTypeOK'
  <2> DEFINE e == [asks[h] EXCEPT !.at = "write", !.base = defs[asks[h].agent]]
  <2>1. asks[h] \in AskType /\ asks[h].op \in setup.ops /\ asks[h].at # "idle"
    BY <1>12, AskShape DEF AdminReads
  <2>2. e \in AskType /\ e.op = asks[h].op /\ e.op \in AdminOps
    BY <1>0, <1>12, <2>1 DEF AskType, AdminReads, AdminOps
  <2>3. Goes(h, "load") \/ asks' = [asks EXCEPT ![h] = e]
    BY <1>12 DEF AdminReads
  <2> HIDE DEF e
  <2> QED BY <1>1, <1>3, <1>4, <1>12, <2>1, <2>2, <2>3 DEF AdminReads
<1>13. ASSUME NEW h \in Asker, AdminWrites(h) PROVE RegTypeOK'
  <2>1. asks[h].base \in Definitions /\ asks[h].at # "idle"
    BY <1>13, AskShape DEF AdminWrites, AskType
  <2> QED BY <1>1, <1>2, <1>11, <1>13, <2>1 DEF AdminWrites
<1>14. ASSUME NEW h \in Asker, AdminWritesInMemory(h) PROVE RegTypeOK'
  <2>1. defs[asks[h].agent] \in Definitions /\ asks[h].at # "idle"
    BY <1>0, <1>14, AskShape DEF AdminWritesInMemory, AskType
  <2> QED BY <1>1, <1>3, <1>11, <1>14, <2>1 DEF AdminWritesInMemory
<1>15. ASSUME NEW h \in Asker, AdminRemoves(h) PROVE RegTypeOK'
  <2>1. asks[h].agent \in AgentId /\ asks[h].at # "idle"
    BY <1>15, AskShape DEF AdminRemoves, AskType
  <2>2. defs' \in [AgentId -> Definitions] /\ foreign' \subseteq AgentId
    BY <1>0, <1>15, <2>1, DefinitionTypes DEF AdminRemoves
  <2> QED BY <1>0, <1>3, <1>15, <2>1, <2>2 DEF AdminRemoves, RegTypeOK, Typed
<1>16. ASSUME NEW h \in Asker, AskFails(h) PROVE RegTypeOK'
  BY <1>1, <1>2, <1>16 DEF AskFails
<1>17. CASE Outage
  BY <1>0, <1>17 DEF Outage, RegTypeOK, Typed
<1>18. CASE UNCHANGED regVars
  BY <1>0, <1>18 DEF regVars, RegTypeOK, Typed
<1> QED
  BY <1>5, <1>6, <1>7, <1>8, <1>9, <1>10, <1>12, <1>13, <1>14, <1>15, <1>16, <1>17, <1>18 DEF RegNext

-----------------------------------------------------------------------------
(* Rows and records.                                                       *)

(* A host's change writes row and record alike; every other writer is noted. *)
LEMMA TrailStep ==
  ASSUME RegTypeOK, TrailExplains, [RegNext]_regVars
  PROVE  TrailExplains'
<1>1. CASE UNCHANGED <<defs, trail, foreign>>
  BY <1>1 DEF TrailExplains
<1>2. ASSUME NEW h \in Asker, Mutate(h), ~UNCHANGED <<defs, trail, foreign>> PROVE TrailExplains'
  <2>1. /\ defs' = [defs EXCEPT ![asks[h].agent] = Changed(asks[h].op, defs[asks[h].agent])]
        /\ trail' = [trail EXCEPT ![asks[h].agent] = Changed(asks[h].op, defs[asks[h].agent])]
        /\ foreign' = foreign
    BY <1>2 DEF Mutate
  <2> QED BY <2>1 DEF TrailExplains, RegTypeOK
<1>3. ASSUME NEW h \in Asker, NEW base, AdminStores(h, base) PROVE TrailExplains'
  BY <1>3 DEF AdminStores, TrailExplains, RegTypeOK
<1>4. ASSUME NEW h \in Asker, AdminRemoves(h) PROVE TrailExplains'
  BY <1>4 DEF AdminRemoves, TrailExplains, RegTypeOK
<1>5. CASE RegNext
  BY <1>1, <1>2, <1>3, <1>4, <1>5 DEF RegNext, Ask, ReadAll, StoreCopy, ListAgents, AdminReload,
     HostReads, AdminReads, AdminWrites, AdminWritesInMemory, AskFails, Outage
<1> QED BY <1>1, <1>5 DEF regVars

-----------------------------------------------------------------------------
(* One request at a time.                                                  *)

(* A request that acts is alone, and so is the next state's.               *)
LEMMA CalmShape ==
  ASSUME RegTypeOK, CalmHolds, UNCHANGED <<setup, copies>>,
         NEW h \in Asker, NEW e, asks' = [asks EXCEPT ![h] = e],
         asks[h].at # "idle" \/ (setup.serial => \A g \in Asker : asks[g].at = "idle"),
         \/ e.at \in {"load", "first"}
         \/ e.at \in {"store", "look"} /\ e.got = defs'
         \/ Quiet(h) /\ e.at \in {"idle", "start", "mutate", "write"} /\ UNCHANGED defs
  PROVE  CalmHolds'
<1> SUFFICES ASSUME Calm
             PROVE  /\ \A g, k \in Asker : asks'[g].at # "idle" /\ asks'[k].at # "idle" => g = k
                    /\ (\A g \in Asker : Quiet(g)') => \A p \in Process : UpToDate(p)'
                    /\ \A g \in Asker : asks'[g].at \in {"store", "look"} => asks'[g].got = defs'
                    /\ \A p \in Process : setup.backend = "file" => copies[p].source # "database"
  BY DEF CalmHolds, Calm
<1>1. \A g \in Asker : g # h => asks[g].at = "idle" /\ asks'[g] = asks[g]
  BY DEF CalmHolds, Calm, RegTypeOK
<1>2. asks'[h] = e
  BY DEF RegTypeOK
<1>3. (\A g \in Asker : Quiet(g)') => \A p \in Process : UpToDate(p)'
  <2> SUFFICES ASSUME \A g \in Asker : Quiet(g)' PROVE \A p \in Process : UpToDate(p)'
    OBVIOUS
  <2>1. Quiet(h) /\ UNCHANGED defs
    BY <1>2 DEF Quiet
  <2>2. \A g \in Asker : Quiet(g)
    BY <1>1, <2>1 DEF Quiet
  <2> QED BY <2>1, <2>2 DEF CalmHolds, UpToDate
<1>4. \A g \in Asker : asks'[g].at \in {"store", "look"} => asks'[g].got = defs'
  BY <1>1, <1>2
<1> QED BY <1>1, <1>3, <1>4 DEF CalmHolds

(* A copy is stored by a request that has read the table since it changed. *)
LEMMA CalmStore ==
  ASSUME RegTypeOK, CalmHolds, NEW h \in Asker, StoreCopy(h)
  PROVE  CalmHolds'
<1> SUFFICES ASSUME Calm
             PROVE  /\ \A g, k \in Asker : asks'[g].at # "idle" /\ asks'[k].at # "idle" => g = k
                    /\ \A p \in Process : UpToDate(p)'
                    /\ \A g \in Asker : asks'[g].at \in {"store", "look"} => asks'[g].got = defs'
                    /\ \A p \in Process : setup.backend = "file" => copies'[p].source # "database"
  BY DEF CalmHolds, Calm, StoreCopy
<1> DEFINE q == setup.at[h]
           state == Load(asks[h].ok, asks[h].got, copies[q]).state
<1>1. q \in Process /\ asks[h] \in AskType /\ asks[h].got = defs
  BY AskShape, SetupType DEF StoreCopy, CalmHolds
<1>2. \A g \in Asker : asks'[g].at = "idle" \/ (g = h /\ asks'[g].at = "mutate")
  <2>1. NoAsk.at = "idle"
    BY DEF NoAsk
  <2>2. \A g \in Asker : g # h => asks[g].at = "idle"
    BY DEF StoreCopy, CalmHolds
  <2>3. \A g \in Asker : g # h => asks'[g] = asks[g]
    BY DEF StoreCopy, Chooses, Leaves, RegTypeOK
  <2>4. asks'[h] = NoAsk \/ asks'[h].at = "mutate"
    BY <1>1 DEF StoreCopy, Chooses, Leaves, AskType, RegTypeOK
  <2> QED BY <2>1, <2>2, <2>3, <2>4
<1>4. \A p \in Process : copies'[p] = state
  BY <1>1 DEF StoreCopy, RegTypeOK, Calm
<1>5. /\ asks[h].ok \in BOOLEAN /\ asks[h].got \in [AgentId -> Definitions]
      /\ copies[q] \in CopyType
  BY <1>1 DEF AskType, RegTypeOK
<1>6. setup.backend = "file" => copies[q].source # "database"
  BY <1>1 DEF CalmHolds
<1>7. /\ state.status = "ok" /\ state.source = "database" => state.agents = defs
      /\ setup.backend = "file" => state.source # "database"
  BY <1>1, <1>5, <1>6, LoadSays DEF Calm
<1> HIDE DEF state
<1>8. UNCHANGED defs
  BY DEF StoreCopy
<1> QED BY <1>2, <1>4, <1>7, <1>8 DEF UpToDate

(* Every step keeps the copy in step with the requests.                    *)
LEMMA CalmStep ==
  ASSUME RegTypeOK, CalmHolds, [RegNext]_regVars
  PROVE  CalmHolds'
<1>0. NoAsk.at = "idle"
  BY DEF NoAsk
<1>1. ASSUME NEW h \in Asker, asks[h].at # "idle", NEW where \in {"load", "first"}, Goes(h, where),
             UNCHANGED <<setup, copies>>
      PROVE  CalmHolds'
  <2> DEFINE e == [asks[h] EXCEPT !.at = where]
  <2>1. asks' = [asks EXCEPT ![h] = e]
    BY <1>1, GoesType
  <2>2. e.at = where
    BY <1>1, AskShape DEF AskType
  <2> HIDE DEF e
  <2> QED BY <1>1, <2>1, <2>2, CalmShape
<1>2. ASSUME NEW h \in Asker, asks[h].at \in {"start", "mutate", "write"}, Leaves(h),
             UNCHANGED <<setup, copies, defs>>
      PROVE  CalmHolds'
  BY <1>0, <1>2, CalmShape DEF Leaves, Quiet
<1>3. ASSUME NEW h \in Asker, NEW op \in setup.ops, NEW a \in AgentId, Ask(h, op, a) PROVE CalmHolds'
  <2> DEFINE e == [at |-> "start", op |-> op, agent |-> a, base |-> NoDef, got |-> NoDefs, ok |-> TRUE]
  <2>1. e.at = "start" /\ asks' = [asks EXCEPT ![h] = e] /\ Quiet(h)
    BY <1>3 DEF Ask, Quiet
  <2> HIDE DEF e
  <2> QED BY <1>3, <2>1, CalmShape DEF Ask
<1>4. ASSUME NEW h \in Asker, ReadAll(h) PROVE CalmHolds'
  <2> DEFINE e == [asks[h] EXCEPT !.at = IF @ = "load" THEN "store" ELSE "look", !.got = defs, !.ok = up]
  <2>1. e.at \in {"store", "look"} /\ e.got = defs
    BY <1>4, AskShape DEF ReadAll, AskType
  <2>2. asks' = [asks EXCEPT ![h] = e] /\ UNCHANGED <<setup, copies, defs>> /\ asks[h].at # "idle"
    BY <1>4 DEF ReadAll
  <2> HIDE DEF e
  <2> QED BY <2>1, <2>2, CalmShape
<1>5. ASSUME NEW h \in Asker, HostReads(h) PROVE CalmHolds'
  <2> DEFINE e == [asks[h] EXCEPT !.at = "mutate", !.base = Definition(h)]
  <2>1. e.at = "mutate"
    BY <1>5, AskShape DEF HostReads, AskType
  <2>2. Goes(h, "first") \/ Leaves(h) \/ asks' = [asks EXCEPT ![h] = e]
    BY <1>5 DEF HostReads, Chooses
  <2> HIDE DEF e
  <2> QED BY <1>1, <1>2, <1>5, <2>1, <2>2, CalmShape DEF HostReads, Quiet
<1>6. ASSUME NEW h \in Asker, AdminReads(h) PROVE CalmHolds'
  <2> DEFINE e == [asks[h] EXCEPT !.at = "write", !.base = defs[asks[h].agent]]
  <2>1. e.at = "write"
    BY <1>6, AskShape DEF AdminReads, AskType
  <2>2. Goes(h, "load") \/ asks' = [asks EXCEPT ![h] = e]
    BY <1>6 DEF AdminReads
  <2> HIDE DEF e
  <2> QED BY <1>1, <1>6, <2>1, <2>2, CalmShape DEF AdminReads, Quiet
<1>7. ASSUME NEW h \in Asker, ListAgents(h) \/ AdminReload(h) \/ AskFails(h) PROVE CalmHolds'
  BY <1>1, <1>2, <1>7 DEF ListAgents, AdminReload, AskFails
<1>8. ASSUME NEW h \in Asker, Mutate(h) PROVE CalmHolds'
  BY <1>1, <1>2, <1>8 DEF Mutate
<1>9. ASSUME NEW h \in Asker, AdminWrites(h) \/ AdminWritesInMemory(h) \/ AdminRemoves(h) PROVE CalmHolds'
  BY <1>1, <1>2, <1>9 DEF AdminWrites, AdminWritesInMemory, AdminRemoves, AdminStores
<1>10. CASE Outage
  BY <1>10 DEF Outage, CalmHolds, Calm, Quiet, UpToDate
<1>11. CASE UNCHANGED regVars
  BY <1>11 DEF regVars, CalmHolds, Calm, Quiet, UpToDate
<1> QED
  BY <1>3, <1>4, <1>5, <1>6, <1>7, <1>8, <1>9, <1>10, <1>11, CalmStore DEF RegNext

-----------------------------------------------------------------------------
(* Edits under a revision.                                                 *)

(* A row that is not written, and a request that keeps or drops what it knows. *)
LEMMA EditsShape ==
  ASSUME RegTypeOK, EditsHold, UNCHANGED <<setup, copies, defs>>,
         NEW h \in Asker, NEW e, asks' = [asks EXCEPT ![h] = e],
         \/ e.at = "idle"
         \/ OnlyEdits => \A a \in AgentId : Older(e.got[a], a) /\ (e.agent = a => Older(e.base, a))
  PROVE  EditsHold'
<1> SUFFICES ASSUME OnlyEdits, NEW a \in AgentId
             PROVE  /\ defs[a].rev = 0 => defs[a].w = 0
                    /\ \A p \in Process : Older(copies[p].agents[a], a)
                    /\ \A g \in Asker : asks'[g].at # "idle" =>
                           /\ Older(asks'[g].got[a], a)
                           /\ asks'[g].agent = a => Older(asks'[g].base, a)
  BY DEF EditsHold, OnlyEdits, Older
<1>1. \A g \in Asker : asks'[g] = IF g = h THEN e ELSE asks[g]
  BY DEF RegTypeOK
<1> QED BY <1>1 DEF EditsHold

(* An edit raises the revision of the row above all that is known of it.   *)
LEMMA EditsMutate ==
  ASSUME RegTypeOK, EditsHold, NEW h \in Asker, Mutate(h), ~UNCHANGED defs
  PROVE  EditsHold'
<1> SUFFICES ASSUME OnlyEdits PROVE EditsHold'
  BY DEF EditsHold, OnlyEdits, Mutate
<1> DEFINE b == asks[h].agent
           e == [asks[h] EXCEPT !.at = "load"]
           d == Changed(asks[h].op, defs[b])
<1>1. asks[h] \in AskType /\ asks[h].op \in setup.ops /\ asks[h].at # "idle" /\ b \in AgentId
  BY AskShape DEF Mutate, AskType
<1>2. asks[h].op # "delete"
  BY <1>1 DEF OnlyEdits
<1>3. /\ defs' = [defs EXCEPT ![b] = d] /\ Goes(h, "load") /\ UNCHANGED <<setup, copies>>
  BY DEF Mutate
<1>4. asks' = [asks EXCEPT ![h] = e]
  BY <1>1, <1>3, GoesType
<1>5. e.got = asks[h].got /\ e.agent = asks[h].agent /\ e.base = asks[h].base
  BY <1>1 DEF AskType
<1>6. d.rev = defs[b].rev + 1 /\ defs[b].rev \in Nat
  BY <1>1, <1>2 DEF Changed, RegTypeOK, Definitions
<1> SUFFICES ASSUME NEW a \in AgentId
             PROVE  /\ defs'[a].rev = 0 => defs'[a].w = 0
                    /\ \A p \in Process : Older(copies[p].agents[a], a)'
                    /\ \A g \in Asker : asks'[g].at # "idle" =>
                           /\ Older(asks[g].got[a], a)'
                           /\ asks'[g].agent = a => Older(asks[g].base, a)'
  BY <1>3 DEF EditsHold, OnlyEdits, Older
<1>8. defs'[a].rev = 0 => defs'[a].w = 0
  BY <1>3, <1>6 DEF EditsHold, RegTypeOK
<1>9. \A p \in Process : Older(copies[p].agents[a], a)'
  <2> TAKE p \in Process
  <2>1. copies[p].agents[a] \in Definitions /\ Older(copies[p].agents[a], a)
    BY DEF EditsHold, RegTypeOK, CopyType
  <2>2. \/ defs'[a].rev = defs[a].rev /\ defs'[a].w = defs[a].w
        \/ defs'[a].rev = defs[a].rev + 1
    BY <1>3, <1>6, <1>1 DEF RegTypeOK
  <2>3. copies[p].agents[a].rev \in Nat /\ defs[a].rev \in Nat
    BY <2>1 DEF Definitions, RegTypeOK
  <2> QED BY <1>3, <2>1, <2>2, <2>3 DEF Older
<1>10. ASSUME NEW g \in Asker, asks'[g].at # "idle"
       PROVE  Older(asks[g].got[a], a)' /\ (asks'[g].agent = a => Older(asks[g].base, a)')
  <2>1. /\ asks'[g].got = asks[g].got /\ asks'[g].agent = asks[g].agent
        /\ asks'[g].base = asks[g].base /\ asks[g].at # "idle"
    BY <1>1, <1>4, <1>5, <1>10 DEF RegTypeOK
  <2>2. asks[g] \in AskType
    BY <2>1, AskShape
  <2>3. asks[g].got[a] \in Definitions /\ asks[g].base \in Definitions
    BY <2>2 DEF AskType
  <2>4. Older(asks[g].got[a], a) /\ (asks[g].agent = a => Older(asks[g].base, a))
    BY <2>1 DEF EditsHold
  <2>5. \/ defs'[a].rev = defs[a].rev /\ defs'[a].w = defs[a].w
        \/ defs'[a].rev = defs[a].rev + 1
    BY <1>3, <1>6, <1>1 DEF RegTypeOK
  <2>6. asks[g].got[a].rev \in Nat /\ asks[g].base.rev \in Nat /\ defs[a].rev \in Nat
    BY <2>3 DEF Definitions, RegTypeOK
  <2> QED BY <2>1, <2>4, <2>5, <2>6 DEF Older
<1> QED BY <1>8, <1>9, <1>10

(* Every step keeps what is known of a definition at or behind its row.    *)
LEMMA EditsStep ==
  ASSUME RegTypeOK, EditsHold, [RegNext]_regVars
  PROVE  EditsHold'
<1>0. /\ NoAsk.at = "idle"
      /\ EditsHold /\ OnlyEdits => \A a \in AgentId : Older(NoDefs[a], a) /\ Older(FileDefs[a], a) /\ Older(NoDef, a)
  <2>1. ASSUME NEW a \in AgentId PROVE defs[a].rev \in Nat
    BY DEF RegTypeOK, Definitions
  <2>2. \A a \in AgentId : /\ NoDefs[a].rev = 0 /\ NoDefs[a].w = 0
                           /\ FileDefs[a].rev = 0 /\ FileDefs[a].w = 0
                           /\ NoDef.rev = 0 /\ NoDef.w = 0
    BY DEF NoDefs, NoDef, FileDefs
  <2> QED BY <2>1, <2>2 DEF EditsHold, Older, NoAsk
<1>1. ASSUME NEW h \in Asker, asks[h].at # "idle", NEW where \in {"load", "first"},
             Goes(h, where), UNCHANGED <<setup, copies, defs>>
      PROVE  EditsHold'
  <2> DEFINE e == [asks[h] EXCEPT !.at = where]
  <2>0. asks' = [asks EXCEPT ![h] = e]
    BY <1>1, GoesType
  <2>1. asks' = [asks EXCEPT ![h] = e] /\ e.got = asks[h].got /\ e.agent = asks[h].agent /\ e.base = asks[h].base
    BY <1>1, <2>0, AskShape DEF AskType
  <2> HIDE DEF e
  <2>2. OnlyEdits => \A a \in AgentId : Older(e.got[a], a) /\ (e.agent = a => Older(e.base, a))
    BY <1>1, <2>1 DEF EditsHold
  <2> QED BY <1>1, <2>1, <2>2, EditsShape
<1>2. ASSUME NEW h \in Asker, Leaves(h), UNCHANGED <<setup, copies, defs>> PROVE EditsHold'
  BY <1>0, <1>2, EditsShape DEF Leaves
<1>3. ASSUME NEW h \in Asker, NEW op \in setup.ops, NEW a \in AgentId, Ask(h, op, a) PROVE EditsHold'
  <2> DEFINE e == [at |-> "start", op |-> op, agent |-> a, base |-> NoDef, got |-> NoDefs, ok |-> TRUE]
  <2>1. e.got = NoDefs /\ e.base = NoDef /\ asks' = [asks EXCEPT ![h] = e] /\ UNCHANGED <<setup, copies, defs>>
    BY <1>3 DEF Ask
  <2> HIDE DEF e
  <2>2. OnlyEdits => \A b \in AgentId : Older(e.got[b], b) /\ (e.agent = b => Older(e.base, b))
    BY <1>0, <2>1
  <2> QED BY <2>1, <2>2, EditsShape
<1>4. ASSUME NEW h \in Asker, ReadAll(h) PROVE EditsHold'
  <2> DEFINE e == [asks[h] EXCEPT !.at = IF @ = "load" THEN "store" ELSE "look", !.got = defs, !.ok = up]
  <2>1. e.got = defs /\ e.agent = asks[h].agent /\ e.base = asks[h].base /\ asks[h].at # "idle"
    BY <1>4, AskShape DEF ReadAll, AskType
  <2>2. asks' = [asks EXCEPT ![h] = e] /\ UNCHANGED <<setup, copies, defs>>
    BY <1>4 DEF ReadAll
  <2> HIDE DEF e
  <2>3. ASSUME NEW a \in AgentId PROVE defs[a].rev \in Nat
    BY DEF RegTypeOK, Definitions
  <2>4. OnlyEdits => \A a \in AgentId : Older(e.got[a], a) /\ (e.agent = a => Older(e.base, a))
    BY <2>1, <2>3 DEF EditsHold, Older
  <2> QED BY <2>2, <2>4, EditsShape
<1>5. ASSUME NEW h \in Asker, StoreCopy(h) PROVE EditsHold'
  <2> SUFFICES ASSUME OnlyEdits PROVE EditsHold'
    BY <1>5 DEF EditsHold, OnlyEdits, StoreCopy
  <2> DEFINE q == setup.at[h]
             state == Load(asks[h].ok, asks[h].got, copies[q]).state
  <2>1. asks[h] \in AskType /\ q \in Process /\ asks[h].at # "idle" /\ copies[q] \in CopyType
    BY <1>5, AskShape, SetupType DEF StoreCopy, RegTypeOK
  <2>2. state.agents \in {FileDefs, NoDefs, asks[h].got, copies[q].agents}
    BY <2>1, LoadSays DEF AskType
  <2>3. \A a \in AgentId : Older(state.agents[a], a)
    BY <1>0, <2>1, <2>2 DEF EditsHold
  <2> DEFINE e == [asks[h] EXCEPT !.at = "mutate", !.base = state.agents[asks[h].agent]]
  <2>4. /\ copies' = [copies EXCEPT ![q] = state] /\ UNCHANGED <<setup, defs>>
        /\ asks' = [asks EXCEPT ![h] = NoAsk] \/ asks' = [asks EXCEPT ![h] = e]
    BY <1>5 DEF StoreCopy, Chooses, Leaves
  <2>5. e.got = asks[h].got /\ e.agent = asks[h].agent /\ e.base = state.agents[asks[h].agent]
    BY <2>1 DEF AskType
  <2> HIDE DEF e, state
  <2>6. \A a \in AgentId, p \in Process : Older(copies'[p].agents[a], a)
    BY <2>3, <2>4 DEF EditsHold, RegTypeOK
  <2>7. \A a \in AgentId : Older(e.got[a], a) /\ (e.agent = a => Older(e.base, a))
    BY <2>1, <2>3, <2>5 DEF EditsHold
  <2>8. \A g \in Asker : asks'[g].at # "idle" => asks'[g] = asks[g] \/ (g = h /\ asks'[g] = e)
    BY <1>0, <2>4 DEF RegTypeOK
  <2>9. ASSUME NEW g \in Asker, NEW a \in AgentId, asks'[g].at # "idle"
        PROVE  Older(asks'[g].got[a], a) /\ (asks'[g].agent = a => Older(asks'[g].base, a))
    <3>1. CASE asks'[g] = asks[g]
      BY <2>9, <3>1 DEF EditsHold
    <3>2. CASE g = h /\ asks'[g] = e
      BY <2>7, <3>2
    <3> QED BY <2>8, <2>9, <3>1, <3>2
  <2> QED BY <2>4, <2>6, <2>9 DEF EditsHold, OnlyEdits, Older
<1>6. ASSUME NEW h \in Asker, HostReads(h) PROVE EditsHold'
  <2> DEFINE e == [asks[h] EXCEPT !.at = "mutate", !.base = Definition(h)]
  <2>1. /\ e.got = asks[h].got /\ e.agent = asks[h].agent /\ e.base = Definition(h)
        /\ asks[h].at # "idle" /\ asks[h].agent \in AgentId
    BY <1>6, AskShape DEF HostReads, AskType
  <2>2. /\ Goes(h, "first") \/ Leaves(h) \/ asks' = [asks EXCEPT ![h] = e]
        /\ UNCHANGED <<setup, copies, defs>>
    BY <1>6 DEF HostReads, Chooses
  <2> HIDE DEF e
  <2>3. ASSUME NEW a \in AgentId PROVE defs[a].rev \in Nat
    BY DEF RegTypeOK, Definitions
  <2>4. OnlyEdits => Older(Definition(h), asks[h].agent)
    BY <2>1, <2>3, SetupType DEF Definition, EditsHold, Older
  <2>5. OnlyEdits => \A a \in AgentId : Older(e.got[a], a) /\ (e.agent = a => Older(e.base, a))
    BY <2>1, <2>4 DEF EditsHold
  <2> QED BY <1>1, <1>2, <2>1, <2>2, <2>5, EditsShape
<1>7. ASSUME NEW h \in Asker, ListAgents(h) \/ AdminReload(h) \/ AskFails(h) PROVE EditsHold'
  BY <1>1, <1>2, <1>7 DEF ListAgents, AdminReload, AskFails
<1>8. ASSUME NEW h \in Asker, Mutate(h) PROVE EditsHold'
  <2>1. CASE UNCHANGED defs
    <3> DEFINE r == Leaves(h) \/ Goes(h, "load")
    <3>1. r /\ UNCHANGED <<setup, copies, defs>> /\ asks[h].at # "idle"
      BY <1>8, <2>1 DEF Mutate
    <3> QED BY <1>1, <1>2, <3>1
  <2> QED BY <1>8, <2>1, EditsMutate
<1>9. ASSUME NEW h \in Asker, AdminReads(h) \/ AdminWrites(h) \/ AdminWritesInMemory(h) \/ AdminRemoves(h)
      PROVE EditsHold'
  <2>1. CASE asks[h].op \in AdminOps
    <3>1. asks[h].op \in setup.ops
      BY <1>9, AskShape DEF AdminReads, AdminWrites, AdminWritesInMemory, AdminRemoves
    <3>2. setup' = setup
      BY <1>9 DEF AdminReads, AdminWrites, AdminWritesInMemory, AdminRemoves, AdminStores
    <3> QED BY <2>1, <3>1, <3>2 DEF EditsHold, OnlyEdits
  <2>2. CASE asks[h].op \notin AdminOps
    BY <1>9, <2>2, AskShape DEF AdminReads, AdminWrites, AdminWritesInMemory, AdminRemoves, AdminOps
  <2> QED BY <2>1, <2>2
<1>10. CASE Outage
  BY <1>10 DEF Outage, EditsHold, OnlyEdits, Older
<1>11. CASE UNCHANGED regVars
  BY <1>11 DEF regVars, EditsHold, OnlyEdits, Older
<1> QED
  BY <1>3, <1>4, <1>5, <1>6, <1>7, <1>8, <1>9, <1>10, <1>11 DEF RegNext

-----------------------------------------------------------------------------
(* The registry as a whole.                                                *)

(* An empty table, empty copies.                                           *)
LEMMA RegInitial ==
  ASSUME RegInit
  PROVE  RegInv
<1>1. RegTypeOK
  BY DefinitionTypes, RegistryAssumption DEF RegInit, RegTypeOK, CopyType, NoAsk
<1>2. TrailExplains
  BY DEF RegInit, TrailExplains
<1>3. CalmHolds
  BY DEF RegInit, CalmHolds, Calm, Quiet, UpToDate, NoAsk
<1>4. EditsHold
  <2>1. \A a \in AgentId : NoDefs[a].rev = 0 /\ NoDefs[a].w = 0
    BY DEF NoDefs, NoDef
  <2>2. /\ defs = NoDefs /\ \A p \in Process : copies[p].agents = NoDefs
        /\ \A h \in Asker : asks[h].at = "idle"
    BY DEF RegInit, NoAsk
  <2>3. ASSUME NEW a \in AgentId PROVE Older(NoDefs[a], a)
    <3>1. Older(NoDefs[a], a) <=> (NoDefs[a].rev <= NoDefs[a].rev /\ NoDefs[a].w = NoDefs[a].w)
      BY <2>2 DEF Older
    <3>2. NoDefs[a].rev = 0 BY <2>1
    <3> QED BY <3>1, <3>2
  <2> QED BY <2>1, <2>2, <2>3 DEF EditsHold
<1> QED BY <1>1, <1>2, <1>3, <1>4 DEF RegInv

(* RegistryAgrees: whatever hosts, administrators and outages do, an agent   *)
(* only hosts changed is what its last record says, and with requests one by *)
(* one the copy a process routes with is the table.                        *)
THEOREM RegistryAlwaysAgrees == RegSpec => []RegistryAgrees
<1>1. RegInv /\ [RegNext]_regVars => RegInv'
  BY RegTypeStep, TrailStep, CalmStep, EditsStep DEF RegInv
<1>2. RegInv => RegistryAgrees
  BY DEF RegInv, CalmHolds, Calm, Quiet, UpToDate, QuietCopyIsCurrent, RegistryAgrees
<1> QED BY <1>1, <1>2, RegInitial, PTL DEF RegSpec

(* EditsBuildOnTheirBaseHere: while nobody deletes or administers, a host's  *)
(* change replaces the very definition it was based on, though the copy it   *)
(* read may be of any age.                                                 *)
THEOREM EditsAlwaysBuildOnTheirBase == RegSpec => EditsBuildOnTheirBaseHere
<1> DEFINE Builds == \A h \in Asker, a \in AgentId :
                        (asks[h].at = "mutate" /\ asks'[h].at = "load" /\ asks[h].agent = a
                            /\ setup.ops \cap ({"delete"} \cup AdminOps) = {})
                            => defs[a].w = asks[h].base.w
<1>1. RegInv /\ [RegNext]_regVars => RegInv'
  BY RegTypeStep, TrailStep, CalmStep, EditsStep DEF RegInv
<1>2. RegInv /\ [RegNext]_regVars => [Builds]_regVars
  <2> SUFFICES ASSUME RegInv, RegNext, NEW h \in Asker, NEW a \in AgentId,
                      asks[h].at = "mutate", asks'[h].at = "load", asks[h].agent = a, OnlyEdits
               PROVE  defs[a].w = asks[h].base.w
    BY DEF OnlyEdits
  <2> DEFINE Acts(g) == \/ \E op \in setup.ops, b \in AgentId : Ask(g, op, b)
                        \/ ReadAll(g) \/ StoreCopy(g) \/ ListAgents(g) \/ AdminReload(g)
                        \/ HostReads(g) \/ AdminReads(g) \/ AdminWrites(g)
                        \/ AdminWritesInMemory(g) \/ AdminRemoves(g) \/ AskFails(g)
  <2>0. ASSUME NEW g \in Asker, Acts(g) PROVE FALSE
    <3>1. asks[g].at # "mutate"
      BY <2>0 DEF Ask, ReadAll, StoreCopy, ListAgents, AdminReload, HostReads, AdminReads,
         AdminWrites, AdminWritesInMemory, AdminRemoves, AskFails
    <3>2. \A k \in Asker : k # g => asks'[k] = asks[k]
      BY <2>0 DEF RegInv, RegTypeOK, Ask, ReadAll, StoreCopy, ListAgents, AdminReload, HostReads,
         AdminReads, AdminWrites, AdminStores, AdminWritesInMemory, AdminRemoves, AskFails, Goes, Leaves,
         Chooses
    <3> QED BY <3>1, <3>2
  <2> HIDE DEF Acts
  <2>1. Mutate(h)
    <3>1. PICK g \in Asker : Mutate(g)
      BY <2>0 DEF RegNext, Acts, Outage
    <3>2. \A k \in Asker : k # g => asks'[k] = asks[k]
      BY <3>1 DEF RegInv, RegTypeOK, Mutate, Goes, Leaves
    <3> QED BY <3>1, <3>2
  <2>2. ~Leaves(h)
    BY DEF Leaves, NoAsk, RegInv, RegTypeOK
  <2>3. Accepts(asks[h].op, asks[h].base, defs[a])
    BY <2>1, <2>2 DEF Mutate
  <2> QED BY <2>3 DEF Accepts, RegInv, EditsHold, Older
<1>3. RegSpec => [][Builds]_regVars
  BY <1>1, <1>2, RegInitial, PTL DEF RegSpec
<1> QED BY <1>3 DEF EditsBuildOnTheirBaseHere

-----------------------------------------------------------------------------
(* Decisions about memories.                                               *)

OpName == {"noop", "reject", "delete", "add", "update", "pending", "verify"}
Operation == (Worker \X {"decision", "confirm"}) \cup ({"delete"} \X ClientKey)
RevId == {NoItem, First} \cup Operation
Read == ItemId \cup {NoItem}
Cand ==
    [from : {"turns", "consolidation", "structured"},
     kind : {"none", "exact_duplicate", "semantic_duplicate", "session_summary", "session_compacted"},
     op : {"add", "update", "delete", "ignore"}, scope : {"preference", "task", "session"},
     evidence : {{"user"}, {"assistant"}, {"canonical"}, {"user", "assistant"}, {"user", "canonical"}},
     target : {NoItem, First, <<"other">>}, flaw : Flaws,
     confidence : {"low", "middle", "high"},
     semantic : {"current_turn", "unclear", "uncertain", "fits"}, value : {"old", "new"}]

\* What a memory may rest on, whoever decided.
Honest(c) ==
    /\ c.evidence \cap {"user", "canonical"} # {}
    /\ c.from = "turns" => "canonical" \notin c.evidence
    /\ c.flaw \notin {"contract", "identity", "scope", "quote"}
    /\ c.flaw = "sensitive" => c.op = "delete"
    /\ c.semantic # "current_turn"

\* What the policy may store without the user.
Certain(c) ==
    /\ c.confidence = "high"
    /\ c.flaw = "language" => c.scope # "preference"
    /\ c.semantic = "fits" \/ (c.semantic = "uncertain" /\ "verifier" \in cast)

\* Candidates of all three sources have the fields the rules look at.
LEMMA CandidatesTyped == Candidates \subseteq Cand
<1>1. Conversation \subseteq Cand
  BY DEF Conversation, Cand
<1>2. \A op \in {"add", "update", "delete"}, confidence \in {"middle", "high"},
         semantic \in {"uncertain", "fits"} : Plain(op, confidence, semantic) \in Cand
  BY DEF Plain, Cand, Flaws
<1>3. Common \subseteq Cand
  <2>1. ASSUME NEW op \in {"add", "update", "delete"},
               NEW s \in {<<"high", "fits">>, <<"middle", "fits">>, <<"high", "uncertain">>}
        PROVE  Plain(op, s[1], s[2]) \in Cand
    <3>1. s[1] \in {"middle", "high"} /\ s[2] \in {"uncertain", "fits"}
      OBVIOUS
    <3> QED  BY <3>1, <1>2
  <2> QED  BY <2>1 DEF Common
<1>4. ASSUME NEW c \in Cand, NEW kind \in {"exact_duplicate", "semantic_duplicate",
                                           "session_summary", "session_compacted"},
             NEW scope \in {"preference", "session"}
      PROVE  [c EXCEPT !.from = "consolidation", !.kind = kind, !.scope = scope,
                !.evidence = {"canonical"}, !.target = First] \in Cand
  BY <1>4 DEF Cand
<1>5. Consolidation \subseteq Cand
  <2> DEFINE K == {<<"exact_duplicate", "delete", "high", "preference">>,
                   <<"semantic_duplicate", "update", "middle", "preference">>,
                   <<"session_summary", "update", "high", "session">>,
                   <<"session_compacted", "delete", "high", "session">>}
  <2>1. ASSUME NEW k \in K
        PROVE  [Plain(k[2], k[3], "fits") EXCEPT !.from = "consolidation", !.kind = k[1], !.scope = k[4],
                  !.evidence = {"canonical"}, !.target = First] \in Cand
    <3>1. /\ k[1] \in {"exact_duplicate", "semantic_duplicate", "session_summary", "session_compacted"}
          /\ k[2] \in {"add", "update", "delete"}
          /\ k[3] \in {"middle", "high"}
          /\ k[4] \in {"preference", "session"}
      OBVIOUS
    <3>2. Plain(k[2], k[3], "fits") \in Cand
      BY <3>1, <1>2
    <3> QED  BY <3>1, <3>2, <1>4
  <2> QED  BY <2>1 DEF Consolidation
<1>6. Structured \subseteq Cand
  <2>1. ASSUME NEW op \in {"add", "update"}
        PROVE  [Plain(op, "high", "fits") EXCEPT !.from = "structured", !.scope = "task",
                  !.evidence = {"canonical"}] \in Cand
    <3>1. Plain(op, "high", "fits") \in Cand
      BY <1>2
    <3> QED  BY <3>1 DEF Cand
  <2> QED  BY <2>1 DEF Structured
<1> QED  BY <1>1, <1>3, <1>5, <1>6 DEF Candidates

\* MemoryCandidateHardRules: what is not refused is honest.
LEMMA NotRefusedIsHonest ==
    ASSUME NEW c \in Cand, NEW cur, ~Refused(c, cur), c.semantic # "current_turn"
    PROVE  Honest(c)
<1>1. /\ c.evidence # {"assistant"}
      /\ ~("canonical" \in c.evidence /\ c.from = "turns")
      /\ c.flaw \notin {"contract", "identity", "scope", "quote"}
      /\ c.flaw = "sensitive" => c.op = "delete"
  BY DEF Refused, BadEvidence
<1>2. c.evidence \in {{"user"}, {"assistant"}, {"canonical"}, {"user", "assistant"}, {"user", "canonical"}}
  BY DEF Cand
<1>3. c.evidence \cap {"user", "canonical"} # {}
  BY <1>1, <1>2
<1> QED  BY <1>1, <1>3 DEF Honest

\* MemoryCandidatePolicy.evaluate, for every candidate and every memory: an
\* addition or update is honest, certain and about the memory that was read.
LEMMA PolicySound ==
    ASSUME NEW c \in Cand, NEW cur \in Read
    PROVE  /\ Policy(c, cur) \in OpName
           /\ Policy(c, cur) \in {"add", "update"} => Honest(c) /\ Certain(c) /\ c.op # "delete"
           /\ Policy(c, cur) = "add" => cur = NoItem
           /\ Policy(c, cur) \in {"update", "delete"} => cur # NoItem
           /\ Policy(c, cur) = "pending" => Honest(c)
           /\ Policy(c, cur) = "verify" => Honest(c) /\ ~Downgraded(c)
<1>1. HardRules(c, cur) \in {"reject", "noop", "delete", "open"}
  BY DEF HardRules
<1>2. CASE HardRules(c, cur) # "open"
  <2>1. Policy(c, cur) = HardRules(c, cur)
    BY <1>2 DEF Policy
  <2>2. Policy(c, cur) = "delete" => cur # NoItem
    BY <2>1, <1>2 DEF HardRules, CanonicalDelete
  <2> QED  BY <1>1, <1>2, <2>1, <2>2 DEF OpName
<1>3. CASE HardRules(c, cur) = "open" /\ c.semantic = "current_turn"
  <2>1. Policy(c, cur) = "noop"
    BY <1>3 DEF Policy, Semantics
  <2> QED  BY <2>1 DEF OpName
<1>4. CASE HardRules(c, cur) = "open" /\ c.semantic # "current_turn"
  <2>1. ~Refused(c, cur) /\ c.op # "ignore"
    BY <1>4 DEF HardRules
  <2>2. Honest(c)
    BY <1>4, <2>1, NotRefusedIsHonest
  <2>3. Semantics(c, cur, c.semantic) \in {"pending", "confirmed"}
    BY <1>4 DEF Semantics
  <2>4. Semantics(c, cur, c.semantic) = "confirmed" => c.semantic = "fits"
    BY <1>4 DEF Semantics
  <2>5. c.op \in {"add", "update", "delete"}
    BY <2>1 DEF Cand
  <2>6. CASE \/ c.confidence = "low" \/ Downgraded(c)
             \/ Semantics(c, cur, c.semantic) = "pending"
    <3>1. \/ Policy(c, cur) \in {"reject", "pending"}
          \/ Policy(c, cur) = "verify" /\ ~Downgraded(c)
      BY <1>4, <2>3, <2>6 DEF Policy
    <3> QED  BY <2>2, <3>1 DEF OpName
  <2>7. CASE /\ c.confidence # "low" /\ ~Downgraded(c)
             /\ Semantics(c, cur, c.semantic) = "confirmed"
    <3>1. Policy(c, cur) = Accept(c, cur)
      BY <1>4, <2>7 DEF Policy
    <3>2. /\ Accept(c, cur) \in {"pending", "delete", "add", "update"}
          /\ Accept(c, cur) \in {"add", "update"} => c.confidence = "high" /\ c.op # "delete"
          /\ Accept(c, cur) = "add" => cur = NoItem
          /\ Accept(c, cur) \in {"update", "delete"} => cur # NoItem
      BY DEF Accept, DeleteAuthorized
    <3>3. Accept(c, cur) \in {"add", "update"} => Certain(c)
      BY <2>4, <2>5, <2>7, <3>2 DEF Certain, Downgraded
    <3> QED  BY <2>2, <3>1, <3>2, <3>3 DEF OpName
  <2> QED  BY <2>3, <2>6, <2>7
<1> QED  BY <1>2, <1>3, <1>4

\* _verify_pending, for every candidate that was sent to the verifier.
LEMMA VerifiedSound ==
    ASSUME NEW c \in Cand, NEW cur \in Read, Honest(c), ~Downgraded(c), "verifier" \in cast
    PROVE  LET op == PolicyVerified(c, cur)
           IN  /\ op \in OpName \ {"verify"}
               /\ op \in {"add", "update"} => Certain(c) /\ c.op # "delete"
               /\ op = "add" => cur = NoItem
               /\ op \in {"update", "delete"} => cur # NoItem
<1> DEFINE s == Semantics(c, cur, IF c.semantic = "uncertain" THEN "fits" ELSE c.semantic)
<1>1. HardRules(c, cur) \in {"reject", "noop", "delete", "open"}
  BY DEF HardRules
<1>2. CASE HardRules(c, cur) # "open"
  <2>1. PolicyVerified(c, cur) = HardRules(c, cur)
    BY <1>2 DEF PolicyVerified
  <2>2. HardRules(c, cur) = "delete" => cur # NoItem
    BY DEF HardRules, CanonicalDelete
  <2> QED  BY <1>1, <1>2, <2>1, <2>2 DEF OpName
<1>3. CASE HardRules(c, cur) = "open" /\ s # "confirmed"
  <2>1. PolicyVerified(c, cur) = "pending"
    BY <1>3 DEF PolicyVerified
  <2> QED  BY <2>1 DEF OpName
<1>4. CASE HardRules(c, cur) = "open" /\ s = "confirmed"
  <2>1. PolicyVerified(c, cur) = Accept(c, cur)
    BY <1>4 DEF PolicyVerified
  <2>2. c.op # "ignore"
    BY <1>4 DEF HardRules
  <2>3. c.op \in {"add", "update", "delete"}
    BY <2>2 DEF Cand
  <2>4. c.semantic \in {"fits", "uncertain"}
    BY <1>4 DEF Semantics
  <2>5. /\ Accept(c, cur) \in {"pending", "delete", "add", "update"}
        /\ Accept(c, cur) \in {"add", "update"} => c.confidence = "high" /\ c.op # "delete"
        /\ Accept(c, cur) = "add" => cur = NoItem
        /\ Accept(c, cur) \in {"update", "delete"} => cur # NoItem
    BY DEF Accept, DeleteAuthorized
  <2>6. Accept(c, cur) \in {"add", "update"} => Certain(c)
    BY <2>3, <2>4, <2>5 DEF Certain, Downgraded
  <2> QED  BY <2>1, <2>5, <2>6 DEF OpName
<1> QED  BY <1>2, <1>3, <1>4

ItemRec == [status : {"none", "active", "deleting", "gone"}, rev : RevId,
            cand : Cand \cup {"none"}, by : {"none", "policy", "user"}]
DoingRec == [stage : {"verify", "apply", "ended"}, cand : Cand, op : OpName,
             item : Read, rev : RevId]
PendingRec == [status : {"pending"}, cand : Cand, item : Read, rev : RevId, readable : BOOLEAN]
ClaimRec == [action : {"confirm", "reject"}, key : ClientKey, op : {"add", "update", "delete"}]
DoneRec == [action : {"confirm", "reject", "conflict"}, key : ClientKey]
Resolving == [stage : {"claim", "apply", "again", "complete", "conflict"}, w : Worker,
              action : {"confirm", "reject"}, key : ClientKey]
Deleting == [stage : {"delete"}, item : ItemId, rev : RevId, key : ClientKey]

\* The types of the decisions.
DecisionsTypeOK ==
    /\ items \in [ItemId -> ItemRec]
    /\ decided \subseteq Operation \X ItemId \X RevId
    /\ doing \in [Worker -> {Idle} \cup DoingRec]
    /\ pending \in [Worker -> {NoDecision} \cup PendingRec]
    /\ claim \in [Worker -> {NoClaim} \cup ClaimRec]
    /\ done \in [Worker -> {NoClaim} \cup DoneRec]
    /\ request \in [Requester -> {Idle} \cup Resolving \cup Deleting]

\* A stored memory is honest and, without the user, certain.
StoredAreGrounded ==
    \A i \in ItemId : items[i].status = "active" =>
        /\ items[i].cand \in Cand
        /\ Honest(items[i].cand) /\ items[i].cand.flaw # "sensitive"
        /\ items[i].by = "policy" => Certain(items[i].cand)

\* Every revision is the first one or that of an accepted operation, and no
\* decision has replaced the one an active memory has.
RevisionsKnown ==
    /\ \A d \in decided :
         /\ d[3] \in {NoItem, First} \/ OnRecord(d[3])
         /\ d[2] = First \/ OnRecord(d[2])
    /\ \A i \in ItemId : items[i].status = "active" =>
         /\ i = First \/ OnRecord(i)
         /\ items[i].rev = First \/ OnRecord(items[i].rev)
         /\ \A d \in decided : d[2] = i => d[3] # items[i].rev

\* What a worker is about to verify, apply or record.
Judged(d) ==
    /\ d.item = NoItem => d.rev = NoItem
    /\ d.stage = "verify" => Honest(d.cand) /\ ~Downgraded(d.cand) /\ "verifier" \in cast
    /\ d.stage = "apply" =>
         /\ d.op \in {"add", "update"} => Honest(d.cand) /\ Certain(d.cand) /\ d.cand.op # "delete"
         /\ d.op = "add" => d.item = NoItem
         /\ d.op \in {"update", "delete"} => d.item # NoItem
         /\ d.op = "pending" => Honest(d.cand)
WorkersJudged == \A w \in Worker : doing[w] # Idle => Judged(doing[w])

\* A decision that waits for the user, and one he may confirm.
Waiting(p) ==
    p.status = "pending" /\ Honest(p.cand) /\ (p.item = NoItem => p.rev = NoItem)
Reachable(p) == ConfirmedOp(p) = "add" \/ p.item # NoItem
DecisionsWait == \A w \in Worker : pending[w] # NoDecision => Waiting(pending[w])

\* A worker asks the user once, when it ends.
AskedOnce == \A w \in Worker : pending[w] # NoDecision => doing[w].stage = "ended"

\* A claim is about a decision that waits, and everything done after it in its name.
ClaimsHold ==
    \A w \in Worker : claim[w] # NoClaim =>
        pending[w] # NoDecision /\ (claim[w].action = "confirm" => Reachable(pending[w]))
Claimed(q) ==
    /\ pending[q.w] # NoDecision
    /\ q.stage = "claim" /\ q.action = "confirm" => Reachable(pending[q.w])
    /\ q.stage \in {"apply", "again", "complete", "conflict"} =>
         claim[q.w] # NoClaim /\ claim[q.w].key = q.key /\ claim[q.w].action = q.action
    /\ q.stage \in {"apply", "again", "conflict"} => q.action = "confirm"
    /\ q.stage = "complete" /\ q.action = "confirm" => OnRecord(<<q.w, "confirm">>)
RequestsClaimed == \A r \in Requester : request[r] \in Resolving => Claimed(request[r])

DecisionsInv ==
    /\ DecisionsTypeOK /\ StoredAreGrounded /\ RevisionsKnown /\ OneChangePerRevision
    /\ WorkersJudged /\ DecisionsWait /\ AskedOnce /\ ClaimsHold /\ RequestsClaimed /\ ResolutionAgrees

-----------------------------------------------------------------------------

\* Names of memories, revisions and operations are told apart.
LEMMA NamesDiffer ==
    /\ NoItem \notin ItemId /\ NoItem # First
    /\ \A o \in Operation : o # NoItem /\ o # First
    /\ ItemId \subseteq RevId
    /\ \A w \in Worker : <<w, "decision">> \in Operation \cap ItemId
                         /\ <<w, "confirm">> \in Operation \cap ItemId
    /\ \A k \in ClientKey : <<"delete", k>> \in Operation
<1>1. \A a, b : <<a, b>> # <<"none">> /\ <<a, b>> # <<"first">>
  OBVIOUS
<1>2. \A o \in Operation : \E a, b : o = <<a, b>>
  BY DEF Operation
<1>3. \A w \in Worker : <<w, "decision">> \in Operation \cap ItemId
                         /\ <<w, "confirm">> \in Operation \cap ItemId
  BY DEF Operation, ItemId
<1>4. \A k \in ClientKey : <<"delete", k>> \in Operation
  BY DEF Operation
<1>5. \A i \in ItemId : i = First \/ i \in Operation
  BY DEF Operation, ItemId
<1>6. \A o \in Operation : o # NoItem /\ o # First
  BY <1>1, <1>2 DEF NoItem, First
<1>7. NoItem # First
  BY DEF NoItem, First
<1> HIDE DEF NoItem, First
<1> QED  BY <1>3, <1>4, <1>5, <1>6, <1>7 DEF RevId

\* A stage tells a request from no request, and a deletion from a resolution.
LEMMA StagesDiffer ==
    /\ \A d \in DoingRec : d # Idle
    /\ \A q \in Resolving : q # Idle /\ q \notin Deleting
    /\ \A q \in Deleting : q # Idle /\ q \notin Resolving
    /\ \A p \in PendingRec : p # NoDecision
    /\ \A m \in ClaimRec : m # NoClaim
    /\ \A m \in DoneRec : m # NoClaim
    /\ Idle.stage = "idle" /\ NoDecision.status = "none" /\ NoClaim.action = "none"
<1>1. Idle.stage = "idle" /\ NoDecision.status = "none" /\ NoClaim.action = "none"
  BY DEF Idle, NoDecision, NoClaim
<1>2. \A d \in DoingRec : d.stage # "idle"
  BY DEF DoingRec
<1>3. \A q \in Resolving : q.stage \in {"claim", "apply", "again", "complete", "conflict"}
  BY DEF Resolving
<1>4. \A q \in Deleting : q.stage = "delete"
  BY DEF Deleting
<1>5. \A p \in PendingRec : p.status = "pending"
  BY DEF PendingRec
<1>6. \A m \in ClaimRec : m.action \in {"confirm", "reject"}
  BY DEF ClaimRec
<1>7. \A m \in DoneRec : m.action \in {"confirm", "reject", "conflict"}
  BY DEF DoneRec
<1> QED  BY <1>1, <1>2, <1>3, <1>4, <1>5, <1>6, <1>7

\* get_current_by_key: one memory or none, with the revision it has.
LEMMA CurrentIsRead ==
    ASSUME DecisionsTypeOK
    PROVE  /\ Current \in Read /\ RevOf(Current) \in RevId
           /\ Current = NoItem => RevOf(Current) = NoItem
<1>1. Current \in Read
  BY DEF Current, Read
<1>2. NoItem \in RevId
  BY DEF RevId
<1>3. \A i \in ItemId : items[i].rev \in RevId
  BY DEF DecisionsTypeOK, ItemRec
<1> QED  BY <1>1, <1>2, <1>3 DEF RevOf, Read

\* The invariant implies what is promised of the memories.
LEMMA StoredAreGroundedSuffices == StoredAreGrounded => MemoryIsGrounded
BY DEF StoredAreGrounded, MemoryIsGrounded, Honest, Certain

\* In the beginning one memory may be known, and nothing has been decided.
LEMMA DecisionsStart == DecisionsInit => DecisionsInv
<1> SUFFICES ASSUME DecisionsInit PROVE DecisionsInv
  OBVIOUS
<1> DEFINE old == [Plain("add", "high", "fits") EXCEPT !.value = "old"]
<1>1. old = [from |-> "turns", kind |-> "none", op |-> "add", scope |-> "preference",
             evidence |-> {"user"}, target |-> NoItem, flaw |-> "none",
             confidence |-> "high", semantic |-> "fits", value |-> "old"]
  BY DEF Plain
<1>2. old \in Cand
  BY <1>1 DEF Cand, Flaws
<1>3. Honest(old) /\ Certain(old) /\ old.flaw # "sensitive"
  BY <1>1 DEF Honest, Certain
<1>4. \A i \in ItemId : \/ items[i] = Blank
                        \/ i = First /\ items[i] = [status |-> "active", rev |-> First,
                                                    by |-> "policy", cand |-> old]
  BY DEF DecisionsInit
<1> HIDE DEF old
<1>5. \A i \in ItemId : items[i] \in ItemRec
  BY <1>2, <1>4 DEF ItemRec, Blank, RevId
<1>6. DecisionsTypeOK
  <2>1. items \in [ItemId -> ItemRec]
    <3>1. items = [i \in ItemId |-> items[i]]
      BY DEF DecisionsInit
    <3> QED  BY <1>5, <3>1
  <2> QED  BY <2>1 DEF DecisionsTypeOK, DecisionsInit
<1>7. StoredAreGrounded
  BY <1>2, <1>3, <1>4 DEF StoredAreGrounded, Blank
<1>8. RevisionsKnown
  BY <1>4 DEF RevisionsKnown, Blank, DecisionsInit
<1> QED
  BY <1>6, <1>7, <1>8, StagesDiffer
  DEF DecisionsInit, DecisionsInv, OneChangePerRevision, WorkersJudged, DecisionsWait,
      AskedOnce, ClaimsHold, RequestsClaimed, ResolutionAgrees, OnRecord

-----------------------------------------------------------------------------

\* The same decision waits for the user, its text perhaps cleared.
SameQuestion(p, q) ==
    \/ p = NoDecision /\ q = NoDecision
    \/ /\ p \in PendingRec /\ q \in PendingRec
       /\ q.cand = p.cand /\ q.item = p.item /\ q.rev = p.rev

\* lifecycle.apply of an operation that is accepted: the memory it stores is
\* grounded, and the revision it replaces is replaced for the first time.
LEMMA ChangeKeeps ==
    ASSUME DecisionsTypeOK, StoredAreGrounded, RevisionsKnown, OneChangePerRevision,
           NEW o \in Operation, NEW op \in {"add", "update", "delete"}, NEW i \in Read,
           NEW rev \in RevId, NEW c, NEW by \in {"policy", "user"},
           op = "add" => o \in ItemId /\ rev = NoItem,
           op # "add" => i \in ItemId,
           op # "delete" => /\ c \in Cand /\ Honest(c) /\ c.flaw # "sensitive"
                            /\ by = "policy" => Certain(c),
           Accepted(o, op, i, rev), Change(o, op, i, rev, c, by), cast' = cast
    PROVE  /\ items' \in [ItemId -> ItemRec] /\ decided' \subseteq Operation \X ItemId \X RevId
           /\ pending' \in [Worker -> {NoDecision} \cup PendingRec]
           /\ StoredAreGrounded' /\ RevisionsKnown' /\ OneChangePerRevision'
           /\ \A w \in Worker : SameQuestion(pending[w], pending'[w])
           /\ \A x : OnRecord(x)' <=> (OnRecord(x) \/ x = o)
<1> DEFINE j == IF op = "add" THEN o ELSE i
           new == IF op = "delete" THEN [items[i] EXCEPT !.status = "deleting"]
                  ELSE [status |-> "active", rev |-> o, cand |-> c, by |-> by]
           change == <<o, j, rev>>
<1>1. j \in ItemId
  OBVIOUS
<1>2. items' = [items EXCEPT ![j] = new]
  BY DEF Change
<1>3. decided' = decided \cup {change}
  BY DEF Change
<1>4. change[1] = o /\ change[2] = j /\ change[3] = rev
  OBVIOUS
<1>5. /\ new \in ItemRec
      /\ new.status = "active" => op # "delete" /\ new.rev = o /\ new.cand = c /\ new.by = by
  <2>1. CASE op = "delete"
    <3>1. items[i] \in ItemRec
      BY <2>1 DEF DecisionsTypeOK
    <3> QED  BY <2>1, <3>1 DEF ItemRec
  <2>2. CASE op # "delete"
    <3>1. new = [status |-> "active", rev |-> o, cand |-> c, by |-> by]
      BY <2>2
    <3>2. o \in RevId
      BY DEF RevId
    <3> HIDE DEF new
    <3> QED  BY <2>2, <3>1, <3>2 DEF ItemRec
  <2> QED  BY <2>1, <2>2
<1>6. change \in Operation \X ItemId \X RevId
  BY <1>1
<1>7. /\ \A x \in ItemId : x # j => items'[x] = items[x]
      /\ items'[j] = new
      /\ items' \in [ItemId -> ItemRec]
  BY <1>1, <1>2, <1>5 DEF DecisionsTypeOK
<1>8. \A x : OnRecord(x)' <=> (OnRecord(x) \/ x = o)
  BY <1>3, <1>4 DEF OnRecord
<1>9. ~OnRecord(o)
  BY DEF Accepted
<1>10. op # "add" => items[i].status = "active" /\ items[i].rev = rev
  BY DEF Accepted
<1>11. /\ rev \in {NoItem, First} \/ OnRecord(rev)
       /\ \A d \in decided : d[2] = j => d[3] # rev
  <2>1. CASE op = "add"
    <3>1. j = o /\ o # First
      BY <2>1, NamesDiffer
    <3>2. \A d \in decided : d[2] # j
      BY <1>9, <3>1 DEF RevisionsKnown
    <3> QED  BY <2>1, <3>2
  <2>2. CASE op # "add"
    <3>1. j = i
      BY <2>2
    <3> QED  BY <1>1, <1>10, <2>2, <3>1 DEF RevisionsKnown
  <2> QED  BY <2>1, <2>2
<1>12. j = First \/ OnRecord(j)'
  <2>1. CASE op = "add"
    BY <1>8, <2>1
  <2>2. CASE op # "add"
    <3>1. j = i /\ items[i].status = "active"
      BY <1>10, <2>2
    <3>2. i = First \/ OnRecord(i)
      BY <3>1, <1>1, <2>2 DEF RevisionsKnown
    <3> QED  BY <1>8, <3>1, <3>2
  <2> QED  BY <2>1, <2>2
<1> HIDE DEF j, new, change
<1>13. StoredAreGrounded'
  BY <1>5, <1>7 DEF StoredAreGrounded, Certain
<1>14. RevisionsKnown'
  BY <1>3, <1>4, <1>5, <1>7, <1>8, <1>9, <1>11, <1>12, NamesDiffer DEF RevisionsKnown
<1>15. OneChangePerRevision'
  BY <1>3, <1>4, <1>11 DEF OneChangePerRevision
<1>16. pending \in [Worker -> {NoDecision} \cup PendingRec]
  BY DEF DecisionsTypeOK
<1>17. \A w \in Worker : SameQuestion(pending[w], Scrubbed(i)[w])
  <2> TAKE w \in Worker
  <2>1. CASE pending[w] = NoDecision
    BY <2>1, StagesDiffer DEF Scrubbed, SameQuestion
  <2>2. CASE pending[w] \in PendingRec
    <3>1. [pending[w] EXCEPT !.readable = FALSE] \in PendingRec
      BY <2>2 DEF PendingRec
    <3>2. Scrubbed(i)[w] \in {pending[w], [pending[w] EXCEPT !.readable = FALSE]}
      BY DEF Scrubbed
    <3>3. /\ [pending[w] EXCEPT !.readable = FALSE].cand = pending[w].cand
          /\ [pending[w] EXCEPT !.readable = FALSE].item = pending[w].item
          /\ [pending[w] EXCEPT !.readable = FALSE].rev = pending[w].rev
      BY <2>2 DEF PendingRec
    <3> QED  BY <2>2, <3>1, <3>2, <3>3 DEF SameQuestion
  <2> QED  BY <1>16, <2>1, <2>2
<1>18. \A w \in Worker : SameQuestion(pending[w], pending[w])
  BY <1>16 DEF SameQuestion
<1>19. pending' \in {Scrubbed(i), pending}
  BY DEF Change
<1>20. Scrubbed(i) = [w \in Worker |-> Scrubbed(i)[w]]
  BY DEF Scrubbed
<1>21. \A w \in Worker : SameQuestion(pending[w], pending'[w])
  BY <1>17, <1>18, <1>19
<1>22. \A w \in Worker : Scrubbed(i)[w] \in {NoDecision} \cup PendingRec
  BY <1>17 DEF SameQuestion
<1>23. pending' \in [Worker -> {NoDecision} \cup PendingRec]
  BY <1>16, <1>19, <1>20, <1>22
<1> QED
  BY <1>3, <1>6, <1>7, <1>8, <1>13, <1>14, <1>15, <1>21, <1>23 DEF DecisionsTypeOK

\* What waits for the user is asked about in the same words after a change.
LEMMA SameQuestionSameAnswers ==
    ASSUME NEW p, NEW q, SameQuestion(p, q)
    PROVE  /\ p # NoDecision <=> q # NoDecision
           /\ p # NoDecision => (Waiting(q) <=> Waiting(p)) /\ (Reachable(q) <=> Reachable(p))
<1>1. CASE p = NoDecision /\ q = NoDecision
  BY <1>1
<1>2. CASE /\ p \in PendingRec /\ q \in PendingRec
           /\ q.cand = p.cand /\ q.item = p.item /\ q.rev = p.rev
  <2>1. p # NoDecision /\ q # NoDecision /\ p.status = "pending" /\ q.status = "pending"
    BY <1>2, StagesDiffer DEF PendingRec
  <2> QED  BY <1>2, <2>1 DEF Waiting, Reachable, ConfirmedOp
<1> QED  BY <1>1, <1>2 DEF SameQuestion

\* A change of memory leaves open decisions, claims and requests as they are.
LEMMA QuestionsKept ==
    ASSUME DecisionsInv, cast' = cast, claim' = claim, done' = done,
           \A w \in Worker : SameQuestion(pending[w], pending'[w]),
           \A x : OnRecord(x) => OnRecord(x)',
           \A w \in Worker :
              OnRecord(<<w, "confirm">>)' =>
                 OnRecord(<<w, "confirm">>) \/ claim[w].action = "confirm"
    PROVE  /\ DecisionsWait' /\ ClaimsHold' /\ ResolutionAgrees'
           /\ \A q \in Resolving : Claimed(q) => Claimed(q)'
<1>1. \A w \in Worker :
         /\ pending[w] # NoDecision <=> pending'[w] # NoDecision
         /\ pending[w] # NoDecision =>
              (Waiting(pending'[w]) <=> Waiting(pending[w]))
              /\ (Reachable(pending'[w]) <=> Reachable(pending[w]))
  BY SameQuestionSameAnswers
<1>2. DecisionsWait'
  BY <1>1 DEF DecisionsInv, DecisionsWait
<1>3. ClaimsHold'
  BY <1>1 DEF DecisionsInv, ClaimsHold
<1>4. ResolutionAgrees'
  BY DEF DecisionsInv, ResolutionAgrees
<1>5. ASSUME NEW q \in Resolving, Claimed(q)
      PROVE  Claimed(q)'
  <2>1. q.w \in Worker
    BY DEF Resolving
  <2>2. OnRecord(<<q.w, "confirm">>) => OnRecord(<<q.w, "confirm">>)'
    OBVIOUS
  <2> QED  BY <1>1, <1>5, <2>1, <2>2 DEF Claimed
<1> QED  BY <1>2, <1>3, <1>4, <1>5

\* What only depends on memories, open decisions, claims and requests.
MemoryKeeps ==
    /\ StoredAreGrounded' /\ RevisionsKnown' /\ OneChangePerRevision'
    /\ DecisionsWait' /\ ClaimsHold' /\ RequestsClaimed' /\ ResolutionAgrees'

\* A step that leaves memories, decisions and requests alone keeps all of that.
LEMMA MemoryUntouched ==
    ASSUME DecisionsInv, UNCHANGED <<cast, items, decided, pending, claim, done, request>>
    PROVE  MemoryKeeps
<1>1. OneChangePerRevision' /\ ResolutionAgrees'
  BY DEF DecisionsInv, OneChangePerRevision, ResolutionAgrees, OnRecord
<1>2. StoredAreGrounded' /\ RevisionsKnown' /\ DecisionsWait' /\ ClaimsHold'
  BY DEF DecisionsInv, StoredAreGrounded, Certain, RevisionsKnown, OnRecord, DecisionsWait, ClaimsHold
<1>3. RequestsClaimed'
  BY DEF DecisionsInv, RequestsClaimed, Claimed, OnRecord
<1> QED  BY <1>1, <1>2, <1>3 DEF MemoryKeeps

\* A worker that reads or decides changes nothing but its own notes.
LEMMA NotesKeep ==
    ASSUME DecisionsInv, NEW w \in Worker, NEW d \in DoingRec, Judged(d),
           doing[w].stage # "ended",
           doing' = [doing EXCEPT ![w] = d],
           UNCHANGED <<cast, items, decided, pending, claim, done, request>>
    PROVE  DecisionsInv'
<1>1. DecisionsTypeOK'
  BY DEF DecisionsInv, DecisionsTypeOK
<1>2. WorkersJudged'
  <2>1. ASSUME NEW v \in Worker, (doing[v] # Idle)' PROVE Judged(doing[v])'
    <3>1. CASE v = w
      <4>1. doing'[v] = d
        BY <3>1 DEF DecisionsInv, DecisionsTypeOK
      <4> QED  BY <4>1 DEF Judged, Honest, Certain, Downgraded
    <3>2. CASE v # w
      <4>1. doing'[v] = doing[v]
        BY <3>2
      <4> QED
        BY <2>1, <4>1 DEF DecisionsInv, WorkersJudged, Judged, Honest, Certain, Downgraded
    <3> QED  BY <3>1, <3>2
  <2> QED  BY <2>1 DEF WorkersJudged
<1>3. AskedOnce'
  BY DEF DecisionsInv, DecisionsTypeOK, AskedOnce
<1>4. MemoryKeeps
  BY MemoryUntouched
<1> QED  BY <1>1, <1>2, <1>3, <1>4 DEF DecisionsInv, MemoryKeeps

\* policy.evaluate and the verifier: what is noted was judged by the rules.
LEMMA EvaluateKeeps ==
    ASSUME DecisionsInv, NEW w \in Worker,
           EvaluateCandidate(w) \/ VerifierConfirms(w) \/ VerifierDeclines(w)
    PROVE  DecisionsInv'
<1>1. Current \in Read /\ RevOf(Current) \in RevId /\ (Current = NoItem => RevOf(Current) = NoItem)
  BY CurrentIsRead DEF DecisionsInv
<1>2. CASE EvaluateCandidate(w)
  <2>1. PICK c \in Candidates :
           LET op == Policy(c, Current)
           IN  Decide(w, c, IF op = "verify" /\ "verifier" \notin cast THEN "pending" ELSE op, Current)
    BY <1>2 DEF EvaluateCandidate
  <2> DEFINE op == IF Policy(c, Current) = "verify" /\ "verifier" \notin cast
                   THEN "pending" ELSE Policy(c, Current)
             d == [stage |-> IF op = "verify" THEN "verify" ELSE "apply",
                   cand |-> c, op |-> op, item |-> Current, rev |-> RevOf(Current)]
  <2>2. c \in Cand
    BY CandidatesTyped
  <2>3. doing' = [doing EXCEPT ![w] = d]
    BY <2>1 DEF Decide
  <2>4. /\ op \in OpName
        /\ op \in {"add", "update"} => Honest(c) /\ Certain(c) /\ c.op # "delete"
        /\ op = "add" => Current = NoItem
        /\ op \in {"update", "delete"} => Current # NoItem
        /\ op = "pending" => Honest(c)
        /\ op = "verify" => Honest(c) /\ ~Downgraded(c) /\ "verifier" \in cast
    BY <1>1, <2>2, PolicySound DEF OpName
  <2> HIDE DEF op
  <2>5. d \in DoingRec
    BY <1>1, <2>2, <2>4 DEF DoingRec
  <2>6. Judged(d)
    BY <1>1, <2>4 DEF Judged
  <2> HIDE DEF d
  <2> QED  BY <1>2, <2>3, <2>5, <2>6, NotesKeep, StagesDiffer DEF EvaluateCandidate
<1>3. ASSUME doing[w].stage = "verify"
      PROVE  doing[w] \in DoingRec /\ Honest(doing[w].cand) /\ ~Downgraded(doing[w].cand)
             /\ "verifier" \in cast /\ Judged(doing[w])
  BY <1>3, StagesDiffer DEF DecisionsInv, DecisionsTypeOK, WorkersJudged, Judged
<1>4. CASE VerifierConfirms(w)
  <2> DEFINE c == doing[w].cand
             op == PolicyVerified(c, Current)
             d == [stage |-> IF op = "verify" THEN "verify" ELSE "apply",
                   cand |-> c, op |-> op, item |-> Current, rev |-> RevOf(Current)]
  <2>1. doing[w].stage = "verify" /\ doing' = [doing EXCEPT ![w] = d]
    BY <1>4 DEF VerifierConfirms, Decide
  <2>2. c \in Cand /\ Honest(c) /\ ~Downgraded(c) /\ "verifier" \in cast
    BY <1>3, <2>1 DEF DoingRec
  <2> HIDE DEF c
  <2>3. /\ op \in OpName \ {"verify"}
        /\ op \in {"add", "update"} => Certain(c) /\ c.op # "delete"
        /\ op = "add" => Current = NoItem
        /\ op \in {"update", "delete"} => Current # NoItem
    BY <1>1, <2>2, VerifiedSound
  <2> HIDE DEF op
  <2>4. d \in DoingRec
    BY <1>1, <2>2, <2>3 DEF DoingRec
  <2>5. Judged(d)
    BY <1>1, <2>2, <2>3 DEF Judged
  <2> HIDE DEF d
  <2> QED  BY <1>4, <2>1, <2>4, <2>5, NotesKeep DEF VerifierConfirms
<1>5. CASE VerifierDeclines(w)
  <2> DEFINE d == [doing[w] EXCEPT !.stage = "apply", !.op = "pending"]
  <2>1. doing[w].stage = "verify" /\ doing' = [doing EXCEPT ![w] = d]
    BY <1>5 DEF VerifierDeclines
  <2>2. doing[w] \in DoingRec /\ Honest(doing[w].cand) /\ Judged(doing[w])
    BY <1>3, <2>1
  <2>3. /\ d \in DoingRec /\ d.stage = "apply" /\ d.op = "pending"
        /\ d.cand = doing[w].cand /\ d.item = doing[w].item /\ d.rev = doing[w].rev
    BY <2>2 DEF DoingRec, OpName
  <2>4. Judged(d)
    BY <2>2, <2>3 DEF Judged
  <2> HIDE DEF d
  <2> QED  BY <1>5, <2>1, <2>3, <2>4, NotesKeep DEF VerifierDeclines
<1> QED  BY <1>2, <1>4, <1>5

\* The end of a worker: its notes are not looked at again.
LEMMA EndedIsJudged ==
    ASSUME DecisionsTypeOK, WorkersJudged, cast' = cast, NEW w \in Worker, doing[w].stage = "apply", End(w)
    PROVE  doing' \in [Worker -> {Idle} \cup DoingRec] /\ WorkersJudged'
<1>1. doing[w] \in DoingRec
  BY StagesDiffer DEF DecisionsTypeOK
<1> DEFINE d == [doing[w] EXCEPT !.stage = "ended"]
<1>2. d = [stage |-> "ended", cand |-> doing[w].cand, op |-> doing[w].op,
           item |-> doing[w].item, rev |-> doing[w].rev]
  BY <1>1 DEF DoingRec
<1>3. d \in DoingRec
  BY <1>1, <1>2 DEF DoingRec
<1>4. Judged(doing[w])
  BY <1>1, StagesDiffer DEF WorkersJudged
<1>5. d.stage = "ended" /\ (d.item = NoItem => d.rev = NoItem)
  BY <1>2, <1>4 DEF Judged
<1>6. doing' = [doing EXCEPT ![w] = d]
  BY DEF End
<1> HIDE DEF d
<1>7. doing' \in [Worker -> {Idle} \cup DoingRec]
  BY <1>3, <1>6 DEF DecisionsTypeOK
<1>8. ASSUME NEW v \in Worker, (doing[v] # Idle)' PROVE Judged(doing[v])'
  <2>1. CASE v = w
    <3>1. doing'[v] = d
      BY <1>6, <2>1 DEF DecisionsTypeOK
    <3> QED  BY <1>5, <3>1 DEF Judged
  <2>2. CASE v # w
    <3>1. doing'[v] = doing[v]
      BY <1>6, <2>2 DEF DecisionsTypeOK
    <3> QED  BY <1>8, <3>1 DEF Judged, WorkersJudged, Honest, Certain, Downgraded
  <2> QED  BY <2>1, <2>2
<1> QED  BY <1>7, <1>8 DEF WorkersJudged

\* A worker that has ended stays ended, and End ends one.
LEMMA EndedStays ==
    ASSUME NEW w \in Worker, End(w), DecisionsTypeOK, doing[w].stage = "apply"
    PROVE  /\ doing'[w].stage = "ended"
           /\ \A v \in Worker : doing[v].stage = "ended" => doing'[v].stage = "ended"
<1>1. doing[w] \in DoingRec
  BY StagesDiffer DEF DecisionsTypeOK
<1>2. [doing[w] EXCEPT !.stage = "ended"].stage = "ended"
  BY <1>1 DEF DoingRec
<1> QED  BY <1>2 DEF End, DecisionsTypeOK

\* ApplyDecision: what a worker judged is applied to the revision it read.
LEMMA ApplyDecisionKeeps ==
    ASSUME DecisionsInv, NEW w \in Worker, ApplyDecision(w)
    PROVE  DecisionsInv'
<1> DEFINE o == <<w, "decision">>
           d == doing[w]
<1>1. /\ d.stage = "apply" /\ d.op \in {"add", "update", "delete"}
      /\ End(w) /\ UNCHANGED <<cast, claim, done, request>>
  BY DEF ApplyDecision
<1>2. d \in DoingRec /\ Judged(d)
  BY <1>1, StagesDiffer DEF DecisionsInv, DecisionsTypeOK, WorkersJudged
<1>3. doing' \in [Worker -> {Idle} \cup DoingRec] /\ WorkersJudged'
  BY <1>1, EndedIsJudged DEF DecisionsInv
<1>4. \A v \in Worker : doing[v].stage = "ended" => doing'[v].stage = "ended"
  BY <1>1, EndedStays DEF DecisionsInv
<1>5. CASE Accepted(o, d.op, d.item, d.rev)
  <2>1. Change(o, d.op, d.item, d.rev, d.cand, "policy")
    BY <1>5 DEF ApplyDecision
  <2>2. /\ o \in Operation \cap ItemId /\ d.item \in Read /\ d.rev \in RevId
        /\ d.op = "add" => d.rev = NoItem
        /\ d.op # "add" => d.item \in ItemId
        /\ d.op # "delete" => /\ d.cand \in Cand /\ Honest(d.cand) /\ d.cand.flaw # "sensitive"
                              /\ Certain(d.cand)
    BY <1>1, <1>2, NamesDiffer DEF Judged, Honest, DoingRec, Read
  <2> HIDE DEF d, o
  <2>3. /\ items' \in [ItemId -> ItemRec] /\ decided' \subseteq Operation \X ItemId \X RevId
        /\ pending' \in [Worker -> {NoDecision} \cup PendingRec]
        /\ StoredAreGrounded' /\ RevisionsKnown' /\ OneChangePerRevision'
        /\ \A v \in Worker : SameQuestion(pending[v], pending'[v])
        /\ \A x : OnRecord(x)' <=> (OnRecord(x) \/ x = o)
    BY <1>1, <1>5, <2>1, <2>2, ChangeKeeps DEF DecisionsInv
  <2>4. \A v \in Worker : o # <<v, "confirm">>
    BY DEF o
  <2>5. /\ DecisionsWait' /\ ClaimsHold' /\ ResolutionAgrees'
        /\ \A q \in Resolving : Claimed(q) => Claimed(q)'
    BY <1>1, <2>3, <2>4, QuestionsKept
  <2>6. RequestsClaimed'
    BY <1>1, <2>5 DEF DecisionsInv, RequestsClaimed
  <2>7. AskedOnce'
    BY <1>4, <2>3, SameQuestionSameAnswers DEF DecisionsInv, AskedOnce
  <2> QED
    BY <1>1, <1>3, <2>3, <2>5, <2>6, <2>7 DEF DecisionsInv, DecisionsTypeOK
<1>6. CASE ~Accepted(o, d.op, d.item, d.rev)
  <2>1. UNCHANGED <<cast, items, decided, pending, claim, done, request>>
    BY <1>1, <1>6 DEF ApplyDecision
  <2>2. MemoryKeeps
    BY <2>1, MemoryUntouched
  <2>3. AskedOnce'
    BY <1>4, <2>1 DEF DecisionsInv, AskedOnce
  <2> QED  BY <1>3, <2>1, <2>2, <2>3 DEF DecisionsInv, DecisionsTypeOK, MemoryKeeps
<1> QED  BY <1>5, <1>6

\* record_decision: an honest candidate waits for the user.
LEMMA RecordDecisionKeeps ==
    ASSUME DecisionsInv, NEW w \in Worker, RecordDecision(w)
    PROVE  DecisionsInv'
<1> DEFINE d == doing[w]
           p == [status |-> "pending", cand |-> d.cand, item |-> d.item,
                 rev |-> d.rev, readable |-> TRUE]
<1>1. /\ d.stage = "apply" /\ d.op \in {"noop", "reject", "pending"}
      /\ End(w) /\ UNCHANGED <<cast, items, decided, claim, done, request>>
  BY DEF RecordDecision
<1>2. d \in DoingRec /\ Judged(d)
  BY <1>1, StagesDiffer DEF DecisionsInv, DecisionsTypeOK, WorkersJudged
<1>3. doing' \in [Worker -> {Idle} \cup DoingRec] /\ WorkersJudged'
  BY <1>1, EndedIsJudged DEF DecisionsInv
<1>4. StoredAreGrounded' /\ RevisionsKnown' /\ OneChangePerRevision' /\ ResolutionAgrees'
  BY <1>1 DEF DecisionsInv, StoredAreGrounded, Certain, RevisionsKnown, OneChangePerRevision,
              ResolutionAgrees, OnRecord
<1>5. pending[w] = NoDecision
  BY <1>1 DEF DecisionsInv, AskedOnce
<1>6. /\ doing'[w].stage = "ended"
      /\ \A v \in Worker : doing[v].stage = "ended" => doing'[v].stage = "ended"
  BY <1>1, EndedStays DEF DecisionsInv
<1>7. claim[w] = NoClaim /\ \A r \in Requester : request[r] \in Resolving => request[r].w # w
  BY <1>5 DEF DecisionsInv, ClaimsHold, RequestsClaimed, Claimed
<1>8. CASE d.op = "pending"
  <2>1. p \in PendingRec /\ Waiting(p)
    BY <1>1, <1>2, <1>8 DEF DoingRec, PendingRec, Waiting, Judged
  <2>2. pending' = [pending EXCEPT ![w] = p]
    BY <1>1, <1>8 DEF RecordDecision
  <2> HIDE DEF p, d
  <2>3. DecisionsTypeOK'
    BY <1>1, <1>3, <2>1, <2>2 DEF DecisionsInv, DecisionsTypeOK
  <2>4. \A v \in Worker : v # w => pending'[v] = pending[v]
    BY <2>2 DEF DecisionsInv, DecisionsTypeOK
  <2>5. pending'[w] = p
    BY <2>2 DEF DecisionsInv, DecisionsTypeOK
  <2>6. DecisionsWait'
    BY <2>1, <2>4, <2>5 DEF DecisionsInv, DecisionsWait
  <2>7. ClaimsHold'
    BY <1>1, <1>7, <2>4 DEF DecisionsInv, ClaimsHold
  <2>8. RequestsClaimed'
    <3>1. ASSUME NEW r \in Requester, request[r] \in Resolving
          PROVE  Claimed(request[r])'
      <4>1. request[r].w \in Worker /\ request[r].w # w
        BY <1>7, <3>1 DEF Resolving
      <4>2. pending'[request[r].w] = pending[request[r].w]
        BY <2>4, <4>1
      <4> QED  BY <1>1, <3>1, <4>2 DEF DecisionsInv, RequestsClaimed, Claimed, OnRecord
    <3> QED  BY <1>1, <3>1 DEF RequestsClaimed
  <2>9. AskedOnce'
    BY <1>6, <2>4 DEF DecisionsInv, AskedOnce
  <2> QED  BY <1>3, <1>4, <2>3, <2>6, <2>7, <2>8, <2>9 DEF DecisionsInv
<1>9. CASE d.op # "pending"
  <2>1. pending' = pending
    BY <1>1, <1>9 DEF RecordDecision
  <2>2. MemoryKeeps
    BY <1>1, <2>1, MemoryUntouched
  <2>3. AskedOnce'
    BY <1>6, <2>1 DEF DecisionsInv, AskedOnce
  <2> QED  BY <1>1, <1>3, <2>1, <2>2, <2>3 DEF DecisionsInv, DecisionsTypeOK, MemoryKeeps
<1> QED  BY <1>8, <1>9

\* The index forgets a memory that is being deleted.
LEMMA PurgeKeeps ==
    ASSUME DecisionsInv, NEW i \in ItemId, Purge(i)
    PROVE  DecisionsInv'
<1>1. UNCHANGED <<cast, decided, doing, pending, claim, done, request>>
  BY DEF Purge
<1>2. /\ items[i] \in ItemRec
      /\ items' = [items EXCEPT ![i] = [items[i] EXCEPT !.status = "gone"]]
  BY DEF Purge, DecisionsInv, DecisionsTypeOK
<1>3. [items[i] EXCEPT !.status = "gone"] \in ItemRec
      /\ [items[i] EXCEPT !.status = "gone"].status = "gone"
  BY <1>2 DEF ItemRec
<1>4. /\ items' \in [ItemId -> ItemRec]
      /\ \A j \in ItemId : items'[j].status = "active" => items'[j] = items[j]
  BY <1>2, <1>3 DEF DecisionsInv, DecisionsTypeOK
<1>5. DecisionsTypeOK'
  BY <1>1, <1>4 DEF DecisionsInv, DecisionsTypeOK
<1>6. StoredAreGrounded'
  BY <1>1, <1>4 DEF DecisionsInv, StoredAreGrounded, Certain
<1>7. RevisionsKnown'
  BY <1>1, <1>4 DEF DecisionsInv, RevisionsKnown, OnRecord
<1>8. /\ OneChangePerRevision' /\ ResolutionAgrees' /\ DecisionsWait' /\ AskedOnce'
      /\ ClaimsHold' /\ RequestsClaimed'
  BY <1>1 DEF DecisionsInv, OneChangePerRevision, ResolutionAgrees, DecisionsWait, AskedOnce,
              ClaimsHold, RequestsClaimed, Claimed, OnRecord
<1>9. WorkersJudged'
  BY <1>1 DEF DecisionsInv, WorkersJudged, Judged, Certain
<1> QED  BY <1>5, <1>6, <1>7, <1>8, <1>9 DEF DecisionsInv

\* A request that moves on in a stage that is claimed changes nothing else.
LEMMA MovesKeep ==
    ASSUME DecisionsInv, NEW r \in Requester, NEW q \in {Idle} \cup Resolving \cup Deleting,
           q \in Resolving => Claimed(q),
           request' = [request EXCEPT ![r] = q],
           UNCHANGED <<cast, items, decided, doing, pending, claim, done>>
    PROVE  DecisionsInv'
<1>1. DecisionsTypeOK'
  BY DEF DecisionsInv, DecisionsTypeOK
<1>2. StoredAreGrounded' /\ RevisionsKnown' /\ DecisionsWait' /\ AskedOnce' /\ ClaimsHold'
  BY DEF DecisionsInv, StoredAreGrounded, Certain, RevisionsKnown, OnRecord, DecisionsWait, AskedOnce, ClaimsHold
<1>3. OneChangePerRevision' /\ ResolutionAgrees'
  BY DEF DecisionsInv, OneChangePerRevision, ResolutionAgrees, OnRecord
<1>4. WorkersJudged'
  BY DEF DecisionsInv, WorkersJudged, Judged, Certain
<1>5. ASSUME NEW s \in Requester, request'[s] \in Resolving
      PROVE  Claimed(request[s])'
  <2>1. CASE s = r
    <3>1. request'[s] = q
      BY <2>1 DEF DecisionsInv, DecisionsTypeOK
    <3> QED  BY <1>5, <3>1 DEF Claimed, OnRecord
  <2>2. CASE s # r
    <3>1. request'[s] = request[s]
      BY <2>2
    <3> QED  BY <1>5, <3>1 DEF DecisionsInv, RequestsClaimed, Claimed, OnRecord
  <2> QED  BY <2>1, <2>2
<1>6. RequestsClaimed'
  BY <1>5 DEF RequestsClaimed
<1> QED  BY <1>1, <1>2, <1>3, <1>4, <1>6 DEF DecisionsInv

\* resolve_pending up to the claim: what may be confirmed has a memory.
LEMMA OpenKeeps ==
    ASSUME DecisionsInv, NEW r \in Requester, NEW w \in Worker,
           NEW action \in {"confirm", "reject"}, NEW key \in ClientKey,
           OpenDecision(r, w, action, key)
    PROVE  DecisionsInv'
<1> DEFINE p == pending[w]
           stage == IF p.readable THEN "claim" ELSE "again"
           q == [stage |-> stage, w |-> w, action |-> action, key |-> key]
           signed == [action |-> action, key |-> key, op |-> "none"]
<1>1. /\ p.status = "pending"
      /\ IF p.readable THEN action = "confirm" => Confirmable(p) ELSE Continues(w, signed)
      /\ request' = [request EXCEPT ![r] = q]
      /\ UNCHANGED <<cast, items, decided, doing, pending, claim, done>>
  BY DEF OpenDecision
<1>2. p # NoDecision
  BY <1>1, StagesDiffer
<1>3. q \in Resolving /\ q.w = w /\ q.action = action /\ q.key = key /\ q.stage = stage
  BY DEF Resolving
<1> HIDE DEF q
<1>4. CASE p.readable
  <2>1. stage = "claim" /\ (action = "confirm" => Reachable(p))
    BY <1>1, <1>4 DEF Confirmable, Reachable
  <2> QED  BY <1>1, <1>2, <1>3, <2>1, MovesKeep DEF Claimed
<1>5. CASE ~p.readable
  <2>1. stage = "again" /\ claim[w] # NoClaim /\ claim[w].action = "confirm"
        /\ signed = [claim[w] EXCEPT !.op = "none"]
    BY <1>1, <1>5 DEF Continues
  <2>2. claim[w] \in ClaimRec
    BY <2>1 DEF DecisionsInv, DecisionsTypeOK
  <2>3. signed.action = claim[w].action /\ signed.key = claim[w].key
    BY <2>1, <2>2 DEF ClaimRec
  <2>4. action = "confirm" /\ key = claim[w].key
    BY <2>1, <2>3
  <2> QED  BY <1>1, <1>2, <1>3, <2>1, <2>4, MovesKeep DEF Claimed
<1> QED  BY <1>4, <1>5

\* A request at one of the stages of resolve_pending.
LEMMA ResolvingAt ==
    ASSUME DecisionsInv, NEW r \in Requester, NEW stage \in {"claim", "apply", "again", "complete", "conflict"},
           At(r, stage)
    PROVE  /\ request[r] \in Resolving /\ Claimed(request[r]) /\ request[r].stage = stage
           /\ request[r].w \in Worker /\ request[r].key \in ClientKey
           /\ request[r].action \in {"confirm", "reject"}
           /\ pending[request[r].w] \in PendingRec /\ Waiting(pending[request[r].w])
<1>1. request[r] \in Resolving
  BY StagesDiffer DEF At, DecisionsInv, DecisionsTypeOK, Deleting
<1>2. Claimed(request[r]) /\ request[r].w \in Worker /\ request[r].key \in ClientKey
      /\ request[r].action \in {"confirm", "reject"}
  BY <1>1 DEF DecisionsInv, RequestsClaimed, Resolving
<1>3. pending[request[r].w] \in PendingRec /\ Waiting(pending[request[r].w])
  BY <1>2 DEF Claimed, DecisionsInv, DecisionsWait, DecisionsTypeOK
<1> QED  BY <1>1, <1>2, <1>3 DEF At

\* A request that goes on to another stage keeps its subject.
LEMMA GoesOn ==
    ASSUME NEW q \in Resolving, NEW next \in {"claim", "apply", "again", "complete", "conflict"}
    PROVE  /\ [q EXCEPT !.stage = next] \in Resolving
           /\ [q EXCEPT !.stage = next].stage = next
           /\ [q EXCEPT !.stage = next].w = q.w
           /\ [q EXCEPT !.stage = next].key = q.key
           /\ [q EXCEPT !.stage = next].action = q.action
BY DEF Resolving

\* _claim_resolution: the first request claims the decision, a repeated one
\* goes on with its claim.
LEMMA ClaimKeeps ==
    ASSUME DecisionsInv, NEW r \in Requester, ClaimResolution(r)
    PROVE  DecisionsInv'
<1> DEFINE w == request[r].w
           mine == [action |-> request[r].action, key |-> request[r].key, op |-> ConfirmedOp(pending[w])]
           next == IF request[r].action = "reject" THEN "complete" ELSE "apply"
           q == [request[r] EXCEPT !.stage = next]
<1>1. /\ At(r, "claim")
      /\ claim' = IF claim[w] = NoClaim THEN [claim EXCEPT ![w] = mine] ELSE claim
      /\ IF claim[w] \in {NoClaim, mine}
         THEN request' = [request EXCEPT ![r] = q] ELSE request' = [request EXCEPT ![r] = Idle]
      /\ UNCHANGED <<cast, items, decided, doing, pending, done>>
  BY DEF ClaimResolution, Go, Leave
<1>2. /\ request[r] \in Resolving /\ Claimed(request[r]) /\ request[r].stage = "claim"
      /\ w \in Worker /\ request[r].key \in ClientKey /\ request[r].action \in {"confirm", "reject"}
      /\ pending[w] \in PendingRec
      /\ q \in Resolving /\ q.stage = next /\ q.w = w
      /\ q.key = request[r].key /\ q.action = request[r].action
  <2>1. /\ request[r] \in Resolving /\ Claimed(request[r]) /\ request[r].stage = "claim"
        /\ w \in Worker /\ request[r].key \in ClientKey /\ request[r].action \in {"confirm", "reject"}
        /\ pending[w] \in PendingRec
    BY <1>1, ResolvingAt
  <2>2. next \in {"claim", "apply", "again", "complete", "conflict"}
    OBVIOUS
  <2> HIDE DEF next
  <2> QED  BY <2>1, <2>2, GoesOn
<1>3. /\ mine \in ClaimRec /\ mine.key = request[r].key /\ mine.action = request[r].action
      /\ mine # NoClaim
  <2>1. mine \in ClaimRec
    BY <1>2 DEF ClaimRec, ConfirmedOp
  <2> QED  BY <2>1, StagesDiffer
<1>4. next = "complete" => q.action = "reject"
  OBVIOUS
<1>5. next \in {"complete", "apply"} /\ (next = "apply" => q.action = "confirm")
  BY <1>2
<1>6. pending[w] # NoDecision /\ (request[r].action = "confirm" => Reachable(pending[w]))
  BY <1>2 DEF Claimed
<1> HIDE DEF mine, q, next
<1>7. CASE claim[w] # NoClaim
  <2>1. claim' = claim
    BY <1>1, <1>7
  <2>2. CASE claim[w] = mine
    <3>1. Claimed(q)
      BY <1>2, <1>3, <1>4, <1>5, <1>6, <1>7, <2>2 DEF Claimed
    <3> QED  BY <1>1, <1>2, <2>1, <2>2, <3>1, MovesKeep
  <2>3. CASE claim[w] # mine
    <3>1. request' = [request EXCEPT ![r] = Idle]
      BY <1>1, <1>7, <2>3
    <3> QED  BY <1>1, <2>1, <3>1, StagesDiffer, MovesKeep
  <2> QED  BY <2>2, <2>3
<1>8. CASE claim[w] = NoClaim
  <2>1. claim' = [claim EXCEPT ![w] = mine] /\ request' = [request EXCEPT ![r] = q]
    BY <1>1, <1>8
  <2> HIDE DEF w
  <2>2. /\ claim'[w] = mine /\ \A v \in Worker : v # w => claim'[v] = claim[v]
        /\ claim' \in [Worker -> {NoClaim} \cup ClaimRec]
    BY <1>2, <1>3, <2>1 DEF DecisionsInv, DecisionsTypeOK
  <2>3. /\ request'[r] = q /\ \A s \in Requester : s # r => request'[s] = request[s]
        /\ request' \in [Requester -> {Idle} \cup Resolving \cup Deleting]
    BY <1>2, <2>1 DEF DecisionsInv, DecisionsTypeOK
  <2>4. DecisionsTypeOK'
    BY <1>1, <2>2, <2>3 DEF DecisionsInv, DecisionsTypeOK
  <2>5. ClaimsHold'
    BY <1>1, <1>3, <1>6, <2>2 DEF DecisionsInv, ClaimsHold
  <2>6. RequestsClaimed'
    <3>1. ASSUME NEW s \in Requester, request'[s] \in Resolving
          PROVE  Claimed(request[s])'
      <4>1. CASE s = r
        <5>1. request'[s] = q
          BY <2>3, <4>1
        <5> QED  BY <1>1, <1>2, <1>3, <1>4, <1>5, <1>6, <2>2, <5>1 DEF Claimed, OnRecord
      <4>2. CASE s # r
        <5>1. request'[s] = request[s]
          BY <2>3, <4>2
        <5>2. Claimed(request[s]) /\ request[s].w \in Worker
          BY <3>1, <5>1 DEF DecisionsInv, RequestsClaimed, Resolving
        <5> QED  BY <1>1, <1>8, <2>2, <5>1, <5>2 DEF Claimed, OnRecord
      <4> QED  BY <4>1, <4>2
    <3> QED  BY <3>1 DEF RequestsClaimed
  <2>7. ResolutionAgrees'
    <3>1. done[w] = NoClaim /\ ~OnRecord(<<w, "confirm">>)
      BY <1>2, <1>8, StagesDiffer DEF DecisionsInv, ResolutionAgrees, w
    <3> QED  BY <1>1, <2>2, <3>1 DEF DecisionsInv, ResolutionAgrees, OnRecord
  <2>8. StoredAreGrounded' /\ RevisionsKnown' /\ DecisionsWait' /\ AskedOnce' /\ OneChangePerRevision'
    BY <1>1 DEF DecisionsInv, StoredAreGrounded, Certain, RevisionsKnown, OnRecord, DecisionsWait,
                AskedOnce, OneChangePerRevision
  <2>9. WorkersJudged'
    BY <1>1 DEF DecisionsInv, WorkersJudged, Judged, Certain
  <2> QED  BY <2>4, <2>5, <2>6, <2>7, <2>8, <2>9 DEF DecisionsInv
<1> QED  BY <1>7, <1>8

\* What a request changes when an operation of it is accepted.
LEMMA RequestChangeKeeps ==
    ASSUME DecisionsInv, NEW r \in Requester, NEW q \in {Idle} \cup Resolving \cup Deleting,
           NEW o \in Operation,
           UNCHANGED <<cast, doing, claim, done>>,
           request' = [request EXCEPT ![r] = q], q \in Resolving => Claimed(q)',
           items' \in [ItemId -> ItemRec], decided' \subseteq Operation \X ItemId \X RevId,
           pending' \in [Worker -> {NoDecision} \cup PendingRec],
           StoredAreGrounded', RevisionsKnown', OneChangePerRevision',
           \A w \in Worker : SameQuestion(pending[w], pending'[w]),
           \A x : OnRecord(x)' <=> (OnRecord(x) \/ x = o),
           \A w \in Worker : o = <<w, "confirm">> => claim[w].action = "confirm"
    PROVE  DecisionsInv'
<1>1. DecisionsTypeOK'
  BY DEF DecisionsInv, DecisionsTypeOK
<1>2. /\ DecisionsWait' /\ ClaimsHold' /\ ResolutionAgrees'
      /\ \A p \in Resolving : Claimed(p) => Claimed(p)'
  BY QuestionsKept
<1>3. AskedOnce'
  BY SameQuestionSameAnswers DEF DecisionsInv, AskedOnce
<1>4. WorkersJudged'
  BY DEF DecisionsInv, WorkersJudged, Judged, Certain
<1>5. ASSUME NEW s \in Requester, request'[s] \in Resolving
      PROVE  Claimed(request[s])'
  <2>1. CASE s = r
    <3>1. request'[s] = q
      BY <2>1 DEF DecisionsInv, DecisionsTypeOK
    <3> QED  BY <1>5, <3>1 DEF Claimed, OnRecord
  <2>2. CASE s # r
    <3>1. request'[s] = request[s]
      BY <2>2
    <3>2. Claimed(request[s])
      BY <1>5, <3>1 DEF DecisionsInv, RequestsClaimed
    <3>3. \A p \in Resolving : p = request[s] => Claimed(p)'
      BY <1>2, <3>2
    <3> QED  BY <1>5, <3>1, <3>3 DEF Claimed, OnRecord
  <2> QED  BY <2>1, <2>2
<1>6. RequestsClaimed'
  BY <1>5 DEF RequestsClaimed
<1> QED  BY <1>1, <1>2, <1>3, <1>4, <1>6 DEF DecisionsInv

\* lifecycle.apply of a confirmed decision, and of a repeated one.
LEMMA ApplyResolutionKeeps ==
    ASSUME DecisionsInv, NEW r \in Requester, ApplyResolution(r)
    PROVE  DecisionsInv'
<1> DEFINE w == request[r].w
           o == <<w, "confirm">>
           p == pending[w]
           op == ConfirmedOp(p)
           ok == Accepted(o, op, p.item, p.rev)
           next == IF ok \/ Replayed(o, op) THEN "complete" ELSE "conflict"
           q == [request[r] EXCEPT !.stage = next]
<1>1. /\ At(r, "apply") \/ At(r, "again")
      /\ IF ok THEN Change(o, op, p.item, p.rev, p.cand, "user")
         ELSE UNCHANGED <<items, decided, pending>>
      /\ \/ request' = [request EXCEPT ![r] = q]
         \/ request' = [request EXCEPT ![r] = Idle] /\ ~ok
      /\ UNCHANGED <<cast, doing, claim, done>>
  BY DEF ApplyResolution, Go, Leave
<1>2. /\ request[r] \in Resolving /\ Claimed(request[r]) /\ request[r].stage \in {"apply", "again"}
      /\ w \in Worker /\ p \in PendingRec /\ Waiting(p)
      /\ q \in Resolving /\ q.stage = next /\ q.w = w
      /\ q.key = request[r].key /\ q.action = request[r].action
  <2>1. /\ request[r] \in Resolving /\ Claimed(request[r]) /\ request[r].stage \in {"apply", "again"}
        /\ w \in Worker /\ p \in PendingRec /\ Waiting(p)
    BY <1>1, ResolvingAt
  <2>2. next \in {"claim", "apply", "again", "complete", "conflict"}
    OBVIOUS
  <2> HIDE DEF next
  <2> QED  BY <2>1, <2>2, GoesOn
<1>3. /\ request[r].action = "confirm" /\ claim[w] # NoClaim
      /\ claim[w].key = q.key /\ claim[w].action = "confirm" /\ q.action = "confirm"
  BY <1>2 DEF Claimed
<1>4. p # NoDecision /\ Reachable(p)
  BY <1>2, <1>3 DEF Claimed, DecisionsInv, ClaimsHold
<1>5. o \in Operation \cap ItemId
  BY <1>2, NamesDiffer
<1> HIDE DEF q
<1>6. CASE ok
  <2>1. /\ op \in {"add", "update", "delete"} /\ p.item \in Read /\ p.rev \in RevId
        /\ op = "add" => p.rev = NoItem
        /\ op # "add" => p.item \in ItemId
        /\ op # "delete" => p.cand \in Cand /\ Honest(p.cand) /\ p.cand.flaw # "sensitive"
    BY <1>2, <1>4 DEF Reachable, ConfirmedOp, Waiting, PendingRec, Read, Honest
  <2>2. Change(o, op, p.item, p.rev, p.cand, "user")
    BY <1>1, <1>6
  <2>3. next = "complete"
    BY <1>6
  <2> HIDE DEF op, p, o, next
  <2>4. /\ items' \in [ItemId -> ItemRec] /\ decided' \subseteq Operation \X ItemId \X RevId
        /\ pending' \in [Worker -> {NoDecision} \cup PendingRec]
        /\ StoredAreGrounded' /\ RevisionsKnown' /\ OneChangePerRevision'
        /\ \A v \in Worker : SameQuestion(pending[v], pending'[v])
        /\ \A x : OnRecord(x)' <=> (OnRecord(x) \/ x = o)
    BY <1>1, <1>5, <1>6, <2>1, <2>2, ChangeKeeps DEF DecisionsInv
  <2> HIDE DEF w
  <2>5. pending'[w] # NoDecision
    <3>1. SameQuestion(pending[w], pending'[w]) /\ pending[w] # NoDecision
      BY <1>2, <1>4, <2>4 DEF p
    <3> QED  BY <3>1, SameQuestionSameAnswers
  <2>6. \A v \in Worker : v = w => OnRecord(<<v, "confirm">>)'
    BY <2>4 DEF o
  <2>7. \A s \in Resolving : s = q => Claimed(s)'
    <3> SUFFICES ASSUME NEW s \in Resolving, s = q PROVE Claimed(s)'
      OBVIOUS
    <3>1. /\ s.stage = "complete" /\ s.w = w /\ s.action = "confirm"
          /\ claim'[w] # NoClaim /\ claim'[w].key = s.key /\ claim'[w].action = "confirm"
      BY <1>1, <1>2, <1>3, <2>3
    <3>2. OnRecord(<<s.w, "confirm">>)'
      BY <1>2, <2>6, <3>1
    <3> QED  BY <2>5, <3>1, <3>2 DEF Claimed
  <2>8. \A v \in Worker : o = <<v, "confirm">> => claim[v].action = "confirm"
    BY <1>3 DEF o
  <2>9. \E s \in Resolving : /\ s = q /\ Claimed(s)' /\ request' = [request EXCEPT ![r] = s]
    BY <1>1, <1>2, <1>6, <2>7
  <2> QED  BY <1>1, <1>5, <2>4, <2>8, <2>9, RequestChangeKeeps
<1>7. CASE ~ok
  <2>1. UNCHANGED <<cast, items, decided, doing, pending, claim, done>>
    BY <1>1, <1>7
  <2>2. next = "complete" => OnRecord(o)
    BY <1>7 DEF Replayed
  <2>3. next \in {"complete", "conflict"}
    OBVIOUS
  <2> HIDE DEF next, w
  <2>4. Claimed(q)
    BY <1>2, <1>3, <1>4, <2>2, <2>3 DEF Claimed
  <2> QED  BY <1>1, <1>2, <2>1, <2>4, StagesDiffer, MovesKeep
<1> QED  BY <1>6, <1>7

\* _complete_resolution: the first outcome of a decision is recorded, in the
\* name of its claim.
LEMMA CompleteKeeps ==
    ASSUME DecisionsInv, NEW r \in Requester, CompleteResolution(r)
    PROVE  DecisionsInv'
<1> DEFINE w == request[r].w
           mine == [action |-> IF At(r, "conflict") THEN "conflict" ELSE request[r].action,
                    key |-> request[r].key]
<1>1. /\ At(r, "complete") \/ At(r, "conflict")
      /\ done' = IF done[w] = NoClaim THEN [done EXCEPT ![w] = mine] ELSE done
      /\ request' = [request EXCEPT ![r] = Idle]
      /\ UNCHANGED <<cast, items, decided, doing, pending, claim>>
  BY DEF CompleteResolution, Leave
<1>2. /\ request[r] \in Resolving /\ Claimed(request[r])
      /\ w \in Worker /\ request[r].key \in ClientKey /\ request[r].action \in {"confirm", "reject"}
  BY <1>1, ResolvingAt
<1>3. /\ claim[w] # NoClaim /\ claim[w].key = request[r].key /\ claim[w].action = request[r].action
      /\ At(r, "complete") /\ request[r].action = "confirm" => OnRecord(<<w, "confirm">>)
  BY <1>1, <1>2 DEF Claimed, At
<1>4. /\ mine \in DoneRec /\ mine.key = claim[w].key
      /\ mine.action \in {claim[w].action, "conflict"}
      /\ mine.action = "confirm" => OnRecord(<<w, "confirm">>)
  <2>1. CASE At(r, "conflict")
    BY <1>2, <1>3, <2>1 DEF DoneRec
  <2>2. CASE ~At(r, "conflict")
    BY <1>1, <1>2, <1>3, <2>2 DEF DoneRec
  <2> QED  BY <2>1, <2>2
<1>5. CASE done[w] # NoClaim
  <2>1. done' = done
    BY <1>1, <1>5
  <2> QED  BY <1>1, <2>1, StagesDiffer, MovesKeep
<1>6. CASE done[w] = NoClaim
  <2>1. done' = [done EXCEPT ![w] = mine]
    BY <1>1, <1>6
  <2> HIDE DEF mine, w
  <2>2. /\ done'[w] = mine /\ \A v \in Worker : v # w => done'[v] = done[v]
        /\ done' \in [Worker -> {NoClaim} \cup DoneRec]
    BY <1>2, <1>4, <2>1 DEF DecisionsInv, DecisionsTypeOK
  <2>3. DecisionsTypeOK'
    BY <1>1, <2>2 DEF DecisionsInv, DecisionsTypeOK
  <2>4. ResolutionAgrees'
    BY <1>1, <1>3, <1>4, <2>2 DEF DecisionsInv, ResolutionAgrees, OnRecord
  <2>5. RequestsClaimed'
    <3>1. ASSUME NEW s \in Requester, request'[s] \in Resolving
          PROVE  Claimed(request[s])'
      <4>1. s # r
        BY <1>1, <3>1, StagesDiffer DEF DecisionsInv, DecisionsTypeOK
      <4>2. request'[s] = request[s]
        BY <1>1, <4>1
      <4> QED  BY <1>1, <3>1, <4>2 DEF DecisionsInv, RequestsClaimed, Claimed, OnRecord
    <3> QED  BY <3>1 DEF RequestsClaimed
  <2>6. /\ StoredAreGrounded' /\ RevisionsKnown' /\ DecisionsWait' /\ AskedOnce'
        /\ OneChangePerRevision' /\ ClaimsHold'
    BY <1>1 DEF DecisionsInv, StoredAreGrounded, Certain, RevisionsKnown, OnRecord, DecisionsWait,
                AskedOnce, OneChangePerRevision, ClaimsHold
  <2>7. WorkersJudged'
    BY <1>1 DEF DecisionsInv, WorkersJudged, Judged, Certain
  <2> QED  BY <2>3, <2>4, <2>5, <2>6, <2>7 DEF DecisionsInv
<1> QED  BY <1>5, <1>6

\* request_delete: the memory the user saw is deleted, if it is still that one.
LEMMA DeleteKeeps ==
    ASSUME DecisionsInv, NEW r \in Requester,
           (\E i \in ItemId, key \in ClientKey : AskDelete(r, i, key)) \/ DeleteMemory(r)
    PROVE  DecisionsInv'
<1>1. CASE \E i \in ItemId, key \in ClientKey : AskDelete(r, i, key)
  <2>1. PICK i \in ItemId, key \in ClientKey : AskDelete(r, i, key)
    BY <1>1
  <2> DEFINE q == [stage |-> "delete", item |-> i, rev |-> items[i].rev, key |-> key]
  <2>2. items[i].rev \in RevId
    BY DEF DecisionsInv, DecisionsTypeOK, ItemRec
  <2>3. q \in Deleting
    BY <2>2 DEF Deleting
  <2>4. request' = [request EXCEPT ![r] = q]
        /\ UNCHANGED <<cast, items, decided, doing, pending, claim, done>>
    BY <2>1 DEF AskDelete
  <2> HIDE DEF q
  <2> QED  BY <2>3, <2>4, StagesDiffer, MovesKeep
<1>2. CASE DeleteMemory(r)
  <2> DEFINE q == request[r]
             o == <<"delete", q.key>>
  <2>1. /\ At(r, "delete") /\ request' = [request EXCEPT ![r] = Idle]
        /\ UNCHANGED <<cast, doing, claim, done>>
    BY <1>2 DEF DeleteMemory, Leave
  <2>2. q \in Deleting
    BY <2>1, StagesDiffer DEF At, DecisionsInv, DecisionsTypeOK, Resolving
  <2>3. q.item \in ItemId /\ q.item \in Read /\ q.rev \in RevId /\ o \in Operation
    BY <2>2, NamesDiffer DEF Deleting, Read
  <2>4. \A w \in Worker : o # <<w, "confirm">>
    BY DecisionsAssumption
  <2>5. CASE Accepted(o, "delete", q.item, q.rev)
    <3>1. Change(o, "delete", q.item, q.rev, "none", "user")
      BY <1>2, <2>5 DEF DeleteMemory
    <3> HIDE DEF q, o
    <3>2. /\ items' \in [ItemId -> ItemRec] /\ decided' \subseteq Operation \X ItemId \X RevId
          /\ pending' \in [Worker -> {NoDecision} \cup PendingRec]
          /\ StoredAreGrounded' /\ RevisionsKnown' /\ OneChangePerRevision'
          /\ \A v \in Worker : SameQuestion(pending[v], pending'[v])
          /\ \A x : OnRecord(x)' <=> (OnRecord(x) \/ x = o)
      BY <2>1, <2>3, <2>5, <3>1, ChangeKeeps DEF DecisionsInv
    <3> QED  BY <2>1, <2>3, <2>4, <3>2, StagesDiffer, RequestChangeKeeps
  <2>6. CASE ~Accepted(o, "delete", q.item, q.rev)
    <3>1. UNCHANGED <<items, decided, pending>>
      BY <1>2, <2>6 DEF DeleteMemory
    <3> QED  BY <2>1, <3>1, StagesDiffer, MovesKeep
  <2> QED  BY <2>5, <2>6
<1> QED  BY <1>1, <1>2

\* Every step of workers and requests preserves the invariant.
LEMMA DecisionsStep == DecisionsInv /\ [DecisionsNext]_decisionVars => DecisionsInv'
<1> SUFFICES ASSUME DecisionsInv, [DecisionsNext]_decisionVars
             PROVE  DecisionsInv'
  OBVIOUS
<1>1. ASSUME NEW w \in Worker,
             \/ EvaluateCandidate(w) \/ VerifierConfirms(w) \/ VerifierDeclines(w)
             \/ ApplyDecision(w) \/ RecordDecision(w)
      PROVE  DecisionsInv'
  BY <1>1, EvaluateKeeps, ApplyDecisionKeeps, RecordDecisionKeeps
<1>2. ASSUME NEW i \in ItemId, Purge(i) PROVE DecisionsInv'
  BY <1>2, PurgeKeeps
<1>3. ASSUME NEW r \in Requester, NEW w \in Worker, NEW action \in {"confirm", "reject"},
             NEW key \in ClientKey, OpenDecision(r, w, action, key)
      PROVE  DecisionsInv'
  BY <1>3, OpenKeeps
<1>4. ASSUME NEW r \in Requester,
             ClaimResolution(r) \/ ApplyResolution(r) \/ CompleteResolution(r)
      PROVE  DecisionsInv'
  BY <1>4, ClaimKeeps, ApplyResolutionKeeps, CompleteKeeps
<1>5. ASSUME NEW r \in Requester, RequestStops(r) PROVE DecisionsInv'
  <2>1. request' = [request EXCEPT ![r] = Idle]
        /\ UNCHANGED <<cast, items, decided, doing, pending, claim, done>>
    BY <1>5 DEF RequestStops, Leave
  <2> QED  BY <2>1, StagesDiffer, MovesKeep
<1>6. ASSUME NEW r \in Requester,
             (\E i \in ItemId, key \in ClientKey : AskDelete(r, i, key)) \/ DeleteMemory(r)
      PROVE  DecisionsInv'
  BY <1>6, DeleteKeeps
<1>7. CASE UNCHANGED decisionVars
  <2>1. UNCHANGED <<cast, items, decided, doing, pending, claim, done, request>>
    BY <1>7 DEF decisionVars
  <2>2. MemoryKeeps
    BY <2>1, MemoryUntouched
  <2>3. DecisionsTypeOK' /\ AskedOnce'
    BY <2>1 DEF DecisionsInv, DecisionsTypeOK, AskedOnce
  <2>4. WorkersJudged'
    BY <2>1 DEF DecisionsInv, WorkersJudged, Judged, Certain
  <2> QED  BY <2>2, <2>3, <2>4 DEF DecisionsInv, MemoryKeeps
<1> QED  BY <1>1, <1>2, <1>3, <1>4, <1>5, <1>6, <1>7 DEF DecisionsNext

\* Everything the invariant says holds in every state, for any candidates the
\* rules let pass, any workers, requests and idempotency keys.
THEOREM DecisionsInvariant == DecisionsSpec => []DecisionsInv
BY DecisionsStart, DecisionsStep, PTL DEF DecisionsSpec

\* Whatever the formation model returns and in whatever order decisions,
\* verdicts and confirmations come, a stored memory is honest, and without the
\* user its candidate was certain (MemoryCandidatePolicy, MemoryManagementService).
THEOREM MemoriesAreGrounded == DecisionsSpec => []MemoryIsGrounded
<1>1. DecisionsInv => MemoryIsGrounded
  BY StoredAreGroundedSuffices DEF DecisionsInv
<1> QED  BY <1>1, DecisionsInvariant, PTL

\* No lost update: of all decisions about one revision of a memory, by workers,
\* confirmations or deletions, one takes effect (MemoryLifecycleService.apply).
THEOREM RevisionsChangeOnce == DecisionsSpec => []OneChangePerRevision
<1>1. DecisionsInv => OneChangePerRevision
  BY DEF DecisionsInv
<1> QED  BY <1>1, DecisionsInvariant, PTL

\* What a request was told stays true, for any number of requests, repeats and
\* keys: claim, effect and record of a decision name one request
\* (MemoryManagementService.resolve_pending).
THEOREM ResolutionsAgree == DecisionsSpec => []ResolutionAgrees
<1>1. DecisionsInv => ResolutionAgrees
  BY DEF DecisionsInv
<1> QED  BY <1>1, DecisionsInvariant, PTL

=============================================================================
