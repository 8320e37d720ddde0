---------------------------- MODULE Invocations ----------------------------
(***************************************************************************)
(* Agents that the service calls itself, and the repair of the Turns such  *)
(* calls leave behind.                                                     *)
(*                                                                         *)
(* A request that was routed to an agent is an invocation managed by its   *)
(* Turn: the Run is attached to the Turn when it starts, and Run, Result,  *)
(* Turn and outbox are completed by one transaction.  A call of /invoke    *)
(* with the same request id is not managed: it stores Run and Result and   *)
(* leaves the Turn alone.  Requests are retried and handlers die, so a     *)
(* Turn may stay open although a Run of its request has ended;             *)
(* DatabaseOrphanTurnReconciler finds and closes such Turns.               *)
(*                                                                         *)
(* One Turn is modelled.  An invocation is known by its handler: the ids   *)
(* of its Run and of its Result are fresh uuids.                           *)
(***************************************************************************)
EXTENDS Naturals, Sequences, FiniteSets

CONSTANTS
    Managed,     \* handlers of the routed request and of its retries
    Direct,      \* handlers of /invoke with the same request id
    Repairer     \* operators that run the reconciler, each with its own token

ASSUME InvocationsAssumption == Managed \cap Direct = {}

Handler == Managed \cup Direct

\* "invalid_output" is handled like "failed", and "clarify" like "blocked".
ResultStatus == {"completed", "failed", "blocked"}
TERMINAL_RUN_STATUSES == {"completed", "failed"}
ACTIVE_TURN_STATUSES == {"pending", "routing", "running", "blocked"}

VARIABLES
    turn,        \* the Canonical Turn: status, version, references
    run,         \* agent_runs, by handler
    result,      \* agent_results, by handler
    outbox,      \* rows of turn_outbox for the Turn
    audit,       \* formation_skipped events for the Turn
    handler,     \* what each handler is doing
    repair       \* what each repairer is doing

invVars == <<turn, run, result, outbox, audit, handler, repair>>

TurnActive == turn.status \in ACTIVE_TURN_STATUSES
Add(seq, x) == IF \E i \in DOMAIN seq : seq[i] = x THEN seq ELSE Append(seq, x)
Latest(seq) == seq[Len(seq)]

\* Mutant of TurnUnlocked: repair reads the Turn without a lock.
NoLock == TRUE

\* repair holds the lock on the Turn's row from its first read to its commit.
TurnUnlocked == \A k \in Repairer : repair[k].pc # "classified"

NoRun == [status |-> "none", suppressed |-> FALSE, attached |-> FALSE]
NoResult == [status |-> "none", suppressed |-> FALSE]

InvInit ==
    /\ turn = [status |-> "routing", version |-> 1, runs |-> <<>>, results |-> <<>>]
    /\ run = [h \in Handler |-> NoRun]
    /\ result = [h \in Handler |-> NoResult]
    /\ outbox = {} /\ audit = {}
    /\ handler = [h \in Handler |-> [pc |-> "new", status |-> "none", suppressed |-> FALSE,
                                     version |-> 0, answer |-> {}]]
    /\ repair = [k \in Repairer |-> [pc |-> "idle", runs |-> {}]]

HandlerAt(h, pc) == handler[h].pc = pc
Goto(h, pc) == handler' = [handler EXCEPT ![h].pc = pc]

-----------------------------------------------------------------------------
(* DatabaseCanonicalInvocationStore and InvocationService.                 *)

\* start_run, with the Turn locked: the first caller attaches its Run.
StartRun(h, suppressed) ==
    /\ h \in Managed /\ HandlerAt(h, "new") /\ TurnUnlocked
    /\ turn.runs = <<>> /\ TurnActive
    /\ run' = [run EXCEPT ![h] = [status |-> "running", suppressed |-> suppressed,
                                  attached |-> TRUE]]
    /\ turn' = [turn EXCEPT !.status = "running", !.version = @ + 1, !.runs = Append(@, h)]
    /\ handler' = [handler EXCEPT ![h].pc = "invoking", ![h].suppressed = suppressed]
    /\ UNCHANGED <<result, outbox, audit, repair>>

\* start_run for a Turn that already has a Run: its Result is replayed, or the
\* invocation is still in progress.
ReplayRun(h) ==
    /\ h \in Managed /\ HandlerAt(h, "new") /\ TurnUnlocked
    /\ turn.runs # <<>>
    /\ handler' = [handler EXCEPT ![h].pc = "done",
                                  ![h].answer = IF turn.results = <<>> THEN {}
                                                ELSE {Latest(turn.results)}]
    /\ UNCHANGED <<turn, run, result, outbox, audit, repair>>

\* "Canonical Turn is already terminal": the request was answered by the router.
RefuseRun(h) ==
    /\ h \in Managed /\ HandlerAt(h, "new") /\ TurnUnlocked
    /\ turn.runs = <<>> /\ ~TurnActive
    /\ Goto(h, "done")
    /\ UNCHANGED <<turn, run, result, outbox, audit, repair>>

\* An invocation that is not managed only stores its Run.
AddRun(h, suppressed) ==
    /\ h \in Direct /\ HandlerAt(h, "new")
    /\ run' = [run EXCEPT ![h] = [status |-> "running", suppressed |-> suppressed,
                                  attached |-> FALSE]]
    /\ handler' = [handler EXCEPT ![h].pc = "invoking", ![h].suppressed = suppressed]
    /\ UNCHANGED <<turn, result, outbox, audit, repair>>

\* The agent answers; an exception of the invoker is a failed result.
InvokerReturns(h, status) ==
    /\ HandlerAt(h, "invoking")
    /\ handler' = [handler EXCEPT ![h].pc = "answered", ![h].status = status]
    /\ UNCHANGED <<turn, run, result, outbox, audit, repair>>

\* complete_run reads the Turn without a lock; an ended Turn is a conflict.
ReadRows(h) ==
    /\ h \in Managed /\ HandlerAt(h, "answered")
    /\ handler' = [handler EXCEPT ![h] =
           IF TurnActive THEN [@ EXCEPT !.pc = "commit", !.version = turn.version]
           ELSE [@ EXCEPT !.pc = "done"]]
    /\ UNCHANGED <<turn, run, result, outbox, audit, repair>>

TerminalStatus(status) == IF status = "completed" THEN "completed" ELSE "failed"

\* Mutant of CompleteRun: the version of the Turn is not compared.
CompleteBlind(h) ==
    LET status == TerminalStatus(handler[h].status)
    IN  /\ HandlerAt(h, "commit") /\ TurnUnlocked
        /\ run' = [run EXCEPT ![h].status = handler[h].status]
        /\ result' = [result EXCEPT ![h] = [status |-> handler[h].status,
                                            suppressed |-> handler[h].suppressed]]
        /\ turn' = [turn EXCEPT !.status = status, !.version = @ + 1,
                                !.runs = Add(@, h), !.results = Add(@, h)]
        /\ outbox' = outbox \cup {[type |-> status, token |-> "none"]}
        /\ handler' = [handler EXCEPT ![h].pc = "done", ![h].answer = {h}]
        /\ UNCHANGED <<audit, repair>>

\* The transaction of the coordinator, which compares the Turn's version.
CompleteRun(h) ==
    LET status == TerminalStatus(handler[h].status)
    IN  /\ HandlerAt(h, "commit") /\ TurnUnlocked
        /\ turn.version = handler[h].version
        /\ run' = [run EXCEPT ![h].status = handler[h].status]
        /\ result' = [result EXCEPT ![h] = [status |-> handler[h].status,
                                            suppressed |-> handler[h].suppressed]]
        /\ turn' = [turn EXCEPT !.status = status, !.version = @ + 1,
                                !.runs = Add(@, h), !.results = Add(@, h)]
        /\ outbox' = outbox \cup {[type |-> status, token |-> "none"]}
        /\ handler' = [handler EXCEPT ![h].pc = "done", ![h].answer = {h}]
        /\ UNCHANGED <<audit, repair>>

\* TurnTransactionConflict
CompleteConflict(h) ==
    /\ HandlerAt(h, "commit") /\ TurnUnlocked
    /\ turn.version # handler[h].version
    /\ Goto(h, "done")
    /\ UNCHANGED <<turn, run, result, outbox, audit, repair>>

\* update_run and add_result of an invocation that is not managed: two commits.
UpdateRun(h) ==
    /\ h \in Direct /\ HandlerAt(h, "answered")
    /\ run' = [run EXCEPT ![h].status = handler[h].status]
    /\ Goto(h, "store")
    /\ UNCHANGED <<turn, result, outbox, audit, repair>>

AddResult(h) ==
    /\ HandlerAt(h, "store")
    /\ result' = [result EXCEPT ![h] = [status |-> handler[h].status,
                                        suppressed |-> handler[h].suppressed]]
    /\ handler' = [handler EXCEPT ![h].pc = "done", ![h].answer = {h}]
    /\ UNCHANGED <<turn, run, outbox, audit, repair>>

Dies(h) ==
    /\ handler[h].pc \notin {"new", "done"}
    /\ Goto(h, "done")
    /\ UNCHANGED <<turn, run, result, outbox, audit, repair>>

\* Another handler of the request answered it without an agent.
DirectReply ==
    /\ TurnActive /\ turn.runs = <<>> /\ TurnUnlocked
    /\ turn' = [turn EXCEPT !.status = "completed", !.version = @ + 1]
    /\ outbox' = outbox \cup {[type |-> "completed", token |-> "none"]}
    /\ UNCHANGED <<run, result, audit, handler, repair>>

-----------------------------------------------------------------------------
(* DatabaseOrphanTurnReconciler.repair                                     *)

\* The Turn is locked and found active and not announced; the Runs of its
\* request that have ended are read.
ClassifyRuns(k) ==
    /\ repair[k].pc = "idle" /\ TurnUnlocked
    /\ TurnActive /\ outbox = {}
    /\ LET ended == {h \in Handler : run[h].status \in TERMINAL_RUN_STATUSES}
       IN  /\ ended # {}
           /\ repair' = [repair EXCEPT ![k] = [pc |-> "classified", runs |-> ended]]
    /\ UNCHANGED <<turn, run, result, outbox, audit, handler>>

\* Then their Results.
Pairs(k) == {h \in repair[k].runs : result[h].status \in TERMINAL_RUN_STATUSES}

Suppressed(h) == run[h].suppressed \/ result[h].suppressed \/ result[h].status # "completed"

RepairTurn(k) ==
    /\ repair[k].pc = "classified"
    /\ \E h \in Handler :
         /\ Pairs(k) = {h}
         /\ turn' = [turn EXCEPT !.status = TerminalStatus(result[h].status), !.version = @ + 1,
                                 !.runs = Add(@, h), !.results = Add(@, h)]
         /\ run' = [run EXCEPT ![h].attached = TRUE]
         /\ IF Suppressed(h)
            THEN audit' = audit \cup {[type |-> "skipped", token |-> k]} /\ UNCHANGED outbox
            ELSE outbox' = outbox \cup {[type |-> "completed", token |-> k]} /\ UNCHANGED audit
    /\ repair' = [repair EXCEPT ![k] = [pc |-> "repaired", runs |-> {}]]
    /\ UNCHANGED <<result, handler>>

\* "terminal_association_not_unique"
RepairAmbiguous(k) ==
    /\ repair[k].pc = "classified"
    /\ Cardinality(Pairs(k)) # 1
    /\ repair' = [repair EXCEPT ![k] = [pc |-> "idle", runs |-> {}]]
    /\ UNCHANGED <<turn, run, result, outbox, audit, handler>>

\* The same repair asked for again, after the answer to it was lost.
RepairAgain(k) ==
    /\ repair[k].pc = "repaired"
    /\ repair' = [repair EXCEPT ![k].pc = "idle"]
    /\ UNCHANGED <<turn, run, result, outbox, audit, handler>>

\* _repair_replay finds the token in the outbox or in the audit.
RepairReplay(k) ==
    /\ repair[k].pc = "idle"
    /\ ~TurnActive /\ TurnUnlocked
    /\ \E e \in outbox \cup audit : e.token = k
    /\ repair' = [repair EXCEPT ![k].pc = "repaired"]
    /\ UNCHANGED <<turn, run, result, outbox, audit, handler>>

-----------------------------------------------------------------------------
InvNext ==
    \/ \E h \in Handler :
          \/ \E b \in BOOLEAN : StartRun(h, b) \/ AddRun(h, b)
          \/ \E s \in ResultStatus : InvokerReturns(h, s)
          \/ ReplayRun(h) \/ RefuseRun(h) \/ ReadRows(h) \/ CompleteRun(h)
          \/ CompleteConflict(h) \/ UpdateRun(h) \/ AddResult(h) \/ Dies(h)
    \/ DirectReply
    \/ \E k \in Repairer : ClassifyRuns(k) \/ RepairTurn(k) \/ RepairAmbiguous(k)
                           \/ RepairAgain(k) \/ RepairReplay(k)

InvSpec == InvInit /\ [][InvNext]_invVars

-----------------------------------------------------------------------------
(* Properties.                                                             *)

\* A Turn is decided once: outcome, answer and the one announcement (or the
\* record that it was left out) appear in the same step and stay, whatever
\* completions, repairs and retries come later.
Lifecycle ==
    INSTANCE TurnLifecycle WITH
        outcome <- IF TurnActive THEN "open" ELSE turn.status,
        answer  <- IF turn.results = <<>> THEN {} ELSE {Latest(turn.results)},
        notices <- outbox \cup audit
ImplementsTurnLifecycle == Lifecycle!Spec

\* What the Turn says agrees with the Result it refers to, which is stored,
\* belongs to a Run of the Turn and was completed if and only if the Turn is.
TurnShowsResult ==
    turn.results # <<>> =>
        LET h == Latest(turn.results)
        IN  /\ ~TurnActive
            /\ run[h].attached
            /\ result[h].status # "none"
            /\ (turn.status = "completed") = (result[h].status = "completed")

\* Everyone who was given an answer for the routed request was given the same.
AnswersAgree ==
    \A h \in Managed : handler[h].answer # {} => handler[h].answer = {Latest(turn.results)}

\* Turn, Result and every answer given agree.
InvocationsAgree == TurnShowsResult /\ AnswersAgree

=============================================================================
