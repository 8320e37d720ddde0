-------------------------- MODULE ExecutionTraces --------------------------
(***************************************************************************)
(* The execution trace of one Turn: an append-only list of observed facts, *)
(* written by many handlers after the business change they report, each in *)
(* a transaction of its own.  A fact that cannot be written becomes a gap, *)
(* kept in the process; the next successful write reports it in the trace, *)
(* and a later write of the fact itself records the repair.  Clients read  *)
(* a snapshot and follow the trace from its watermark.                     *)
(*                                                                         *)
(* What a fact says is reduced to its identity (source, source_event_id)   *)
(* and to a content, which is new in every call for the facts that are     *)
(* stamped with the time of the call.                                      *)
(***************************************************************************)
EXTENDS Naturals, Sequences, FiniteSets, SequencesExt

CONSTANTS
    Caller,      \* handlers and workers that record facts
    TraceCasts   \* bound: the repository in use ("memory" or "database"), the calls
                 \* to consider, how many are made, how many writes fail, how often the
                 \* process restarts, whether a client looks; a behaviour has one cast

CallKinds == {"route", "progress", "completed", "failed", "note", "handoff",
              "workflow", "formation", "formation_failed", "resolution", "index"}

ASSUME TraceConstants ==
    TraceCasts \subseteq [store : {"memory", "database"}, kinds : SUBSET CallKinds, calls : Nat,
                         faults : Nat, restarts : Nat, client : BOOLEAN]

VARIABLES
    cast,       \* the cast of this behaviour
    rows,       \* execution_trace_events that can be read
    nextOffset, \* the identity column (or _next_offset)
    call,       \* what a caller is doing
    pend,       \* _pending_gaps of a service
    reported,   \* _reported_gaps of a service
    failed,     \* facts whose write failed, per service, since the process started
    reader,     \* a client of the snapshot and of the stream
    calls, faults, restarts

traceVars == <<cast, rows, nextOffset, call, pend, reported, failed, reader, calls, faults, restarts>>

Service == {"app", "index"}
NoCall == [at |-> "idle"]

TraceInit ==
    /\ cast \in TraceCasts
    /\ rows = {} /\ nextOffset = 1
    /\ call = [p \in Caller |-> NoCall]
    /\ pend = [s \in Service |-> <<>>]
    /\ reported = [s \in Service |-> {}]
    /\ failed = [s \in Service |-> {}]
    /\ reader = [at |-> "off", cursor |-> 0, seen |-> {}]
    /\ calls = 0 /\ faults = 0 /\ restarts = 0

----------------------------------------------------------------------------
(* The facts each caller records, in order *)

ContextFacts == {<<>>, <<"context">>, <<"context", "recall">>}
RunFacts == {<<>>, <<"run">>}
RouteFacts == {<<"turn", "decision">> \o pack \o run : pack \in ContextFacts, run \in RunFacts}
ProgressFacts == {<<"event">>}
CompletedFacts == {<<"event", "result">>}
FailedFacts == {<<"event", "failure">>}
NoteFacts == {<<"event">>}
HandoffFacts == {<<"handoff">>}
WorkflowFacts == {<<"workflow">>}
FormationFacts == {<<"formed">>, <<"formed", "proposed">>, <<"formed", "proposed", "revised">>}
FormationFailureFacts == {<<"unformed">>}
ResolutionFacts == {<<"resolved">>, <<"resolved", "applied">>}
IndexFacts == {<<"indexed">>}

FactsOf(kind) ==
    CASE kind = "route" -> RouteFacts
      [] kind = "progress" -> ProgressFacts
      [] kind = "completed" -> CompletedFacts
      [] kind = "failed" -> FailedFacts
      [] kind = "note" -> NoteFacts
      [] kind = "handoff" -> HandoffFacts
      [] kind = "workflow" -> WorkflowFacts
      [] kind = "formation" -> FormationFacts
      [] kind = "formation_failed" -> FormationFailureFacts
      [] kind = "resolution" -> ResolutionFacts
      [] kind = "index" -> IndexFacts

\* Index workers have a service, and so gaps, of their own.
ServiceOf(kind) == IF kind = "index" THEN "index" ELSE "app"

\* Facts without an occurred_at of their own take the time of the call; a
\* client dates what it reports, the same way when it repeats itself.
Stamped == {"decision", "context", "recall", "run", "unformed"}
Told == {"event", "result", "failure", "handoff", "workflow"}
Draft(fact, stage, c) == [fact |-> fact, stage |-> stage, c |-> c]
FactDraft(r) ==
    LET fact == Head(r.todo)
    IN  Draft(fact, "fact", IF fact \in Stamped \/ (fact \in Told /\ r.anew) THEN r.number ELSE 0)

StartCall(p, kind, facts, anew) ==
    /\ call[p].at \in {"idle", "done"}
    /\ calls < cast.calls
    /\ calls' = calls + 1
    /\ call' = [call EXCEPT ![p] =
          [at |-> "begin", phase |-> "fact", kind |-> kind, todo |-> facts, anew |-> anew,
           number |-> calls + 1, gaps |-> <<>>, made |-> <<>>, ok |-> TRUE,
           off |-> 0]]
    /\ UNCHANGED <<cast, rows, nextOffset, pend, reported, failed, reader, faults, restarts>>

----------------------------------------------------------------------------
(* The repository *)

SameSource(d) == {r \in rows : r.fact = d.fact /\ r.stage = d.stage}
Replayed(d) == \E r \in SameSource(d) : r.c = d.c
Row(d, off) == [fact |-> d.fact, stage |-> d.stage, c |-> d.c, off |-> off]

----------------------------------------------------------------------------
(* ExecutionTraceService.  A call is at a phase of try_record; the end of  *)
(* one write decides where it goes on.                                     *)

NextPhase(r) ==
    CASE r.phase = "repair1" -> [r EXCEPT !.phase = "flush", !.at = "begin"]
      [] r.phase = "flush"   -> [r EXCEPT !.phase = "repair2", !.at = "begin"]
      [] r.phase = "repair2" -> [r EXCEPT !.phase = "answer", !.at = "begin"]

Answered(r, complete) ==
    LET rest == Tail(r.todo) IN
    [r EXCEPT !.todo = rest, !.ok = r.ok /\ complete, !.gaps = <<>>, !.phase = "fact",
              !.at = IF rest = <<>> THEN "done" ELSE "begin"]

\* Mutant of Conflicted: the conflict is taken for an answer like any other.
ConflictedQuietly(r) == Answered(r, TRUE)
\* ExecutionTraceConflict passes try_record: a refused report ends its call,
\* and so does a resolution; the others note it and go on.
Conflicted(r) ==
    [Answered(r, FALSE) EXCEPT
        !.at = IF r.kind \in {"handoff", "workflow", "resolution"} THEN "done" ELSE @]

RememberGap(s, d) ==
    pend' = [pend EXCEPT ![s] =
        IF \E i \in DOMAIN @ : @[i].fact = d.fact THEN @ ELSE Append(@, d)]

WriteEnds(p, d, result) ==
    LET r == call[p]
        s == ServiceOf(r.kind)
    IN  /\ UNCHANGED <<reported, cast, reader, calls, restarts>>
        /\ \/ /\ r.phase = "fact" /\ result = "failed"
              /\ RememberGap(s, d)
              /\ failed' = [failed EXCEPT ![s] = @ \cup {d.fact}]
              /\ call' = [call EXCEPT ![p] = Answered(r, FALSE)]
           \/ /\ r.phase = "fact" /\ result = "conflict"
              /\ call' = [call EXCEPT ![p] = Conflicted(r)]
              /\ UNCHANGED <<pend, failed>>
           \/ /\ r.phase = "fact" /\ result = "ok"
              /\ call' = [call EXCEPT ![p] = [r EXCEPT !.phase = "repair1", !.at = "begin"]]
              /\ UNCHANGED <<pend, failed>>
           \/ /\ r.phase # "fact"
              /\ call' = [call EXCEPT ![p] =
                    IF result = "ok" THEN [r EXCEPT !.at = "settle"] ELSE NextPhase(r)]
              /\ UNCHANGED <<pend, failed>>

\* The draft a call is about to write.
Writing(r) ==
    CASE r.phase = "fact"  -> FactDraft(r)
      [] r.phase = "flush" -> Draft(Head(r.gaps).fact, "report", Head(r.gaps).c)
      [] OTHER             -> Draft(Head(r.gaps).fact, "repair", Head(r.gaps).c)

WriteFact(p) ==
    LET r == call[p] IN
    /\ r.at = "begin" /\ r.phase = "fact"
    /\ call' = [call EXCEPT ![p] =
          [r EXCEPT !.at = "insert", !.made = Append(@, FactDraft(r))]]
    /\ UNCHANGED <<cast, rows, nextOffset, pend, reported, failed, reader, calls, faults, restarts>>

RecordRepair(p) ==
    LET r == call[p]
        mine == {g \in reported[ServiceOf(r.kind)] : g.fact = Head(r.todo)}
    IN  /\ r.at = "begin" /\ r.phase \in {"repair1", "repair2"}
        /\ call' = [call EXCEPT ![p] =
              IF mine = {} THEN NextPhase(r)
              ELSE [r EXCEPT !.at = "insert", !.gaps = <<CHOOSE g \in mine : TRUE>>]]
        /\ UNCHANGED <<cast, rows, nextOffset, pend, reported, failed, reader, calls, faults, restarts>>

\* Mutant of FlushGaps: the gap leaves the list before its report is written.
FlushTakesGaps(p) ==
    LET r == call[p]
        s == ServiceOf(r.kind)
    IN  /\ r.at = "begin" /\ r.phase = "flush"
        /\ call' = [call EXCEPT ![p] =
              IF pend[s] = <<>> THEN NextPhase(r) ELSE [r EXCEPT !.at = "insert", !.gaps = pend[s]]]
        /\ pend' = [pend EXCEPT ![s] = <<>>]
        /\ UNCHANGED <<cast, rows, nextOffset, reported, failed, reader, calls, faults, restarts>>
FlushGaps(p) ==
    LET r == call[p]
        waiting == pend[ServiceOf(r.kind)]
    IN  /\ r.at = "begin" /\ r.phase = "flush"
        /\ call' = [call EXCEPT ![p] =
              IF waiting = <<>> THEN NextPhase(r) ELSE [r EXCEPT !.at = "insert", !.gaps = waiting]]
        /\ UNCHANGED <<cast, rows, nextOffset, pend, reported, failed, reader, calls, faults, restarts>>

\* _pending_gaps[scope].pop(failure_id, None): the gaps of a service are kept
\* in the order of their arrival, at most one for each fact.
Popped(gaps, fact) ==
    LET here == {i \in DOMAIN gaps : gaps[i].fact = fact}
    IN  IF here = {} THEN gaps ELSE RemoveAt(gaps, CHOOSE i \in here : TRUE)

\* What follows a successful report or repair, under _gap_lock.
SettleGap(p) ==
    LET r == call[p]
        s == ServiceOf(r.kind)
        gap == Head(r.gaps)
        others == {g \in reported[s] : g.fact # gap.fact}
    IN  /\ r.at = "settle"
        /\ IF r.phase = "flush"
           THEN /\ pend' = [pend EXCEPT ![s] = Popped(@, gap.fact)]
                /\ reported' = [reported EXCEPT ![s] = others \cup {gap}]
                /\ call' = [call EXCEPT ![p] =
                      IF Len(r.gaps) = 1 THEN NextPhase(r)
                      ELSE [r EXCEPT !.gaps = Tail(@), !.at = "insert"]]
           ELSE /\ reported' = [reported EXCEPT ![s] = others]
                /\ call' = [call EXCEPT ![p] = NextPhase(r)]
                /\ UNCHANGED pend
        /\ UNCHANGED <<cast, rows, nextOffset, failed, reader, calls, faults, restarts>>

\* MemoryExecutionTraceRepository.append: one step under its lock.
AppendInMemory(p) ==
    LET d == Writing(call[p]) IN
    /\ call[p].at = "insert" /\ cast.store = "memory"
    /\ UNCHANGED faults
    /\ \/ /\ SameSource(d) = {}
          /\ rows' = rows \cup {Row(d, nextOffset)}
          /\ nextOffset' = nextOffset + 1
          /\ WriteEnds(p, d, "ok")
       \/ /\ SameSource(d) # {}
          /\ UNCHANGED <<rows, nextOffset>>
          /\ WriteEnds(p, d, IF Replayed(d) THEN "ok" ELSE "conflict")

\* DatabaseExecutionTraceRepository.append: the INSERT draws an offset, the row
\* can be read after the commit; a stored source makes it a replay or a conflict.
InsertRow(p) ==
    /\ call[p].at = "insert" /\ cast.store = "database"
    /\ nextOffset' = nextOffset + 1
    /\ call' = [call EXCEPT ![p] = [@ EXCEPT !.at = "commit", !.off = nextOffset]]
    /\ UNCHANGED <<cast, rows, pend, reported, failed, reader, calls, faults, restarts>>
CommitRow(p) ==
    LET d == Writing(call[p]) IN
    /\ call[p].at = "commit"
    /\ UNCHANGED <<nextOffset, faults>>
    /\ \/ /\ SameSource(d) = {}
          /\ rows' = rows \cup {Row(d, call[p].off)}
          /\ WriteEnds(p, d, "ok")
       \/ /\ SameSource(d) # {}
          /\ UNCHANGED rows
          /\ WriteEnds(p, d, IF Replayed(d) THEN "ok" ELSE "conflict")

\* The database is not reached, or the connection breaks after the commit
\* (session.refresh raises): the caller learns of a failure either way.
WriteFails(p) ==
    LET d == Writing(call[p]) IN
    /\ call[p].at \in {"insert", "commit"} /\ cast.store = "database"
    /\ faults < cast.faults
    /\ faults' = faults + 1
    /\ \/ UNCHANGED rows
       \/ /\ call[p].at = "commit" /\ SameSource(d) = {}
          /\ rows' = rows \cup {Row(d, call[p].off)}
    /\ UNCHANGED nextOffset
    /\ WriteEnds(p, d, "failed")

----------------------------------------------------------------------------
(* Reading *)

\* Reports open a failure and repairs close it, in the order of the offsets.
OpenFailures ==
    {r.fact : r \in {x \in rows :
        x.stage = "report"
          /\ ~\E y \in rows : y.stage = "repair" /\ y.fact = x.fact /\ y.off > x.off}}
Incomplete(s) == OpenFailures # {} \/ pend[s] # <<>>
Watermark == CHOOSE n \in {r.off : r \in rows} : \A r \in rows : r.off <= n

\* try_record answers with the completeness of a snapshot of its own service.
AnswerCall(p) ==
    LET r == call[p] IN
    /\ r.at = "begin" /\ r.phase = "answer"
    /\ call' = [call EXCEPT ![p] = Answered(r, ~Incomplete(ServiceOf(r.kind)))]
    /\ UNCHANGED <<cast, rows, nextOffset, pend, reported, failed, reader, calls, faults, restarts>>

ReadSnapshot ==
    /\ cast.client /\ reader.at = "off" /\ rows # {}
    /\ reader' = [at |-> "read", cursor |-> Watermark, seen |-> rows]
    /\ UNCHANGED <<cast, rows, nextOffset, call, pend, reported, failed, calls, faults, restarts>>

\* Mutant of OpenStream: the stream starts at the newest snapshot.
OpenStreamAtWatermark ==
    /\ reader.at = "read"
    /\ reader' = [reader EXCEPT !.at = "on", !.cursor = Watermark]
    /\ UNCHANGED <<cast, rows, nextOffset, call, pend, reported, failed, calls, faults, restarts>>
\* The stream starts at the Last-Event-ID the client sends.
OpenStream ==
    /\ reader.at = "read"
    /\ reader' = [reader EXCEPT !.at = "on"]
    /\ UNCHANGED <<cast, rows, nextOffset, call, pend, reported, failed, calls, faults, restarts>>

PollStream ==
    LET new == {r \in rows : r.off > reader.cursor} IN
    /\ reader.at = "on" /\ new # {}
    /\ reader' = [reader EXCEPT !.cursor = Watermark, !.seen = @ \cup new]
    /\ UNCHANGED <<cast, rows, nextOffset, call, pend, reported, failed, calls, faults, restarts>>

\* The process stops: the gaps it knew of are gone.  (With the Memory
\* repository the trace is gone as well, which is the initial state again.)
Restart ==
    /\ restarts < cast.restarts /\ cast.store = "database"
    /\ restarts' = restarts + 1
    /\ call' = [p \in Caller |-> NoCall]
    /\ pend' = [s \in Service |-> <<>>]
    /\ reported' = [s \in Service |-> {}]
    /\ failed' = [s \in Service |-> {}]
    /\ reader' = [reader EXCEPT !.at = IF @ = "on" THEN "read" ELSE @]
    /\ UNCHANGED <<cast, rows, nextOffset, calls, faults>>

Calling(p) ==
    \E kind \in cast.kinds : \E facts \in FactsOf(kind), anew \in BOOLEAN :
        /\ anew => \E i \in DOMAIN facts : facts[i] \in Told
        /\ StartCall(p, kind, facts, anew)

TraceNext ==
    \/ \E p \in Caller :
          \/ Calling(p) \/ WriteFact(p) \/ RecordRepair(p) \/ FlushGaps(p) \/ SettleGap(p)
          \/ AppendInMemory(p) \/ InsertRow(p) \/ CommitRow(p) \/ WriteFails(p) \/ AnswerCall(p)
    \/ ReadSnapshot \/ OpenStream \/ PollStream \/ Restart

TraceSpec == TraceInit /\ [][TraceNext]_traceVars

----------------------------------------------------------------------------
(* Properties *)

Stored(d) == \E r \in rows : r.fact = d.fact /\ r.stage = d.stage /\ r.c = d.c

\* A fact whose write failed and that is still missing shows: as long as the
\* process runs, snapshots of the service that failed to write it say
\* "incomplete", whatever other calls flush, repair, repeat or conflict with.
GapIsShown ==
    \A s \in Service : \A f \in failed[s] :
        (\E r \in rows : r.fact = f /\ r.stage = "fact") \/ Incomplete(s)

\* A caller that is told its observation is complete finds every fact it
\* recorded in the trace, as it recorded it.
AnswerIsHonest ==
    \A p \in Caller :
        (call[p].at = "done" /\ call[p].ok) =>
            \A i \in DOMAIN call[p].made : Stored(call[p].made[i])

\* The trace never claims to be complete when it is not: neither to a reader
\* while the process that lost a fact runs, nor to the caller that recorded it.
TraceIsHonest == GapIsShown /\ AnswerIsHonest

\* "an event written between those two requests must still be streamed"
\* (runtime_observation_stream): the cursor of a client never passes an event
\* the client has not been sent.
NothingSkipped == reader.at # "off" => \A r \in rows : r.off <= reader.cursor => r \in reader.seen
\* The Memory repository keeps that promise.
NothingSkippedInMemory == cast.store = "memory" => NothingSkipped
=============================================================================
