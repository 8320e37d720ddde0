------------------------------ MODULE MCEvents ------------------------------
(***************************************************************************)
(* What agents and services report, for TLC: events sent with a Ticket,    *)
(* and records of the execution trace.  The two share no state, so a       *)
(* behaviour is about one of them (focus), the other staying as it begins. *)
(***************************************************************************)
EXTENDS ExecutionTickets, ExecutionTraces, TLC

CONSTANTS k1, k2, r1, e1, e2, h1, h2

VARIABLE focus

Message(i, route, what, place, at) ==
  [id |-> i, via |-> route, kind |-> what, sequence |-> place, version |-> at]

(* Two Tickets of one Run.                                                 *)
SharedRunOf == k1 :> r1 @@ k2 :> r1

(* Progress on both routes, one event numbered by its agent, and each way  *)
(* to consume a Ticket; final events and notes reuse the ids of progress.  *)
MixedMessages ==
  {Message(e1, "native", "progress", 1, 0),
   Message(e2, "adapter", "progress", 0, 0),
   Message(e1, "native", "result", 0, 0),
   Message(e2, "legacy", "error", 0, 0),
   Message(e2, "adapter", "note", 0, 0)}

MCCast(at, kinds, n, faulty, stops, client) ==
  [store |-> at, kinds |-> kinds, calls |-> n, faults |-> faulty, restarts |-> stops,
   client |-> client]

(* Whole requests, retries of one report, two services, and calls that     *)
(* follow one another while writes fail.                                   *)
MCTraceCasts ==
  {MCCast("memory", {"route"}, 2, 0, 0, TRUE),
   MCCast("memory", {"completed", "handoff"}, 2, 0, 0, TRUE),
   MCCast("database", {"route"}, 1, 1, 0, FALSE),
   MCCast("database", {"progress", "note"}, 2, 1, 0, TRUE),
   MCCast("database", {"handoff"}, 3, 2, 0, FALSE),
   MCCast("database", {"handoff", "index"}, 3, 1, 1, FALSE),
   MCCast("database", {"workflow", "failed"}, 2, 1, 0, FALSE),
   MCCast("database", {"resolution"}, 2, 2, 0, FALSE),
   MCCast("database", {"formation", "formation_failed"}, 2, 0, 0, FALSE)}
MCLateCasts == {MCCast("database", {"completed", "handoff"}, 2, 0, 0, TRUE)}

MCInit ==
  /\ focus \in {"tickets", "traces"}
  /\ TicketInit /\ TraceInit
  /\ focus # "traces" => cast = CHOOSE c \in TraceCasts : TRUE

MCNext ==
  /\ focus' = focus
  /\ \/ focus = "tickets" /\ TicketNext /\ UNCHANGED traceVars
     \/ focus = "traces" /\ TraceNext /\ UNCHANGED ticketVars

MCSpec == MCInit /\ [][MCNext]_<<ticketVars, traceVars, focus>>

(* The same names serve as handlers of requests and callers of the trace.  *)
MCSymmetry == Permutations({h1, h2}) \cup Permutations({k1, k2})
=============================================================================
