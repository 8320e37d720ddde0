--------------------------- MODULE MCEventually ---------------------------
(***************************************************************************)
(* What must happen in the end, for TLC: overdue Runs and the events of    *)
(* the Turn outbox.  DelegatedRuns only writes the outbox, TurnOutbox only *)
(* reads it, so a behaviour is about one of them (focus), the other        *)
(* staying as it begins.                                                   *)
(***************************************************************************)
EXTENDS MCDelegatedRuns, TurnOutbox

VARIABLE focus

MCInit == focus \in {"runs", "outbox"} /\ Init /\ OutboxInit

MCNext ==
  /\ focus' = focus
  /\ \/ focus = "runs" /\ Next /\ UNCHANGED outboxVars
     \/ focus = "outbox" /\ OutboxNext /\ UNCHANGED vars

(* The fairness of each module, when the behaviour is about it.            *)
MCSpec ==
  /\ MCInit /\ [][MCNext]_<<vars, outboxVars, focus>>
  /\ \A w \in Sweepers \ CrashProne : WF_vars(focus = "runs" /\ SweeperStep(w))
  /\ \A k \in Consumers : WF_outboxVars(focus = "outbox" /\ RunOnce(k))
  /\ \A e \in Events : WF_outboxVars(focus = "outbox" /\ Clock(e))
=============================================================================
