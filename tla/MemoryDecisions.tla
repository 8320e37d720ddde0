-------------------------- MODULE MemoryDecisions --------------------------
(***************************************************************************)
(* From a candidate to a change of memory.  A worker evaluates a candidate *)
(* (hard rules, semantics, safety filter, verifier) against the memory it  *)
(* reads and applies the decision later; a decision that is left open is   *)
(* stored, and the user confirms or rejects it, or deletes the memory.     *)
(* Reading, claiming, applying and completing are calls of their own:      *)
(* other workers and requests come in between, and requests are repeated.  *)
(*                                                                         *)
(* All candidates of a behaviour have one memory_key.  Their text is left  *)
(* out; a candidate is known by what the rules ask of it.                  *)
(***************************************************************************)
EXTENDS Naturals, FiniteSets

CONSTANTS
    Worker,       \* formation jobs, each with one candidate
    Requester,    \* requests of the user
    ClientKey,    \* idempotency keys
    DecisionCasts \* bound: who takes part, where memory starts ("known"), which
                  \* candidates there are ("every"), a "verifier", "crash",
                  \* "delete"; a behaviour has one cast

\* The operations of deletions have names of their own.
ASSUME DecisionsAssumption == "delete" \notin Worker

VARIABLES
    cast,      \* the cast of this behaviour
    items,     \* memory_items with this key
    decided,   \* accepted decisions: operation, memory, the revision it replaced
    doing,     \* what a worker has read and decided
    pending,   \* stored decisions that wait for the user, by worker
    claim,     \* memory_pending_resolution_claimed
    done,      \* memory_pending_confirm, _reject, _conflict
    request    \* what a request of the user is doing

decisionVars == <<cast, items, decided, doing, pending, claim, done, request>>

NoItem == <<"none">>
First == <<"first">>
ItemId == {First} \cup (Worker \X {"decision", "confirm"})
Blank == [status |-> "none", rev |-> NoItem, cand |-> "none", by |-> "none"]
NoDecision == [status |-> "none"]
NoClaim == [action |-> "none"]
Idle == [stage |-> "idle"]

-----------------------------------------------------------------------------
(* Candidates.                                                             *)

\* What the formation model may return.  "uncertain": the semantics fit but
\* for their certainty; "unclear": they do not fit or are unknown.
Flaws == {"none", "contract", "identity", "scope", "sensitive", "quote", "language"}
Conversation ==
    [from : {"turns"}, kind : {"none"}, op : {"add", "update", "delete", "ignore"},
     scope : {"preference", "task"},
     evidence : {{"user"}, {"assistant"}, {"canonical"}, {"user", "assistant"}, {"user", "canonical"}},
     target : {NoItem, First, <<"other">>}, flaw : Flaws,
     confidence : {"low", "middle", "high"},
     semantic : {"current_turn", "unclear", "uncertain", "fits"}, value : {"old", "new"}]

Plain(op, confidence, semantic) ==
    [from |-> "turns", kind |-> "none", op |-> op, scope |-> "preference", evidence |-> {"user"},
     target |-> IF op = "delete" THEN First ELSE NoItem, flaw |-> "none",
     confidence |-> confidence, semantic |-> semantic, value |-> "new"]

\* _exact_duplicate_candidates, _semantic_candidates, _session_summary_candidates.
Consolidation ==
    {[Plain(k[2], k[3], "fits") EXCEPT !.from = "consolidation", !.kind = k[1], !.scope = k[4],
        !.evidence = {"canonical"}, !.target = First] :
       k \in {<<"exact_duplicate", "delete", "high", "preference">>,
              <<"semantic_duplicate", "update", "middle", "preference">>,
              <<"session_summary", "update", "high", "session">>,
              <<"session_compacted", "delete", "high", "session">>}}

\* StructuredEventProjector; adapt_structured_candidate fills in the semantics.
Structured ==
    {[Plain(op, "high", "fits") EXCEPT !.from = "structured", !.scope = "task",
        !.evidence = {"canonical"}] : op \in {"add", "update"}}

Common ==
    {Plain(op, s[1], s[2]) : op \in {"add", "update", "delete"},
                             s \in {<<"high", "fits">>, <<"middle", "fits">>, <<"high", "uncertain">>}}
Candidates ==
    (IF "every" \in cast THEN Conversation ELSE Common) \cup Consolidation \cup Structured

-----------------------------------------------------------------------------
(* MemoryCandidateHardRules.                                               *)

\* get_current_by_key
Current ==
    IF \E i \in ItemId : items[i].status = "active"
    THEN CHOOSE i \in ItemId : items[i].status = "active" ELSE NoItem

\* Mutant of BadEvidence: any quoted evidence will do.
BadQuotes(c) == ("canonical" \in c.evidence /\ c.from = "turns") \/ c.flaw = "quote"

\* _validate_evidence
BadEvidence(c) ==
    \/ "canonical" \in c.evidence /\ c.from = "turns"
    \/ c.flaw = "quote"
    \/ c.evidence = {"assistant"}
    \/ /\ c.from = "consolidation" /\ c.scope = "preference" /\ "user" \notin c.evidence
       /\ <<c.kind, c.op>> \notin {<<"exact_duplicate", "delete">>, <<"semantic_duplicate", "update">>}

Refused(c, cur) ==
    \/ c.flaw \in {"contract", "identity", "scope"}
    \/ BadEvidence(c)
    \/ c.flaw = "sensitive" /\ c.op # "delete"
    \/ c.target # NoItem /\ c.target # cur

SameValue(c, cur) == cur # NoItem /\ c.op # "delete" /\ items[cur].cand.value = c.value

CanonicalDelete(c, cur) ==
    /\ c.op = "delete" /\ cur # NoItem
    /\ c.from = "consolidation" /\ c.kind \in {"exact_duplicate", "session_compacted"}

HardRules(c, cur) ==
    IF Refused(c, cur) THEN "reject"
    ELSE IF SameValue(c, cur) \/ c.op = "ignore" THEN "noop"
    ELSE IF CanonicalDelete(c, cur) THEN "delete" ELSE "open"

\* _authorized_user_delete: only long-term, certain words of the user.
DeleteAuthorized(c, cur) ==
    /\ cur # NoItem /\ c.target = cur
    /\ "user" \in c.evidence /\ c.scope = "preference" /\ c.semantic = "fits"

-----------------------------------------------------------------------------
(* MemoryCandidatePolicy.                                                  *)

\* MemoryCandidateSemanticValidator.validate
Semantics(c, cur, semantic) ==
    IF semantic = "current_turn" THEN "current_turn"
    ELSE IF \/ semantic # "fits"
            \/ c.scope # "task" /\ c.op = "update" /\ cur = NoItem
            \/ c.scope # "task" /\ c.op = "add" /\ cur # NoItem
         THEN "pending" ELSE "confirmed"

\* TemporaryLanguageSafetyFilter.evaluate
Downgraded(c) == c.flaw = "language" /\ c.scope = "preference" /\ c.op \in {"add", "update"}

\* The end of evaluate, for confirmed semantics.
Accept(c, cur) ==
    IF c.confidence # "high" THEN "pending"
    ELSE IF c.op = "delete" THEN (IF DeleteAuthorized(c, cur) THEN "delete" ELSE "pending")
    ELSE IF cur = NoItem THEN "add" ELSE "update"

\* evaluate up to the verifier.
Policy(c, cur) ==
    LET s == Semantics(c, cur, c.semantic)
    IN  IF HardRules(c, cur) # "open" THEN HardRules(c, cur)
        ELSE IF s = "current_turn" THEN "noop"
        ELSE IF c.confidence = "low" THEN "reject"
        ELSE IF Downgraded(c) THEN "pending"
        ELSE IF s = "pending" THEN "verify" ELSE Accept(c, cur)

\* _verify_pending of a confirming verdict: the hard rules run again, and the
\* semantics count as certain.
PolicyVerified(c, cur) ==
    LET s == Semantics(c, cur, IF c.semantic = "uncertain" THEN "fits" ELSE c.semantic)
    IN  IF HardRules(c, cur) # "open" THEN HardRules(c, cur)
        ELSE IF s # "confirmed" THEN "pending" ELSE Accept(c, cur)

-----------------------------------------------------------------------------
(* Formation.                                                              *)

RevOf(cur) == IF cur = NoItem THEN NoItem ELSE items[cur].rev

DecisionsInit ==
    /\ cast \in DecisionCasts
    /\ items = [i \in ItemId |->
                  IF i = First /\ "known" \in cast
                  THEN [status |-> "active", rev |-> First, by |-> "policy",
                        cand |-> [Plain("add", "high", "fits") EXCEPT !.value = "old"]]
                  ELSE Blank]
    /\ decided = {}
    /\ doing = [w \in Worker |-> Idle]
    /\ pending = [w \in Worker |-> NoDecision]
    /\ claim = [w \in Worker |-> NoClaim]
    /\ done = [w \in Worker |-> NoClaim]
    /\ request = [r \in Requester |-> Idle]

Decide(w, c, op, cur) ==
    doing' = [doing EXCEPT ![w] = [stage |-> IF op = "verify" THEN "verify" ELSE "apply",
                                   cand |-> c, op |-> op, item |-> cur, rev |-> RevOf(cur)]]

\* policy.evaluate: one read of the memory.  Without a verifier what would be
\* verified stays open.
EvaluateCandidate(w) ==
    /\ w \in cast /\ doing[w] = Idle
    /\ \E c \in Candidates :
         LET op == Policy(c, Current)
         IN  Decide(w, c, IF op = "verify" /\ "verifier" \notin cast THEN "pending" ELSE op, Current)
    /\ UNCHANGED <<cast, items, decided, pending, claim, done, request>>

\* The verifier answers later; the memory is read again.
VerifierConfirms(w) ==
    /\ doing[w].stage = "verify"
    /\ Decide(w, doing[w].cand, PolicyVerified(doing[w].cand, Current), Current)
    /\ UNCHANGED <<cast, items, decided, pending, claim, done, request>>

\* Another verdict, or an error.
VerifierDeclines(w) ==
    /\ doing[w].stage = "verify"
    /\ doing' = [doing EXCEPT ![w].stage = "apply", ![w].op = "pending"]
    /\ UNCHANGED <<cast, items, decided, pending, claim, done, request>>

-----------------------------------------------------------------------------
(* MemoryLifecycleService.apply.                                           *)

OnRecord(o) == \E d \in decided : d[1] = o
TargetOf(o) == (CHOOSE d \in decided : d[1] = o)[2]

\* A repeated operation finds its event; the memory must still be there.
Replayed(o, op) == OnRecord(o) /\ (op = "delete" \/ items[TargetOf(o)].status # "gone")

\* Mutant of Accepted: the revision that was read is not compared.
AcceptedBlind(o, op, i, rev) ==
    /\ ~OnRecord(o)
    /\ IF op = "add" THEN Current = NoItem ELSE items[i].status = "active"

Accepted(o, op, i, rev) ==
    /\ ~OnRecord(o)
    /\ IF op = "add" THEN Current = NoItem ELSE items[i].status = "active" /\ items[i].rev = rev

\* request_delete clears the stored decisions about the memory.
Scrubbed(i) ==
    [w \in Worker |-> IF pending[w].status = "pending" /\ pending[w].item = i
                      THEN [pending[w] EXCEPT !.readable = FALSE] ELSE pending[w]]

Change(o, op, i, rev, c, by) ==
    LET j == IF op = "add" THEN o ELSE i
    IN  /\ items' = [items EXCEPT ![j] =
              IF op = "delete" THEN [@ EXCEPT !.status = "deleting"]
              ELSE [status |-> "active", rev |-> o, cand |-> c, by |-> by]]
        /\ decided' = decided \cup {<<o, j, rev>>}
        /\ pending' = IF op = "delete" THEN Scrubbed(i) ELSE pending

End(w) == doing' = [doing EXCEPT ![w].stage = "ended"]

ApplyDecision(w) ==
    LET o == <<w, "decision">>
        d == doing[w]
    IN  /\ d.stage = "apply" /\ d.op \in {"add", "update", "delete"}
        /\ IF Accepted(o, d.op, d.item, d.rev)
           THEN Change(o, d.op, d.item, d.rev, d.cand, "policy")
           ELSE UNCHANGED <<items, decided, pending>>
        /\ End(w)
        /\ UNCHANGED <<cast, claim, done, request>>

\* record_decision
RecordDecision(w) ==
    LET d == doing[w]
    IN  /\ d.stage = "apply" /\ d.op \in {"noop", "reject", "pending"}
        /\ pending' = IF d.op # "pending" THEN pending
                      ELSE [pending EXCEPT ![w] = [status |-> "pending", cand |-> d.cand, item |-> d.item,
                                                   rev |-> d.rev, readable |-> TRUE]]
        /\ End(w)
        /\ UNCHANGED <<cast, items, decided, claim, done, request>>

\* The external index has forgotten the memory.
Purge(i) ==
    /\ items[i].status = "deleting"
    /\ items' = [items EXCEPT ![i].status = "gone"]
    /\ UNCHANGED <<cast, decided, doing, pending, claim, done, request>>

-----------------------------------------------------------------------------
(* MemoryManagementService.resolve_pending.                                *)

At(r, stage) == request[r].stage = stage
Leave(r) == request' = [request EXCEPT ![r] = Idle]
Go(r, stage) == request' = [request EXCEPT ![r].stage = stage]

\* What a confirmation does to the memory.
ConfirmedOp(p) ==
    IF p.cand.op = "delete" THEN "delete"
    ELSE IF p.cand.op = "add" /\ p.item = NoItem THEN "add" ELSE "update"

\* The checks before the claim: the memory must exist with the revision the
\* decision was made for; the user has seen that one.
Confirmable(p) ==
    \/ ConfirmedOp(p) = "add"
    \/ /\ p.item # NoItem /\ items[p.item].status # "gone"
       /\ items[p.item].rev = p.rev

\* A decision whose text has been cleared can only be confirmed again, when it
\* is a deletion that has been claimed by this very request.
Continues(w, signed) ==
    /\ claim[w] # NoClaim /\ claim[w].action = "confirm" /\ signed = [claim[w] EXCEPT !.op = "none"]
    /\ claim[w].op = "delete"

OpenDecision(r, w, action, key) ==
    LET p == pending[w]
        signed == [action |-> action, key |-> key, op |-> "none"]
        next == IF p.readable THEN "claim" ELSE "again"
    IN  /\ r \in cast /\ At(r, "idle")
        /\ p.status = "pending" /\ done[w] = NoClaim
        /\ IF p.readable THEN action = "confirm" => Confirmable(p) ELSE Continues(w, signed)
        /\ request' = [request EXCEPT ![r] = [stage |-> next, w |-> w, action |-> action, key |-> key]]
        /\ UNCHANGED <<cast, items, decided, doing, pending, claim, done>>

\* Mutant of ClaimResolution: whoever comes second goes on as well.
ClaimAnyway(r) ==
    LET w == request[r].w
    IN  /\ At(r, "claim")
        /\ claim' = IF claim[w] # NoClaim THEN claim
                    ELSE [claim EXCEPT ![w] = [action |-> request[r].action, key |-> request[r].key,
                                               op |-> ConfirmedOp(pending[w])]]
        /\ Go(r, IF request[r].action = "reject" THEN "complete" ELSE "apply")
        /\ UNCHANGED <<cast, items, decided, doing, pending, done>>

\* _claim_resolution and _validate_resolution_claim: one event per decision.
ClaimResolution(r) ==
    LET w == request[r].w
        mine == [action |-> request[r].action, key |-> request[r].key, op |-> ConfirmedOp(pending[w])]
    IN  /\ At(r, "claim")
        /\ claim' = IF claim[w] = NoClaim THEN [claim EXCEPT ![w] = mine] ELSE claim
        /\ IF claim[w] \in {NoClaim, mine}
           THEN Go(r, IF request[r].action = "reject" THEN "complete" ELSE "apply")
           ELSE Leave(r)
        /\ UNCHANGED <<cast, items, decided, doing, pending, done>>

\* lifecycle.apply of the accepted operation, or request_delete of the one the
\* claim names; a refusal is recorded as conflict, of a deletion asked again not
\* at all.
ApplyResolution(r) ==
    LET w == request[r].w
        o == <<w, "confirm">>
        p == pending[w]
        op == ConfirmedOp(p)
        ok == Accepted(o, op, p.item, p.rev)
    IN  /\ At(r, "apply") \/ At(r, "again")
        /\ IF ok THEN Change(o, op, p.item, p.rev, p.cand, "user")
           ELSE UNCHANGED <<items, decided, pending>>
        /\ IF ok \/ Replayed(o, op) THEN Go(r, "complete")
           ELSE IF At(r, "apply") THEN Go(r, "conflict") ELSE Leave(r)
        /\ UNCHANGED <<cast, doing, claim, done>>

\* _complete_resolution: one event per decision.
CompleteResolution(r) ==
    LET w == request[r].w
        mine == [action |-> IF At(r, "conflict") THEN "conflict" ELSE request[r].action,
                 key |-> request[r].key]
    IN  /\ At(r, "complete") \/ At(r, "conflict")
        /\ done' = IF done[w] = NoClaim THEN [done EXCEPT ![w] = mine] ELSE done
        /\ Leave(r)
        /\ UNCHANGED <<cast, items, decided, doing, pending, claim>>

\* The request is cut off; the client may send it again.
RequestStops(r) ==
    /\ "crash" \in cast /\ request[r] # Idle
    /\ Leave(r)
    /\ UNCHANGED <<cast, items, decided, doing, pending, claim, done>>

-----------------------------------------------------------------------------
(* MemoryManagementService.request_delete.                                 *)

\* The user deletes the memory as shown to him; _check_revision and _audit.
AskDelete(r, i, key) ==
    /\ {"delete", r} \subseteq cast /\ At(r, "idle")
    /\ items[i].status = "active"
    /\ request' = [request EXCEPT ![r] = [stage |-> "delete", item |-> i, rev |-> items[i].rev, key |-> key]]
    /\ UNCHANGED <<cast, items, decided, doing, pending, claim, done>>

DeleteMemory(r) ==
    LET q == request[r]
        o == <<"delete", q.key>>
    IN  /\ At(r, "delete")
        /\ IF Accepted(o, "delete", q.item, q.rev)
           THEN Change(o, "delete", q.item, q.rev, "none", "user")
           ELSE UNCHANGED <<items, decided, pending>>
        /\ Leave(r)
        /\ UNCHANGED <<cast, doing, claim, done>>

DecisionsNext ==
    \/ \E w \in Worker :
         \/ EvaluateCandidate(w) \/ VerifierConfirms(w) \/ VerifierDeclines(w) \/ ApplyDecision(w) \/ RecordDecision(w)
    \/ \E i \in ItemId : Purge(i)
    \/ \E r \in Requester :
         \/ \E w \in Worker, action \in {"confirm", "reject"}, key \in ClientKey :
              OpenDecision(r, w, action, key)
         \/ ClaimResolution(r) \/ ApplyResolution(r) \/ CompleteResolution(r) \/ RequestStops(r)
         \/ \E i \in ItemId, key \in ClientKey : AskDelete(r, i, key)
         \/ DeleteMemory(r)

DecisionsSpec == DecisionsInit /\ [][DecisionsNext]_decisionVars

-----------------------------------------------------------------------------
(* Properties.                                                             *)

\* Whatever the model returned and in whatever order decisions, verdicts and
\* confirmations came: a memory rests on words of the user or on an event of
\* the system, belongs to its owner and holds no secret; without the user's
\* confirmation its candidate was sure in every respect.
MemoryIsGrounded ==
    \A i \in ItemId : items[i].status = "active" =>
      LET c == items[i].cand
      IN  /\ c.evidence \cap {"user", "canonical"} # {}
          /\ c.from = "turns" => "canonical" \notin c.evidence
          /\ c.flaw \notin {"contract", "identity", "scope", "sensitive", "quote"}
          /\ c.semantic # "current_turn"
          /\ items[i].by = "policy" =>
               /\ c.confidence = "high"
               /\ c.flaw = "language" => c.scope # "preference"
               /\ c.semantic = "fits" \/ (c.semantic = "uncertain" /\ "verifier" \in cast)

\* No lost update: of all decisions made for one revision of a memory, by
\* workers or by the user, one takes effect.
OneChangePerRevision ==
    \A d, e \in decided : d # e /\ d[2] = e[2] => d[3] # e[3]

\* What a request was told stays true: a rejected decision has no effect, a
\* confirmed one has had it, and the claim and the record name one request.
ResolutionAgrees ==
    \A w \in Worker :
      /\ done[w] # NoClaim =>
           /\ claim[w] # NoClaim /\ done[w].key = claim[w].key
           /\ done[w].action \in {claim[w].action, "conflict"}
           /\ done[w].action = "confirm" => OnRecord(<<w, "confirm">>)
      /\ OnRecord(<<w, "confirm">>) => claim[w].action = "confirm"

\* A claim TLC refutes (README, Observations): "claim/crash recovery", a
\* confirmation that took effect can be completed by sending the request again.
AppliedCanComplete ==
    \A w \in Worker :
      /\ OnRecord(<<w, "confirm">>) /\ done[w] = NoClaim
      /\ \A r \in Requester : request[r] = Idle
      => IF pending[w].readable THEN Confirmable(pending[w])
         ELSE Continues(w, [claim[w] EXCEPT !.op = "none"])

=============================================================================
