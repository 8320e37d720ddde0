--------------------------- MODULE TurnLifecycle ---------------------------
(***************************************************************************)
(* What the rest of the system may rely on about a Canonical Turn: it is   *)
(* open until one step decides its outcome, names the Results that answer  *)
(* it and leaves exactly one notice for Memory; nothing changes any of     *)
(* these afterwards.                                                       *)
(***************************************************************************)
VARIABLES
    outcome,     \* "open", "completed" or "failed"
    answer,      \* the Result the Turn shows, if any
    notices      \* announcements of the end, or records of their omission

vars == <<outcome, answer, notices>>

Init == outcome = "open" /\ answer = {} /\ notices = {}

AtMostOne(S) == \A x, y \in S : x = y

End ==
    /\ outcome = "open"
    /\ outcome' \in {"completed", "failed"}
    /\ answer = {}
    /\ AtMostOne(answer')
    /\ notices = {}
    /\ notices' # {} /\ AtMostOne(notices')

Next == End

Spec == Init /\ [][Next]_vars

=============================================================================
