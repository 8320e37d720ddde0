------------------------------ MODULE MCMemory ------------------------------
(***************************************************************************)
(* Memories for TLC: their life and their index, and their formation from  *)
(* Plans, Runs and Results.  The two share no state, so a behaviour is     *)
(* about one of them (focus), the other staying as it begins.              *)
(***************************************************************************)
EXTENDS MemoryIndexing, StructuredFormation, TLC

CONSTANTS m1, m2, u1, u2, w1, w2, r1, g1

VARIABLE focus

(* Two workers, a repair and a governed repair beside a worker, an update  *)
(* against user and sweeper, two memories of one key.                      *)
MCCasts == {{m1, "user", w1, w2}, {m1, "user", w1, r1}, {m1, "user", w1, g1},
            {m1, u1, "user", "ttl", w1}, {m1, m2, "user", "ttl"},
            {m1, m2, "user", "ttl", "active_only"}, {m1, u1, u2, "user"}}

(* Publication with every publisher and no worker, processing with one     *)
(* writer and two workers.                                                 *)
MCStructCasts ==
    {{"plan", "w1", "reconciler", "events", "crash"}, {"run", "w1", "w2", "reconciler", "crash"},
     {"result", "w1", "reconciler", "crash"},
     {"plan", "w1", "k1", "k2"}, {"run", "w1", "k1", "k2", "lease", "forget"}}

MCInit ==
    /\ focus \in {"index", "formation"}
    /\ MemoryInit /\ StructInit
    /\ focus # "index" => cast = {m1, "user", w1, w2}
    /\ focus # "formation" => members = {"result", "w1", "reconciler", "crash"}

MCNext ==
    /\ focus' = focus
    /\ \/ focus = "index" /\ MemoryNext /\ UNCHANGED structVars
       \/ focus = "formation" /\ StructNext /\ UNCHANGED memoryVars

MCSpec == MCInit /\ [][MCNext]_<<memoryVars, structVars, focus>>
=============================================================================
