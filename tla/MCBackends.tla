---------------------------- MODULE MCBackends ----------------------------
(***************************************************************************)
(* Delegated Runs for TLC, over either backend.  A behaviour is about one  *)
(* part of what can happen:                                                *)
(*   "handlers"  the database before any deadline has passed;              *)
(*   "sweeper"   the database with one handler at a time in `complete';    *)
(*   "memory"    the Memory backend;                                       *)
(*   "all"       the database without these restrictions.                  *)
(***************************************************************************)
EXTENDS MCDelegatedRuns, MemoryRuns

CONSTANT Parts
VARIABLE part

OneHandler == \A j, k \in Workers : txn[j] # None /\ txn[k] # None => j = k

MCInit == part \in Parts /\ Init

MCNext ==
  /\ part' = part
  /\ \/ part = "handlers" /\ Next /\ now' = now
     \/ part = "sweeper" /\ Next /\ OneHandler'
     \/ part = "memory" /\ MemNext
     \/ part = "all" /\ Next

MCSpec == MCInit /\ [][MCNext]_<<vars, part>>

(* With the Memory backend each Turn is decided once (TurnsAreDecidedOnce). *)
DecidedOnceInMemory ==
  /\ \A t \in Turns : Lifecycle(t)!Init
  /\ [][part = "memory" => DecidesOnce]_<<vars, part>>
=============================================================================
