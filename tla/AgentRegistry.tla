--------------------------- MODULE AgentRegistry ---------------------------
(***************************************************************************)
(* Agent definitions: rows with a revision, an audit record for every      *)
(* change a host makes, and in every process a copy of the registry that   *)
(* routing reads.  Hosts change a definition on the condition that it      *)
(* still has the revision they read; the admin API reads and writes        *)
(* without one.  After a change a request reloads its process's copy, from *)
(* the database or, when configured, from the registry file.               *)
(*                                                                         *)
(* What a definition says is the number of the write that made it (0: the  *)
(* file); access policies belong to Routing.                               *)
(***************************************************************************)
EXTENDS Naturals

CONSTANTS
    AgentId,         \* agent_id
    FileAgents,    \* the agents of the registry file
    Asker,       \* requests
    Process,       \* processes that serve them
    RegistryCasts, \* bound: the process of each handler, the requests made, whether they
                   \* come one by one, the repository, registry_backend,
                   \* registry_file_fallback_on_empty, a readable file, database
                   \* outages; a behaviour has one cast
    MaxWrites,     \* bound: writes
    MaxRequests    \* bound: requests

HostOps == {"create", "update", "enable", "disable", "delete"}
AdminOps == {"upsert", "set_enabled", "remove"}

ASSUME RegistryAssumption ==
    /\ FileAgents \subseteq AgentId
    /\ RegistryCasts \subseteq
           [ops : SUBSET (HostOps \cup AdminOps \cup {"list", "reload"}), serial : BOOLEAN,
            repo : {"database", "memory"}, backend : {"file", "database", "hybrid"},
            fallback : BOOLEAN, file : BOOLEAN, outages : BOOLEAN, at : [Asker -> Process]]
    /\ MaxWrites \in Nat /\ MaxRequests \in Nat

VARIABLES
    setup,   \* the cast of this behaviour
    defs,    \* agent_definitions
    trail,   \* the last registry_revisions record of an agent: what it left
    foreign, \* agents the admin API wrote, which keeps no records
    copies,  \* RegistryState of a process
    asks,    \* what a request is doing
    up,      \* the database answers
    nWrites, nAsks

regVars == <<setup, defs, trail, foreign, copies, asks, up, nWrites, nAsks>>

NoDef == [rev |-> 0, w |-> 0, here |-> FALSE]
NoAsk == [at |-> "idle"]
NoDefs == [a \in AgentId |-> NoDef]
FileDefs == [a \in AgentId |-> IF a \in FileAgents THEN [rev |-> 0, w |-> 0, here |-> TRUE] ELSE NoDef]
Known(d) == {a \in AgentId : d[a] # NoDef}

RegInit ==
    /\ setup \in RegistryCasts
    /\ defs = NoDefs /\ trail = NoDefs /\ foreign = {}
    /\ copies = [p \in Process |-> [status |-> "error", source |-> "none", agents |-> NoDefs]]
    /\ asks = [h \in Asker |-> NoAsk]
    /\ up = TRUE /\ nWrites = 0 /\ nAsks = 0

Ask(h, op, a) ==
    /\ asks[h].at = "idle" /\ op \in setup.ops /\ nAsks < MaxRequests
    /\ setup.serial => \A g \in Asker : asks[g].at = "idle"
    /\ nAsks' = nAsks + 1
    /\ asks' = [asks EXCEPT ![h] = [at |-> "start", op |-> op, agent |-> a, base |-> NoDef,
                                    got |-> NoDefs, ok |-> TRUE]]
    /\ UNCHANGED <<setup, defs, trail, foreign, copies, up, nWrites>>

Leaves(h) == asks' = [asks EXCEPT ![h] = NoAsk]
Goes(h, at) == asks' = [asks EXCEPT ![h].at = at]

----------------------------------------------------------------------------
(* Loading the copy *)

\* The state a load leaves, from the rows it read or from its failure to read
\* them; "raise" leaves an exception to the caller.
LoadFile(status, old) ==
    IF setup.file THEN [raise |-> FALSE, state |-> [status |-> status, source |-> "file", agents |-> FileDefs]]
    ELSE [raise |-> TRUE, state |-> old]
LoadDatabase(ok, got, old) ==
    CASE ~ok -> [raise |-> TRUE, state |-> [status |-> "error", source |-> "database", agents |-> NoDefs]]
      [] ok /\ Known(got) = {} /\ setup.fallback -> LoadFile("degraded", old)
      [] OTHER -> [raise |-> FALSE, state |-> [status |-> "ok", source |-> "database", agents |-> got]]
LoadHybrid(ok, got, old) ==
    CASE ok -> LoadDatabase(ok, got, old)
      [] ~ok /\ setup.file -> LoadFile("degraded", old)
      [] OTHER -> [raise |-> TRUE, state |-> [status |-> "error", source |-> "none", agents |-> NoDefs]]
Load(ok, got, old) ==
    CASE setup.backend = "file" -> LoadFile("ok", old)
      [] setup.backend = "database" -> LoadDatabase(ok, got, old)
      [] setup.backend = "hybrid" -> LoadHybrid(ok, got, old)

\* repository.list, and what the caller does with the answer, are two steps:
\* the copy a request stores was read before.
ReadAll(h) ==
    /\ asks[h].at \in {"load", "first"}
    /\ asks' = [asks EXCEPT ![h].at = IF @ = "load" THEN "store" ELSE "look", ![h].got = defs,
                           ![h].ok = up]
    /\ UNCHANGED <<setup, defs, trail, foreign, copies, up, nWrites, nAsks>>

\* A host creates what is not there and changes what is.
Chooses(h, current) ==
    IF (asks[h].op = "create") = (current # NoDef) THEN Leaves(h)
    ELSE asks' = [asks EXCEPT ![h].at = "mutate", ![h].base = current]

\* A request that loaded at its end leaves; a host that loaded first looks into
\* the copy it has just stored.
StoreCopy(h) ==
    LET p == setup.at[h]
        load == Load(asks[h].ok, asks[h].got, copies[p])
    IN  /\ asks[h].at \in {"store", "look"}
        /\ copies' = [copies EXCEPT ![p] = load.state]
        /\ IF asks[h].at = "look" /\ ~load.raise THEN Chooses(h, load.state.agents[asks[h].agent])
           ELSE Leaves(h)
        /\ UNCHANGED <<setup, defs, trail, foreign, up, nWrites, nAsks>>

\* A listing loads only when the copy is empty.
ListAgents(h) ==
    /\ asks[h].at = "start" /\ asks[h].op = "list"
    /\ IF Known(copies[setup.at[h]].agents) = {} THEN Goes(h, "load") ELSE Leaves(h)
    /\ UNCHANGED <<setup, defs, trail, foreign, copies, up, nWrites, nAsks>>
AdminReload(h) ==
    /\ asks[h].at = "start" /\ asks[h].op = "reload"
    /\ Goes(h, "load")
    /\ UNCHANGED <<setup, defs, trail, foreign, copies, up, nWrites, nAsks>>

----------------------------------------------------------------------------
(* Changes of a host *)

\* get_definition: the row when the copy came from the database, else the copy.
Definition(h) ==
    LET copy == copies[setup.at[h]]
    IN  IF copy.source = "database" THEN defs[asks[h].agent] ELSE copy.agents[asks[h].agent]

\* An empty copy is loaded first.
HostReads(h) ==
    LET copy == copies[setup.at[h]]
    IN  /\ asks[h].at = "start" /\ asks[h].op \in HostOps
        /\ copy.source = "database" => up
        /\ IF copy.source # "database" /\ Known(copy.agents) = {} THEN Goes(h, "first")
           ELSE Chooses(h, Definition(h))
        /\ UNCHANGED <<setup, defs, trail, foreign, copies, up, nWrites, nAsks>>

\* Mutant of Accepts: the revision is not compared.
AcceptsAny(op, base, row) == (op = "create") = (row = NoDef)
\* The conditions of mutate, under the row's lock.  Two creations meet at the
\* unique agent_id.
Accepts(op, base, row) ==
    /\ row.rev = base.rev
    /\ (op = "create") = (row = NoDef)

\* The definition a change leaves.
Changed(op, row) ==
    IF op = "delete" THEN NoDef ELSE [rev |-> row.rev + 1, w |-> nWrites + 1, here |-> TRUE]

\* One transaction changes the row and adds the record; then the copy is reloaded.
Mutate(h) ==
    LET op == asks[h].op
        a == asks[h].agent
    IN  /\ asks[h].at = "mutate"
        /\ IF up /\ setup.backend # "file" /\ Accepts(op, asks[h].base, defs[a])
           THEN /\ nWrites < MaxWrites /\ nWrites' = nWrites + 1
                /\ defs' = [defs EXCEPT ![a] = Changed(op, @)]
                /\ trail' = [trail EXCEPT ![a] = Changed(op, defs[a])]
                /\ Goes(h, "load")
           ELSE Leaves(h) /\ UNCHANGED <<defs, trail, nWrites>>
        /\ UNCHANGED <<setup, foreign, copies, up, nAsks>>

----------------------------------------------------------------------------
(* Changes through the admin API: no revision is given, none is compared *)

\* The database reads the row and writes it in one transaction, without a lock.
AdminReads(h) ==
    /\ asks[h].at = "start" /\ asks[h].op \in {"upsert", "set_enabled"}
    /\ setup.repo = "database" /\ up /\ setup.backend # "file"
    /\ IF asks[h].op # "upsert" /\ defs[asks[h].agent] = NoDef THEN Goes(h, "load")
       ELSE asks' = [asks EXCEPT ![h].at = "write", ![h].base = defs[asks[h].agent]]
    /\ UNCHANGED <<setup, defs, trail, foreign, copies, up, nWrites, nAsks>>

AdminStores(h, base) ==
    LET a == asks[h].agent IN
    /\ nWrites < MaxWrites /\ nWrites' = nWrites + 1
    /\ defs' = [defs EXCEPT ![a] = [rev |-> base.rev + 1, w |-> nWrites + 1, here |-> TRUE]]
    /\ foreign' = foreign \cup {a}
    /\ Goes(h, "load")
    /\ UNCHANGED <<setup, trail, copies, up, nAsks>>

\* An insert that finds the row there, or an update that finds it gone, fails.
AdminWrites(h) ==
    /\ asks[h].at = "write"
    /\ IF up /\ ((asks[h].base = NoDef) = (defs[asks[h].agent] = NoDef))
       THEN AdminStores(h, asks[h].base)
       ELSE Leaves(h) /\ UNCHANGED <<setup, defs, trail, foreign, copies, up, nWrites, nAsks>>

\* The Memory repository changes its dict in one step.
AdminWritesInMemory(h) ==
    /\ asks[h].at = "start" /\ asks[h].op \in {"upsert", "set_enabled"}
    /\ setup.repo = "memory" /\ setup.backend # "file"
    /\ IF asks[h].op # "upsert" /\ defs[asks[h].agent] = NoDef
       THEN Goes(h, "load") /\ UNCHANGED <<setup, defs, trail, foreign, copies, up, nWrites, nAsks>>
       ELSE AdminStores(h, defs[asks[h].agent])

\* Mutant of AdminRemoves: the copy is not reloaded.
AdminRemovesOnly(h) ==
    /\ asks[h].at = "start" /\ asks[h].op = "remove" /\ up /\ setup.backend # "file"
    /\ defs' = [defs EXCEPT ![asks[h].agent] = NoDef]
    /\ foreign' = foreign \cup {asks[h].agent}
    /\ Leaves(h)
    /\ UNCHANGED <<setup, trail, copies, up, nWrites, nAsks>>
AdminRemoves(h) ==
    /\ asks[h].at = "start" /\ asks[h].op = "remove" /\ up /\ setup.backend # "file"
    /\ defs' = [defs EXCEPT ![asks[h].agent] = NoDef]
    /\ foreign' = foreign \cup {asks[h].agent}
    /\ Goes(h, "load")
    /\ UNCHANGED <<setup, trail, copies, up, nWrites, nAsks>>

\* A request that cannot reach the database, or may not write, is answered
\* with an error.
AskFails(h) ==
    /\ asks[h].at = "start" /\ asks[h].op \in HostOps \cup AdminOps
    /\ \/ asks[h].op \in AdminOps /\ (setup.backend = "file" \/ ~up)
       \/ asks[h].op \in HostOps /\ copies[setup.at[h]].source = "database" /\ ~up
    /\ Leaves(h)
    /\ UNCHANGED <<setup, defs, trail, foreign, copies, up, nWrites, nAsks>>

Outage ==
    /\ setup.outages
    /\ up' = ~up
    /\ UNCHANGED <<setup, defs, trail, foreign, copies, asks, nWrites, nAsks>>

RegNext ==
    \/ \E h \in Asker :
          \/ \E op \in setup.ops, a \in AgentId : Ask(h, op, a)
          \/ ReadAll(h) \/ StoreCopy(h) \/ ListAgents(h) \/ AdminReload(h)
          \/ HostReads(h) \/ Mutate(h)
          \/ AdminReads(h) \/ AdminWrites(h) \/ AdminWritesInMemory(h) \/ AdminRemoves(h)
          \/ AskFails(h)
    \/ Outage

RegSpec == RegInit /\ [][RegNext]_regVars

----------------------------------------------------------------------------
(* Properties *)

\* An agent that only hosts changed is what its last audit record says, gone
\* agents included.
TrailExplains == \A a \in AgentId \ foreign : trail[a] = defs[a]

\* Requests one by one: when none is open, a copy that says "ok" is what the
\* database holds, whatever was changed, listed, reloaded or fell back to the
\* file before.  (When the last agent is gone and the file to fall back to
\* cannot be read, the load raises and the copy keeps what it held.)
QuietCopyIsCurrent ==
    (setup.serial /\ (setup.fallback => setup.file) /\ (\A p, q \in Process : p = q)
        /\ \A h \in Asker : asks[h].at = "idle") =>
        \A p \in Process : (copies[p].status = "ok" /\ copies[p].source = "database")
                               => copies[p].agents = defs

\* Rows, records and copies of the registry tell the same.
RegistryAgrees == TrailExplains /\ QuietCopyIsCurrent

\* "concurrent edits do not silently overwrite" (REG-009): a host change
\* replaces the definition it was based on.
EditsBuildOnTheirBase ==
    [][\A h \in Asker, a \in AgentId :
          (asks[h].at = "mutate" /\ asks'[h].at = "load" /\ asks[h].agent = a)
              => defs[a].w = asks[h].base.w]_regVars
\* As long as the admin API writes nothing and no agent comes back.
EditsBuildOnTheirBaseHere ==
    [][\A h \in Asker, a \in AgentId :
          (asks[h].at = "mutate" /\ asks'[h].at = "load" /\ asks[h].agent = a
              /\ setup.ops \cap ({"delete"} \cup AdminOps) = {})
              => defs[a].w = asks[h].base.w]_regVars
=============================================================================
