----------------------------- MODULE ProxyAdmin -----------------------------
(***************************************************************************)
(* admin/api.rs and config/database.rs: routes and upstreams in the        *)
(* running configuration and in the database.  A change is computed from a *)
(* snapshot, saved, and then put into the running configuration, under a   *)
(* lock taken only for that last step.                                     *)
(***************************************************************************)
EXTENDS Naturals, FiniteSets

CONSTANTS
  AdminIds,      \* the ids of routes and upstreams
  Upstreams,     \* those that are upstreams
  Names,         \* names a request may give
  FileNames,     \* names the config file declares, without an id
  Backends,      \* addresses of backends
  AdminCallers,  \* concurrent requests
  MaxCalls,      \* bound: requests made
  MaxStarts      \* bound: restarts

ASSUME AdminAssumption ==
  /\ AdminIds # {} /\ Upstreams \subseteq AdminIds
  /\ MaxCalls \in Nat /\ MaxStarts \in Nat

VARIABLES
  persist,       \* server.database_config, with a database to reach
  running,       \* ProxyState.config: what has an id
  table,         \* proxy_routes, proxy_upstreams and proxy_upstream_backends
  call,          \* the handlers under way
  calls, starts,
  up,            \* the process serves
  raced          \* history: ids two handlers worked on at once, or whose save had no answer

adminVars == <<persist, running, table, call, calls, starts, up, raced>>

Absent == [name |-> "", body |-> 0, backends |-> {}]
Kind(i) == i \in Upstreams
NoCall == [pc |-> "idle", op |-> "none", id |-> CHOOSE i \in AdminIds : TRUE, val |-> Absent, status |-> 0]

AdminInit ==
  /\ persist \in BOOLEAN
  /\ running \in {[i \in AdminIds |-> Absent]}
                 \cup {[i \in AdminIds |-> IF i = u THEN [name |-> n, body |-> 0, backends |-> {b}] ELSE Absent] :
                       u \in Upstreams, n \in Names \ FileNames, b \in Backends}
  /\ table = IF persist THEN running ELSE [i \in AdminIds |-> Absent]
  /\ call = [c \in AdminCallers |-> NoCall]
  /\ calls = 0 /\ starts = 0 /\ up = TRUE /\ raced = {}

InFlight(i) == {c \in AdminCallers : call[c].pc # "idle" /\ call[c].id = i}

\* The handler's first half: a snapshot under the read lock, and the value it
\* means to store.  An id is fresh for a create; a PUT of an upstream leaves
\* its backends alone.
Begin(c, op, i, val) ==
  /\ up /\ call[c].pc = "idle" /\ calls < MaxCalls
  /\ calls' = calls + 1
  /\ call' = [call EXCEPT ![c] = [pc |-> "save", op |-> op, id |-> i, val |-> val, status |-> 0]]
  /\ raced' = IF InFlight(i) = {} THEN raced ELSE raced \cup {i}
  /\ UNCHANGED <<persist, running, table, starts, up>>

NotFound(c) ==
  /\ up /\ call[c].pc = "idle" /\ calls < MaxCalls /\ calls' = calls + 1
  /\ call' = [call EXCEPT ![c] = [NoCall EXCEPT !.status = 404]]
  /\ UNCHANGED <<persist, running, table, starts, up, raced>>

Used(i) == running[i] # Absent \/ table[i] # Absent \/ InFlight(i) # {}

Create(c) ==
  \E i \in AdminIds, n \in Names, bs \in SUBSET Backends :
    /\ ~Used(i) /\ (bs = {} \/ Kind(i))
    /\ Begin(c, "create", i, [name |-> n, body |-> calls + 1, backends |-> bs])

Update(c) ==
  \E i \in AdminIds, n \in Names :
    \/ running[i] = Absent /\ NotFound(c)
    \/ running[i] # Absent /\ Begin(c, "replace", i, [running[i] EXCEPT !.name = n, !.body = calls + 1])

Delete(c) ==
  \E i \in AdminIds :
    \/ running[i] = Absent /\ NotFound(c)
    \/ running[i] # Absent /\ Begin(c, "delete", i, Absent)

AddBackend(c) ==
  \E i \in Upstreams, b \in Backends :
    \/ running[i] = Absent /\ NotFound(c)
    \/ running[i] # Absent /\ Begin(c, "replace", i, [running[i] EXCEPT !.backends = @ \cup {b}])

RemoveBackend(c) ==
  \E i \in Upstreams, b \in Backends :
    \/ (running[i] = Absent \/ b \notin running[i].backends) /\ NotFound(c)
    \/ running[i] # Absent /\ b \in running[i].backends
       /\ Begin(c, "replace", i, [running[i] EXCEPT !.backends = @ \ {b}])

(***************************************************************************)
(* Write-through                                                           *)
(***************************************************************************)
\* Mutant: the backends that were there stay.
UpsertBackends(old, new) == [new EXCEPT !.backends = IF new = Absent THEN {} ELSE @ \cup old.backends]

\* save_upstream's one transaction: the row, its backends deleted, and the set
\* it was given; save_route's upsert; a delete cascades.
SavedRow(old, new) == new

\* The names are unique in each table.
NameTaken(i, val) ==
  val # Absent /\ \E j \in AdminIds \ {i} : Kind(j) = Kind(i) /\ table[j].name = val.name

Saved(c) == LET i == call[c].id IN [table EXCEPT ![i] = SavedRow(@, call[c].val)]
Respond(c, status) == [call EXCEPT ![c] = [NoCall EXCEPT !.status = status]]

\* persistence_failed: refused, not reached, or done without an answer.
SaveFails(c) ==
  /\ call' = Respond(c, 500)
  /\ \/ UNCHANGED <<table, raced>>
     \/ ~NameTaken(call[c].id, call[c].val) /\ table' = Saved(c) /\ raced' = raced \cup {call[c].id}

Save(c) ==
  /\ up /\ call[c].pc = "save"
  /\ \/ /\ ~persist /\ call' = [call EXCEPT ![c].pc = "apply"] /\ UNCHANGED <<table, raced>>
     \/ /\ persist /\ ~NameTaken(call[c].id, call[c].val)
        /\ table' = Saved(c) /\ call' = [call EXCEPT ![c].pc = "apply"] /\ UNCHANGED raced
     \/ persist /\ SaveFails(c)
  /\ UNCHANGED <<persist, running, calls, starts, up>>

\* The second half, under the write lock: a replacement of what was removed
\* meanwhile is a conflict.
Apply(c) ==
  /\ up /\ call[c].pc = "apply"
  /\ LET i == call[c].id
         gone == call[c].op = "replace" /\ running[i] = Absent
     IN /\ running' = IF gone THEN running ELSE [running EXCEPT ![i] = call[c].val]
        /\ call' = Respond(c, IF gone THEN 409 ELSE IF call[c].op = "create" THEN 201 ELSE 200)
  /\ UNCHANGED <<persist, table, calls, starts, up, raced>>

(***************************************************************************)
(* Start-up: load_from_database and merge_from_database                    *)
(***************************************************************************)
Clash == \E i \in AdminIds : table[i].name \in FileNames

Restart ==
  /\ starts < MaxStarts /\ starts' = starts + 1
  /\ up' = ~(persist /\ Clash)
  /\ running' = IF persist /\ up' THEN table ELSE [i \in AdminIds |-> Absent]
  /\ call' = [c \in AdminCallers |-> NoCall] /\ raced' = {}
  /\ UNCHANGED <<persist, table, calls>>

AdminNext ==
  \/ \E c \in AdminCallers :
       Create(c) \/ Update(c) \/ Delete(c) \/ AddBackend(c) \/ RemoveBackend(c) \/ Save(c) \/ Apply(c)
  \/ Restart

AdminSpec == AdminInit /\ [][AdminNext]_adminVars

(***************************************************************************)
(* Properties                                                              *)
(***************************************************************************)
\* The variables of the admin API keep their types.
AdminTypeOK ==
  LET Val == [name : Names \cup {""}, body : 0..MaxCalls, backends : SUBSET Backends]
  IN /\ running \in [AdminIds -> Val] /\ table \in [AdminIds -> Val]
     /\ \A c \in AdminCallers : call[c].val \in Val /\ call[c].id \in AdminIds
     /\ raced \subseteq AdminIds

\* What is configured is what is stored: for every id no two handlers worked
\* on at once, whatever failed, once no handler is between its two writes
\* ("Mutations write through to the database before touching the running
\* config, and return 500 if they cannot").
AgreesWhenAlone ==
  persist /\ up => \A i \in AdminIds \ raced : InFlight(i) = {} => running[i] = table[i]

\* A restart that comes up gives back every route and upstream as it was last
\* answered, again for the ids handlers did not race on.
RestartKeepsAnswered ==
  starts' # starts /\ up /\ up' /\ persist =>
    \A i \in AdminIds \ raced : InFlight(i) = {} => running'[i] = running[i]

\* What was answered is kept: it is what runs and what is stored, and what a
\* restart brings back, for every id no two handlers worked on at once; Init is
\* a start-up, where the two agree.
AnsweredIsKept == [][AgreesWhenAlone' /\ RestartKeepsAnswered]_adminVars
=============================================================================
