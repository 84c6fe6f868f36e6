---------------------------- MODULE SchemaReload ----------------------------
(***************************************************************************)
(* The REST schema cache and the task that reloads it                      *)
(* (postrust-server: AppState, spawn_schema_reloader; the guards the       *)
(* engine takes for a request).                                            *)
(*                                                                         *)
(* The cache stands behind tokio's RwLock, which serves its waiters in the *)
(* order they came: a reader that arrives behind a waiting writer waits    *)
(* too.  A migration changes the catalog and notifies in one transaction.  *)
(* A reload reads the catalog in two halves, as a READ COMMITTED           *)
(* transaction may see it, before it asks for the lock.                    *)
(***************************************************************************)
EXTENDS Integers, Sequences, FiniteSets

CONSTANTS
    Requests,       \* requests in flight
    Guards,         \* read guards a request takes, one after another
    MaxMigrations,  \* bound on migrations
    MaxFailures     \* bound on lost connections and failed loads

ASSUME ReloadAssumption == Guards \in Nat \ {0} /\ MaxMigrations \in Nat /\ MaxFailures \in Nat

Reloader == "reloader"
ASSUME ReloaderIsNoRequest == Reloader \notin Requests

VARIABLES
    catalog,    \* how many migrations have been committed
    cache,      \* the migration each half of the cache was read after
    link,       \* "down", "connected" or "listening"
    inbox,      \* notifications the listener holds
    missed,     \* history: a migration since the last reload was told to nobody, or its reload failed
    failures,
    reload,     \* where the reloader is
    loaded,     \* what it has read
    readers,    \* who holds a read guard
    waiters,    \* who waits for the lock, in order
    request,    \* where each request is
    taken,      \* guards each has taken
    saw         \* history: the cache each request saw last

reloadVars == <<catalog, cache, link, inbox, missed, failures, reload, loaded, readers, waiters, request, taken, saw>>

Versions == [tables : Nat, rest : Nat]
RequestPlaces == {"ready", "waiting", "holding", "running", "answered"}
ReloadPlaces == {"receive", "load", "load_rest", "lock", "waiting", "logging", "log_waiting", "log_holding"}

ReloadTypeOK ==
    /\ catalog \in Nat /\ cache \in Versions /\ loaded \in Versions
    /\ link \in {"down", "connected", "listening"} /\ inbox \in Nat
    /\ missed \in BOOLEAN /\ failures \in Nat
    /\ reload \in ReloadPlaces
    /\ readers \subseteq Requests \cup {Reloader}
    /\ waiters \in Seq(Requests \cup {Reloader})
    /\ request \in [Requests -> RequestPlaces]
    /\ taken \in [Requests -> Nat]
    /\ saw \in [Requests -> Versions]

At(n) == [tables |-> n, rest |-> n]

ReloadInit ==
    /\ catalog = 0 /\ cache = At(0) /\ loaded = At(0)
    /\ link = "down" /\ inbox = 0 /\ missed = FALSE /\ failures = 0
    /\ reload = "receive" /\ readers = {} /\ waiters = <<>>
    /\ request = [r \in Requests |-> "ready"]
    /\ taken = [r \in Requests |-> 0]
    /\ saw = [r \in Requests |-> At(0)]

(***************************************************************************)
(* The database and the listening connection                               *)
(***************************************************************************)
Migrate ==
    /\ catalog < MaxMigrations
    /\ catalog' = catalog + 1
    /\ IF link = "listening" THEN inbox' = inbox + 1 /\ UNCHANGED missed
       ELSE missed' = TRUE /\ UNCHANGED inbox
    /\ UNCHANGED <<cache, link, failures, reload, loaded, readers, waiters, request, taken, saw>>

Connect ==
    /\ link = "down" /\ reload = "receive"
    /\ link' = "connected"
    /\ UNCHANGED <<catalog, cache, inbox, missed, failures, reload, loaded, readers, waiters, request, taken, saw>>

Listen ==
    /\ link = "connected"
    /\ link' = "listening"
    /\ UNCHANGED <<catalog, cache, inbox, missed, failures, reload, loaded, readers, waiters, request, taken, saw>>

\* It may break while a reload is under way.  What it had not handed over is
\* gone, and nothing is reloaded on reconnecting.
LoseConnection ==
    /\ link # "down" /\ failures < MaxFailures
    /\ link' = "down" /\ inbox' = 0
    /\ missed' = (missed \/ inbox > 0)
    /\ failures' = failures + 1
    /\ UNCHANGED <<catalog, cache, reload, loaded, readers, waiters, request, taken, saw>>

(***************************************************************************)
(* The reloader                                                            *)
(***************************************************************************)
Receive ==
    /\ reload = "receive" /\ link = "listening" /\ inbox > 0
    /\ inbox' = inbox - 1
    /\ reload' = "load"
    /\ UNCHANGED <<catalog, cache, link, missed, failures, loaded, readers, waiters, request, taken, saw>>

\* Every migration committed by now is in the half that is read now, whether
\* or not its notification was heard.
LoadTables ==
    /\ reload = "load"
    /\ loaded' = [loaded EXCEPT !.tables = catalog]
    /\ missed' = FALSE
    /\ reload' = "load_rest"
    /\ UNCHANGED <<catalog, cache, link, inbox, failures, readers, waiters, request, taken, saw>>

LoadRest ==
    /\ reload = "load_rest"
    /\ loaded' = [loaded EXCEPT !.rest = catalog]
    /\ reload' = "lock"
    /\ UNCHANGED <<catalog, cache, link, inbox, missed, failures, readers, waiters, request, taken, saw>>

\* The old cache is kept, and the next notification tries again.
LoadFails ==
    /\ reload \in {"load", "load_rest"} /\ failures < MaxFailures
    /\ failures' = failures + 1
    /\ missed' = TRUE
    /\ reload' = "receive"
    /\ UNCHANGED <<catalog, cache, link, inbox, loaded, readers, waiters, request, taken, saw>>

AskToWrite ==
    /\ reload = "lock"
    /\ waiters' = Append(waiters, Reloader)
    /\ reload' = "waiting"
    /\ UNCHANGED <<catalog, cache, link, inbox, missed, failures, loaded, readers, request, taken, saw>>

\* The write guard is granted, used and dropped without a wait in between.
Install ==
    /\ reload = "waiting" /\ waiters # <<>> /\ Head(waiters) = Reloader /\ readers = {}
    /\ waiters' = Tail(waiters)
    /\ cache' = loaded
    /\ reload' = "logging"
    /\ UNCHANGED <<catalog, link, inbox, missed, failures, loaded, readers, request, taken, saw>>

\* The summary it logs is read under a guard like anyone's.
AskToLog ==
    /\ reload = "logging"
    /\ waiters' = Append(waiters, Reloader)
    /\ reload' = "log_waiting"
    /\ UNCHANGED <<catalog, cache, link, inbox, missed, failures, loaded, readers, request, taken, saw>>

LogGranted ==
    /\ reload = "log_waiting" /\ waiters # <<>> /\ Head(waiters) = Reloader
    /\ waiters' = Tail(waiters) /\ readers' = readers \cup {Reloader}
    /\ reload' = "log_holding"
    /\ UNCHANGED <<catalog, cache, link, inbox, missed, failures, loaded, request, taken, saw>>

\* Mutant: notifications that came meanwhile are taken as answered.
LoggedAndDrained ==
    /\ reload = "log_holding"
    /\ readers' = readers \ {Reloader}
    /\ reload' = "receive" /\ inbox' = 0
    /\ UNCHANGED <<catalog, cache, link, missed, failures, loaded, waiters, request, taken, saw>>

Logged ==
    /\ reload = "log_holding"
    /\ readers' = readers \ {Reloader}
    /\ reload' = "receive"
    /\ UNCHANGED <<catalog, cache, link, inbox, missed, failures, loaded, waiters, request, taken, saw>>

(***************************************************************************)
(* A request                                                               *)
(***************************************************************************)
AskToRead(r) ==
    /\ request[r] \in {"ready", "running"} /\ taken[r] < Guards
    /\ waiters' = Append(waiters, r)
    /\ request' = [request EXCEPT ![r] = "waiting"]
    /\ UNCHANGED <<catalog, cache, link, inbox, missed, failures, reload, loaded, readers, taken, saw>>

ReadGranted(r) ==
    /\ request[r] = "waiting" /\ waiters # <<>> /\ Head(waiters) = r
    /\ waiters' = Tail(waiters) /\ readers' = readers \cup {r}
    /\ request' = [request EXCEPT ![r] = "holding"]
    /\ taken' = [taken EXCEPT ![r] = @ + 1]
    /\ saw' = [saw EXCEPT ![r] = cache]
    /\ UNCHANGED <<catalog, cache, link, inbox, missed, failures, reload, loaded>>

\* Mutant: the guard is kept while the plan is executed.
KeepGuard(r) == readers' = IF taken[r] = Guards THEN readers \ {r} ELSE readers

\* The guard goes before the next thing is waited for.
DropGuard(r) == readers' = readers \ {r}

Release(r) ==
    /\ request[r] = "holding"
    /\ DropGuard(r)
    /\ request' = [request EXCEPT ![r] = "running"]
    /\ UNCHANGED <<catalog, cache, link, inbox, missed, failures, reload, loaded, waiters, taken, saw>>

\* A request may need fewer guards than it could take.
AnswerRequest(r) ==
    /\ request[r] = "running"
    /\ request' = [request EXCEPT ![r] = "answered"]
    /\ UNCHANGED <<catalog, cache, link, inbox, missed, failures, reload, loaded, readers, waiters, taken, saw>>

RequestStep(r) == AskToRead(r) \/ ReadGranted(r) \/ Release(r) \/ AnswerRequest(r)
ReloaderStep ==
    Connect \/ Listen \/ Receive \/ LoadTables \/ LoadRest \/ AskToWrite \/ Install \/ AskToLog \/ LogGranted \/ Logged

ReloadNext == Migrate \/ LoseConnection \/ LoadFails \/ ReloaderStep \/ \E r \in Requests : RequestStep(r)

ReloadSpec == ReloadInit /\ [][ReloadNext]_reloadVars

\* The runtime polls what is ready; the database answers what it is asked.
ReloadFairness == WF_reloadVars(ReloaderStep) /\ \A r \in Requests : WF_reloadVars(RequestStep(r))

(***************************************************************************)
(* Properties                                                              *)
(***************************************************************************)
\* spawn_schema_reloader: as long as some half of the cache is behind the
\* catalog, a notification is held, or a reload is under way that will read or
\* has read at least that; unless a migration was told to nobody, or the
\* reload it was told of failed.
StaleIsPending ==
    \/ missed \/ inbox > 0
    \/ reload \in {"load", "load_rest"}
    \/ reload \in {"lock", "waiting"} /\ loaded = At(catalog)
    \/ cache = At(catalog)

\* AppState::schema_cache: no request ever sees the cache go back, across the
\* guards it takes.
NeverBack ==
    /\ cache'.tables >= cache.tables /\ cache'.rest >= cache.rest
    /\ \A r \in Requests : saw'[r].tables >= saw[r].tables /\ saw'[r].rest >= saw[r].rest

\* process_request and execute_plan: every request is answered, however
\* reloads and other requests fall between the guards it takes.
EveryRequestAnswered == \A r \in Requests : <>(request[r] = "answered")

\* The cache ends up as the catalog is, unless a migration was missed.
CatchesUp == <>[](missed \/ cache = At(catalog))

\* The cache only moves towards the catalog, and never stops short of it while
\* a migration is unread; it starts level with it.
CacheFollowsCatalog == [][StaleIsPending' /\ NeverBack]_reloadVars

\* Requests and reloads do not wait for each other for ever.
ReloadEnds == EveryRequestAnswered /\ CatchesUp
=============================================================================
