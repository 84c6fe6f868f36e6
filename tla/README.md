# A TLA+ verification project for postrust

postrust serves a PostgreSQL database over REST and GraphQL, and ships a reverse
proxy that terminates TLS for its users' custom domains. This directory holds
TLA+ models of the system, the TLC configurations that check them on small
instances, and TLAPS proofs for every size of instance.

Paths below are relative to `src/`. `PROJECT.json` names, for every definition
that models code, the source lines it stands for (`map`); every component with its
status (`components`); and every place that is hard to test, with the properties
about it (`hazards`).

## 1. The system

| Component | Sources (`crates/…`) | State it keeps | Operations | Module |
|---|---|---|---|---|
| Issuance worker | `postrust-proxy/src/saas/ssl.rs`, `tls/acme.rs` | rows of `proxy_domains`, `proxy_acme_challenges` | `run`, `tick`, `claim_next`, `reclaim_abandoned`, `mark_renewals`, `mark_active`, `mark_failed`, one ACME order | `SslIssuance` |
| Tenants' API | `saas/manager.rs`, `saas/db.rs`, `saas/auth.rs`, `saas/handlers/` | tenants, keys, domains, challenges, routes, upstreams | create, verify, update, delete, upload a certificate | `TenantApi`, `SslIssuance` |
| Certificate store, SNI | `tls/cert_store.rs`, `tls/sni.rs` | `proxy_certificates`, files, a map, the served keys | `save`, `get`, `remove`, `load_all`, refresh, handshake | `CertStore` |
| Proxy configuration | `admin/api.rs`, `config/` | the running configuration, its database rows | add, change and remove routes, upstreams, backends; start | `ProxyAdmin` |
| Proxy traffic | `vendored/`, `ratelimit/`, `health/` | buckets, round-robin pointers, health, tunnels | match, limit, choose, rewrite, forward, splice, check | `ProxyMessage`, `ProxyTraffic` |
| Database interface | `postrust-core/src/db/mod.rs` | one transaction | `begin`, `execute`, `queue`, `fetch_*`, `commit` | `TxContract` |
| Pipelining driver | `postrust-core/src/db/socket.rs` | queue, statements sent, `RESULT_TYPES` | `send`, `fly`, `remember`, rerun | `SocketTx` |
| sqlx driver | `postrust-core/src/db/sqlx_impl.rs` | queue, a sqlx transaction | `flush`, `run` | `SqlxTx` |
| Schema cache | `postrust-core/src/schema_cache/`, `postrust-server/src/state.rs` | relationships; the cache behind a `RwLock` | derive, find, reload | `SchemaCache`, `SchemaReload` |
| Request parsing | `postrust-core/src/api_request/` | none | read the query string, headers and body | `QueryParse`, `RestRequest` |
| Planning and SQL | `postrust-core/src/plan/`, `query/`, `embed.rs`, `postrust-sql/` | none | plan a read, write or call; build its statement | `Planning`, `SqlBuild`, `Embed` |
| REST pipeline | `postrust-engine/src/handler.rs` | one request's transaction | authenticate, plan, run, check, commit, answer | `RestPipeline` |
| Authentication | `postrust-auth/`, `postrust-server/src/build.rs` | a cache of verified tokens; a socket's identity | verify, remember, choose the roles | `TokenCache`, `Identity` |
| GraphQL | `postrust-graphql/` | a schema per role; one mutation's transaction | build, read, write | `RoleSchema`, `GqlRead`, `GqlWrite` |
| Notifications, live queries | `postrust-graphql/src/subscription/`, `handler.rs` | `running`, a sender per channel, a stream per subscription | `start`, `stop`, `listen_channel`, `subscribe*`, `wake_on`, `live`, `read_live` | `NotifyBroker`, `LiveQuery` |
| HTTP adapter | `postrust-server/src/lenient_uri.rs` | the framing of a connection | encode request targets | `LenientUri` |

How they interact. An HTTP request is identified (`Identity`, through the token
cache), parsed, planned against the schema cache, and run as one transaction of the
database interface, which one of two drivers implements. GraphQL chooses the schema
of the caller's role first and then runs the fields of an operation on the same
interface. A subscription is a live query: it reads its answer, then reads
again when the broker, which listens on a PostgreSQL connection of its own, tells it
that a table changed, or when its refresh interval passes. In the proxy the API
handlers and the workers of *every* instance share nothing but database rows; the
certificate store also shares files and a map with the TLS handshake.

What is hard. Handlers that check in one statement and write in another; workers
that hold a row across minutes of network traffic with no lock; statements sent before
the answers of those in front of them, and sent again; caches filled from what was read
before a lock or a clock was; notifications nobody hears while a connection is down;
conditions, permissions and placeholders that have to survive four translations between
a URL and a statement; and the many ways to reach one set of rows that must agree.

## 2. Modules

```
PgSession ─┬─ SocketTx ─ MCSocketTx     NotifyBroker ─ LiveQuery ─ MCLiveQuery
           └─ SqlxTx ──────────┐
TxContract (INSTANCEd by both) │        SslIssuance ─ MCSslIssuance
TokenCache, SchemaReload,      ├─ MCServer
LenientUri ────────────────────┘        RestRequest ─ RestPipeline ─ MCRest
SchemaCache ─ Embed ───────────┬─ MCCore
SqlBuild, QueryParse, Planning ┘        ProxyMessage ─ ProxyTraffic ─ MCProxyTraffic
GqlRead ─ GqlWrite ────────────┬─ MCGraphql
RoleSchema, Identity ──────────┘        ProxyAdmin, CertStore, TenantApi ─ MCProxyControl
```

The proof modules extend what they are about: `SslIssuanceProofs`; `SocketTxProofs`;
`NotifyBrokerProofs` (the broker and `LiveQuery`); `RestPipelineProofs` (with `SchemaCache`);
`GraphqlProofs` (`Identity`, `RoleSchema`); `ServerProofs` (`TokenCache`, `SchemaReload`,
`LenientUri`, `SqlxTx`); `ProxyTrafficProofs`; `ProxyControlProofs` (`ProxyAdmin`, `CertStore`, `TenantApi`).

An `MC` module gives the constants of its run their values. Where it composes several
components a behaviour plays one *scene*, and the variables of the other
components stand still. Definitions headed *Mutant* or *Faulty variant* are plausible
bugs: putting one in the place of the definition it is a variant of makes TLC violate a
property (`PROJECT.json`, `mutants`), which shows that the property bites.

### SslIssuance: certificates for custom domains

One SQL statement is one step, since PostgreSQL makes it atomic; between two
statements of a handler anybody else may step, and a worker or a handler may be
cut off (`Interrupt`, `AbandonCall`). `rows` are the columns of
`proxy_domains` the queries read, `certs` the certificate rows, `challenges` the
published ACME responses, `worker` and `call` the local variables of the workers
and the handlers across their awaits. A row's life runs from unused through its
`INSERT` to its `DELETE`; a name can come back under a new id.

Time is relative: `age` counts ticks since `ssl_last_attempt_at` was stamped and
saturates at `MaxAge`, which is larger than every threshold the code compares it
with, so no case is lost by saturating. `disturbed` is a history variable: the
names whose row an API call took away from a running order. The model assumes
`OrderBound <= StuckAfter`, which is what the comment on `STUCK_AFTER` relies on:
an order, all its polls being bounded by `ORDER_TIMEOUT`, is over before its row
counts as abandoned. The CA and DNS are external: an order, a validation or a
check succeeds or fails at any point.

### TxContract, PgSession, SocketTx, SqlxTx: one transaction, two drivers

`TxContract` is what `Db` and `Tx` promise their callers, with no flights and no
queue: statements take effect in the order they were called, the first failure is
reported as that statement's own (and marked as a queued one's if it was), nothing
of a failed transaction becomes durable, and a commit makes exactly the statements
called durable. Where the connection breaks nothing is promised of a commit that
was on its way: it may have happened. `PgSession` is the server's side, external to the
repository: idle, open, aborted (25P02 for everything until the end) or closed.

`SocketTx` is `socket.rs`: `queued`, `sent` (kept for reruns), the flight from
`start` to `end`, the statements whose result types are known (`known`, the
process-wide `RESULT_TYPES` that empties itself at its limit), and the path
*masked error → remember → roll back → run everything since BEGIN again*, with
`send`'s bounded loop. `fault` says which statement fails and how: while it is
parsed, executed, or encoded on the client; `custom` which statement's results
need a type lookup. With `Transient = TRUE` a failure may pass between two runs,
as a lock or a serialization conflict does. `SqlxTx` is `sqlx_impl.rs` over the
same session.

### NotifyBroker, LiveQuery: notifications and subscriptions

`NotifyBroker` takes one channel. Each critical section of a lock is one step:
`start` is *check*, *mark*, *create the sender*, *connect and listen*;
`subscribe_or_create` is *look up* and *create*. Listener tasks loop through
*check the flag*, *wait*, *broadcast*. The broadcast channel is a count of unread
notifications that saturates at its capacity, which is what a receiver that
filters `Lagged` out can observe. `LiveQuery` composes streams with it: `table` is the
state a query reads, `live` each subscription's position in `wake_on`/`live`, what it
last read and last sent; `gap` marks the streams whose wake was lost with a connection
or before the broker was up, so that the refresh is all that is left to them.

### RestRequest, RestPipeline: a REST request

`RestRequest` is the pure part: what `parse_request` accepts, what
`create_action_plan` refuses, which rows the statement built from the plan reads or
writes, and the window, status and refusals of the response. A table is a function
from its keys to versions of rows, a filter the set of keys it accepts.
`RestPipeline` runs one request through `process_request` and `execute_plan`, one step per await:
token, body, role and settings, pre-request function, statement, count, checks,
formatting, commit, in the order the code has them (a read is committed before it is
formatted, a write after), with another transaction committing between any two steps,
a connection that breaks and a client that goes away. A failure drops the
transaction, which rolls it back.

### SchemaCache, Embed, SqlBuild, QueryParse, Planning: the core's translations

`SchemaCache` derives relationships from a catalog pass by pass (keys, their
way back, views over tables, junctions, junctions rerouted through views, computed
ones), and finds the one a request names. An entry keeps the pass that pushed it, so that
equal entries of two passes stay two, as in the code's lists. `Embed` gives every fragment an
`EmbedPlan` writes by the rows PostgreSQL answers it with, NULLs included.
`SqlBuild` keeps the statement as tokens, because the numbering of placeholders, the
shift past a wrapped statement, alias scopes and operator grouping are the point.
`QueryParse` has the grammars as recursive operators over lexemes, next to the writer a
client would use. `Planning` resolves overloads, builds arguments, conditions, columns
and the read-back of a write.

### GqlRead, GqlWrite, RoleSchema, Identity: GraphQL

`GqlRead` evaluates boolean expressions in SQL's three-valued logic, with the role's
filter at every place the code adds it, and gives a list, a row, an aggregate and an
embed by the rows selected. `GqlWrite` runs a mutation's fields in one transaction:
presets, nested inserts in dependency order, conflicts, the check after each
statement, and the commit decided by the whole answer. `RoleSchema` reduces the cache
to a role's grant, generates and registers types; a type that is named and not
registered fails the build. `Identity` is every decision between the headers of a
request and the two roles it is answered as, over HTTP and over a WebSocket.

### TokenCache, SchemaReload, LenientUri: what a server keeps

`TokenCache` has the mutex's two critical sections and the clock reads
between them as steps. `SchemaReload` has tokio's fair `RwLock` with its queue, a
catalog read in two halves by a READ COMMITTED transaction, notifications that arrive
on a connection that may be down, and requests that take their guards one after
another. `LenientUri` is the adapter's state machine over a connection cut into reads at
every place.

### ProxyMessage, ProxyTraffic, ProxyAdmin, CertStore, TenantApi: the proxy

`ProxyMessage` matches routes and rewrites headers. `ProxyTraffic` interleaves
requests between the accesses of `try_acquire_n` to its two words, the load and the store of
the round-robin pointer, the await of a health check and the two maps a registration
changes, and splices tunnels in both directions. `ProxyAdmin` is snapshot, save, lock
and replace, against other callers, saves that fail or are not answered, and a
restart. `CertStore` has one instance's database row, two files, map and served keys, and
another instance that writes the same database; a pair carries the serial of
its chain and of its key, so that a mixture shows. `TenantApi` gives a call as a program
of statements, each its own transaction.

## 3. Runs

Every run below passes, but for `ssl_inbox`, which shows a disagreement. A property
with parts is the conjunction of the definitions named after it; each part has its own
comment in its module.

**`ssl_safety`**: 2 workers, 1 caller, 1 id, orders of up to 2 ticks, 2 attempts.
An active domain has a stored certificate through uploads, deletion and
crashes (`ActiveHasCertificate`); a result lands on the row as it was claimed
(`ClaimHolds`); two orders for a name run only after an API call took the row
(`OneOrderPerName`); nobody deletes the challenge of an undisturbed order
(`ChallengeSurvives`).

**`ssl_liveness`**: 1 worker, 1 caller, 1 id. No ACME row stays provisioning for
ever (`ProvisioningEnds`); once users and failures are quiet, a queued row is issued or
runs out of attempts (`QueuedIsSettled`).

**`ssl_inbox`** (expected violation): the same instance and fairness. A pending ACME row
comes to be active or marked failed (`InboxIsWorked`): it is not, see section 5.

**`socket_contract`**: 1 transaction, 3 statements of 2 kinds, `RESULT_TYPES` of 1.
The pipelining driver implements `TxContract` (`ImplementsContract`, by a refinement
mapping), and, only because failures happen again in this instance (`Transient = FALSE`),
what is committed is the run whose answers the caller has (`AnswersStand`).

**`socket_two`**: 2 transactions of 2 statements sharing `RESULT_TYPES`, failures that
pass. What is committed is what was called, once and in order, and what the caller is
told of it is true (`OutcomeIsTrue`).

**`live`**, in two scenes, each with 2 notifications or writes, a stop, a lost connection
and channels that hold 1. The broker alone, with 2 starts, a `listen_channel` and 2
subscribers: the listeners that overlapping starts and stops leave behind do no harm
(`LeftoversAreHarmless`): no sender is replaced under an open stream (`SharedSender`), and a
stopped listener broadcasts at most once more (`AtMostOneLate`). The broker with 1 start and 2
live queries: an out-of-date subscription has a wake on its way, or the refresh owes it
one (`WakeOnTheWay`); once the table is left alone every open subscription holds its
answer, whatever the broker does (`Converges`).

**`rest`**: a table of 3 keys and one without a key, 3 functions, 5 configurations
(isolation, row limit, pre-request function, anonymous role), every method with the
filters, windows, preferences, accepted types, embeds and bodies the pipeline branches
on, and 1 concurrent write. A function, a trigger and a pre-request function each set
`response.status` (404) once: it is the answer's status, for a plain read too, over a
transaction that commits.
* `AnswerIsTrue`: a refused request has written nothing, wherever it was refused, unless
  the connection broke under its COMMIT (`RefusedWritesNothing`); a success was committed
  first (`SuccessIsCommitted`).
* `WritesAsAsked`: reads write nothing; privileges are the caller's, in the pre-request
  function too; PATCH, DELETE and PUT stay within the filters and the URL; no more rows
  than `max-affected`; one object asked for is one row changed (`ReadsWriteNothing`,
  `CallerPrivileges`, `WriteWithinFilter`, `MaxAffectedHolds`, `OneObjectOneRow`).
* `ResponseDescribesRows`: the page is the window asked for, and lies as reported within
  the total reported (`PageIsTheWindow`, `WindowWithinTotal`, the latter where no
  transaction commits in between or the isolation forbids it to show). Both leave out a page whose
  embed is tested for null, which the code trims after it has cut it; and where the
  pre-request function sets the status, it is that status and tells nothing of the window.

**`proxy_traffic`**: six kinds of scenario: one request of every message form; two requests
over three backends while a check runs; five health checks with registrations; three
requests on shared buckets with a clock that steps back; upgrade and CONNECT tunnels
of 3 frames; a configuration replaced while requests are on their way.
* `GrantsWithinRate`: a bucket never grants more than its capacity and what its rate brings.
* `HealthIsKept`: health changes at its thresholds, is not brought back by a late check, and a
  sick backend is chosen only when all are (`HealthFollowsRuns`, `NoHealthWithoutBackend`,
  `SickOnlyWhenAllAre`).
* `ForwardedClean`: no hop-by-hop header passes but the pair of an upgrade, and the client
  is last in `X-Forwarded-For` whatever it put in `Connection`.
* `ExchangesEnd`: every request is answered, a tunnel with two closed ends is torn
  down, and a closed tunnel delivered everything (`EventuallyAnswered`, `TunnelCloses`,
  `TunnelDrains`).

**`proxy_control`**: scene *admin*: 2 ids, 2 callers of 2 calls, saves that fail or are not
answered, a restart. Scene *cert*: a wildcard and a name under it, serials up to
3 of which one does not parse, 1 loss, another instance, a restart. Scene *tenant*: every
pair of 45 calls, and a race of three, with 1 failing statement or a suspension.
* `AnsweredIsKept`: what was answered runs, is stored, and comes back after a restart, for every id no two
  handlers worked on at once (`AgreesWhenAlone`, `RestartKeepsAnswered`).
* `HandshakesAreSound`: a handshake is answered with a whole pair, for the name asked
  for, never an older one (`ServedPairsMatch`, `HandshakeCovered`, `ServedNeverOlder`).
* `StoredIsServed`: once the database rests, what it holds comes to be served.
* `ChecksStillHold`: what a handler checked in one statement holds of what it wrote in a
  later one (`RoutesStayHome`, `VerifiedByController`, `QuotaOverrunBounded`,
  `CreatedWithChallenge`).
* `TenantIsolation`: a row changes only in a call of the tenant that owns it.

**`core`**: scenes *schema* (70 catalogs of keys, composite keys, junctions, self
references, views and hidden schemas, over small tables), *sql*, *parse* and *plan*.
* `RelationshipsSound`: relationships join on columns that are there, both ways, never
  through a hidden junction, and a hint suggested for one still finds it, not always alone;
  of a relation's relationships with itself the children are found by their column
  (`JoinsOnRealColumns`, `EveryWayBack`, `NoHiddenJunction`, `SuggestionsFindTheirs`).
* `EmbedsAgree`: every way to read a relationship gives the same rows (`EmbedsMutual`,
  `ToOneHasOne`, `UsesAgree`, `TwoQueriesAgree`, `ViewsEmbedAsTheirBase`).
* `StatementMeansThePlan`: every value stands in its own clause and every name in its
  own scope, and conditions group as written, for names without a `$` and a digit: those the
  code rewrites (`ValuesInPlace`, `EmbedValuesInPlace`, `EveryValueRead`, `AliasesInScope`,
  `AliasesNeverNest`, `WhereMeansTheTree`).
* `ReadsWhatWasWritten`: the grammars read what a client wrote, and all of it, but for names
  inside an embed whose parentheses do not pair up, dotted keys inside `and=`/`or=`, and names that
  would need quotes in `order=` (`ReadsWhatWasMeant`, `NothingLeftOut`).
* `PlannedAsAsked`: a call reaches the one overload it fits, whatever order the catalog lists
  them in, and a write the rows and columns named (`OverloadOrderFree`, `CallFits`,
  `RepeatsAreOneArgument`, `OnlyTheNamedRows`, `PutWritesItsRow`, `ReadBackSuffices`,
  `NoRowFilledIn`).

**`graphql`**: scenes *read*, *write*, *schema* and *identity* over small databases,
permission documents, catalogs, tokens and header lists.
* `EveryReadAgrees`: every row a role is shown is one it was granted, and it is answered
  as an unfiltered reader of a database with only its own rows would be, unless it
  filters by an aggregate of a relationship or orders by one, which look at the far
  table without its permission; an embed is its root field asked for that key (of
  several selections of one relationship, the last, which answers them all); counts
  agree with nodes and with EXISTS (`RoleReadsItsOwnRows`, `EmbedMatchesRoot`,
  `CountDescribesNodes`, `CountAgreesWithExists`).
* `AnswerIsTheEffect`: a mutation has done what its answer says, all or nothing
  (`AllFieldsOrNone`, `AffectedIsWritten`, `NestedRowsLinked`).
* `WritesAreAllowed`: what reaches the database passes the role's filter, check and
  presets, and an administrator's blank condition changes nothing. Not held to all of it, as the
  code does not: `update_many`, whose rows pass the check and need not pass the filter, and
  the row an upsert leaves, which passes the insert's check and not the update's
  (`NothingOutsideTheGrant`, `NoBlankCondition`).
* `NothingBeyondTheGrant`: the columns and verbs of a role's schema are no more than its
  grant, along every chain of relationships and nested input; aggregates of
  relationships are left out (section 5) (`ReadsOnlyGranted`, `WritesOnlyGranted`).
* `GrantIsServed`: nor is it less, a relationship whose name is taken apart, and it
  builds (`GrantsAreReachable`, `RoleIsBuilt`, `ServerStarts`).
* `AnsweredAsAuthenticated`: an operation is answered as the caller its secret or token
  authenticates, over HTTP and over a WebSocket (`HeadersNameNobody`,
  `GraphqlAsStrictAsRest`, `SecretStaysSecret`, `StrangersRefused`).

**`server`**: scenes *cache* (2 threads, 4 tokens, capacity 2, two ticks to a second),
*reload* (2 requests of 2 guards, 2 migrations, 1 failed load, a lost connection), *uri*
(every conversation of a small set, cut at every place) and *sqlx* (4 statements).
* `CacheIsSound`: a hit is what verifying the token would answer, or would have at most one
  thread's stall ago; the map is bounded; no entry for an `exp` that cannot be read
  (`HitIsCurrent`, `MapIsBounded`, `EntryLifetimes`).
* `CacheFollowsCatalog`: a stale cache has a reload on its way unless the migration was told
  to nobody, and no request sees it go back (`StaleIsPending`, `NeverBack`).
* `ReloadEnds`: every request is answered, and the cache ends as the catalog is, unless a
  migration was missed (`EveryRequestAnswered`, `CatchesUp`).
* `StreamIsFaithful`: only request targets are rewritten, those after a malformed request
  line too, and no byte is lost or moved (`OnlyTargetsChange`, `NothingLostOrMoved`).
* `ImplementsContract`: the sqlx driver implements the same `TxContract`.

**Bounds.** Two workers (transactions, starts, threads, callers) are the least that can
interfere, and their symmetry makes a third one interfere no differently; the theorems
of section 4 remove the bound for the properties they state, which leaves it to `GqlRead`,
`GqlWrite`, `GrantIsServed` and the core's translations but for `SchemaCache`. With one id a domain's name is
deleted but not re-created in `ssl_safety` (the theorems hold for any number); the *tenant*
scene does re-create one. Two attempts separate *first*, *last* and *used up*.
`StuckAfter`, `BaseBackoff` and `MaxBackoff` of one or two ticks let every order of
*result*, *backoff over* and *abandoned* occur. `Kept = 1` makes `RESULT_TYPES` empty
itself at every second statement; three statements leave room for a failing one with a
queued one before it and one sent behind it. Half-second ticks put an entry's expiry
between two whole seconds. Two guards are what a request needs to wait behind a
reload that waits behind it; two migrations what a reload needs to read halves of
both. `MaxNotes`, `MaxStops`, `MaxLosses`, `MaxFailures`, `MaxOthers`, `MaxCalls`,
`MaxStarts`, `Horizon` and `MaxSerial` bound the environment only. The pure scenes enumerate inputs that differ in
what the code branches on: keys of one and two columns, NULLs, names that need quotes,
overloads that overlap, one level of nesting more than the recursion's base case.
Deadlock is checked in the issuance runs, whose loop never stops; elsewhere
transactions, requests and the environment's budget end, and so does the program's work.

**Fairness.** `ssl_liveness`: weak fairness of a worker's own steps (a tokio task
that is ready is polled, and the process is restarted when it stops) and of time;
nothing of users, the CA or DNS, except in the premise of `QueuedIsSettled`. `live`: of a
stream's steps and of its refresh timer, nothing of the broker. `proxy_traffic`: weak
fairness of requests and tunnels taken together, whose timers fire if nothing else
happens, and strong fairness of taking a token, because a compare-and-swap that
can succeed infinitely often does not fail for ever.
`proxy_control`: of the refresh task and of a save and a get under way. `server`: of the reload task and of
each request: a lock that has been granted is taken.

## 4. Theorems

Every theorem holds for every value of the constants that satisfies the named
assumptions of its module, which TLC evaluates on the instance of the run. A proof
module has the component's inductive invariant first, then one lemma per action, and
the theorems last.

### `SslIssuanceProofs`: any ids, names, workers, callers and thresholds

| Theorem | Statement |
|---|---|
| `TypeCorrect` | `Spec => []TypeOK`, with `ssl_attempts` within `MAX_ATTEMPTS` |
| `Exclusive` | `Spec => []OneOrderPerName` |
| `ResultsLand` | `Spec => []ClaimHolds` |
| `NeverStolen` | `Spec => []LiveOrderNotAbandoned`: `reclaim_abandoned` never takes a live order's row |
| `ChallengesKept` | `Spec => []ChallengeSurvives` |
| `ActiveIsBacked` | `Spec => []ActiveHasCertificate` |

All follow from one inductive invariant, `IInv` (assuming `IssuanceAssumption`, of which
`OrderBound <= StuckAfter` is the part that matters). None of the properties is
inductive as it stands:

* *The attempt limit* holds although `reclaim_abandoned` increments without
  looking, because only a claim makes a row `provisioning` and a claim needs an
  attempt left (`RowsSound`: a provisioning row has attempts to spare).
* *Exclusivity* needs `ClaimHolds`: an undisturbed order's row is still
  `provisioning`, so no claim can match it; and `UniqueNames`, so that no other
  live row carries its name; and the ages (`WorkersSound`): the row's stamp is no
  older than the order, and `OrderBound <= StuckAfter`, so that it is not reclaimed.
* *An active domain has a certificate* needs the control states: a worker about to
  mark a row active, and a handler about to record an upload, have saved the
  certificate (`SavedBeforeMarked`); and a deletion, which takes the certificate
  whose `domain_id` it is, takes only that of the same name (`OwnersSound`).
* *An order's challenge* is deleted by name, so its keeping is exclusivity once more: the
  order that clears a name is the only one for it.

The proof has one lemma per action that gives what the action
changes, frame lemmas that carry each conjunct over what is left alone, and one step
per action and conjunct where it is not.

### `SocketTxProofs`, and `SqlxTx` in `ServerProofs`: any statements, any number of them

| Theorem | Statement |
|---|---|
| `SqlxImplements` | `Spec => ImplementsContract`: the sqlx driver refines `TxContract` |
| `SocketOutcome` | `Spec => []OutcomeIsTrue`, for any number of transactions, any `Kept`, and failures that pass between two runs |
| `SocketImplements` | `ASSUME Txs = {only} PROVE Spec => ImplementsContract`, for any `Kept` and either value of `Transient` |

*sqlx*: while the transaction is open, the session has done what was answered and, of
what is due, the statements before the one in hand (`WorkDone`, `WorkLeft`), and those
did not fail. So the one in hand is the first that can, which is what the contract's
step reports; the refinement mapping is the one the run uses, and each action is shown to
be a step of `CNext` or to leave its variables alone.

*Pipelining*: BEGIN, what was answered and what is due are one sequence, which the
driver's position cuts; between flights the session has run exactly what lies before
the cut, with success (`SocketInv`). That a flight either runs to its end or
leaves the session aborted with nothing kept is an induction on its length, and a rerun is that
induction again from BEGIN. With `Transient = FALSE` a transaction that was run
again meets its failure again and so never commits, which gives `AnswersStand` (the lemma
`SocketAnswers`). That is no result about the code as it is, where a lock or a conflict
passes: with `TRUE` it is false, as section 5 says.

*The refinement* needs the transaction to be alone, because another one can empty
`RESULT_TYPES` between two of its reruns and so use up their number; then the error that is
answered is not the first that occurred. Alone, each rerun teaches the process a statement it
did not know (`AllCounted`: the reruns so far are fewer than the statements it has sent and
learned), so the limit is not reached; and what is ahead of the position in hand is what was
queued and not yet answered (`AllPlaced`), so the failure that is reported is the first there
is, which is what the contract's step does. The mapping is the run's.

### `NotifyBrokerProofs`: any starts, `listen_channel`s, subscriptions, notifications, stops and lost connections

| Theorem | Statement |
|---|---|
| `BrokerTypes` | `BSpec => []TypeOK`: no receiver holds more than the capacity |
| `OneSender` | `BSpec => []SharedSender` |
| `StopsSoon` | `BSpec => []AtMostOneLate` |
| `ListenersAreHarmless` | `BSpec => []LeftoversAreHarmless`: the two above |
| `WokenInTime` | `Spec => []WakeOnTheWay`, of the broker composed with the live queries |

`BInv` adds that a subscription past its second lookup has a sender
(`SenderThere`), so that `EnsureSender`, which makes one only where there is none,
finds no open stream when it does; and that a listener which was late is back at the
check of the flag, with the flag down (`LateAtCheck`). `LiveInv` adds to it that a subscription
that missed nothing hangs on the broker (`HangsOn`), and that what was read and not yet sent
is as surely overtaken as what was sent (`StaleIsComing`).

### `ServerProofs` (`TokenCache`, `SchemaReload`, `LenientUri`): any threads, tokens, capacity and clock; any requests and migrations; any conversation

| Theorem | Statement |
|---|---|
| `CacheSound` | `CacheSpec => []CacheIsSound` |
| `CatalogFollowed` | `ReloadSpec => CacheFollowsCatalog` |
| `StreamFaithful` | `UriSpec => []StreamIsFaithful`, however the connection is cut into reads |

An entry holds only the tick it expires at, so that it is good is not inductive:
`CacheInv` keeps that there were two readings of the clock, at most a stall apart, from
which the entry or a thread's local was computed, and the arithmetic of whole
seconds (`SecondsBounds`) makes them enough. The map's bound needs that the thread that
inserts has the mutex. `ReloadInv` has, of the reload under way, which
half it has read (`HalfLoaded`) and that cache, load and catalog come in that order
(`InOrder`).

*The adapter* (`StreamInv`). The conversation is a sequence of pieces, each with what is owed for
it, written without the adapter in mind (`Pieces`). At every byte it is the pieces that were
passed on, then those ahead: what hyper was given and what waits is what is owed for the former,
and the line that is held back is what was read of the first of the latter (`InPlace`). What
makes this inductive is `Ahead`, which ties the adapter's state to the message: a request line, the
header with this number, with the length and the upgrade its predecessors asked for, this byte of a
body, or a rest in which every piece is a byte that is owed as it is. Until the preface is told
from a request line, what is held back is a beginning of both (`Waiting`). One byte keeps this
(`ByteInPlace`, with a lemma for each kind of line), and so a read of any length does
(`FeedInPlace`); the cap on a line is never met while lines fit (`NeverOverfull`), and that
no byte is lost or moved (`LostInv`) holds without that hypothesis. `LenientAssumption` says what a
client that speaks HTTP sends: one line feed to a line, at its end; a body as long as its one length
says, unless the framing is another; and, but for HTTP/2's preface itself, no first line that is the preface's.

### `ProxyTrafficProofs`: any configuration, requests, health checks and clock

| Theorem | Statement |
|---|---|
| `RateKept` | `Spec => []GrantsWithinRate` |
| `HealthKept` | `Spec => []HealthIsKept` |
| `SentClean` | `Spec => []ForwardedClean` |
| `TunnelsDrain` | `Spec => []TunnelDrains`, the safety part of `ExchangesEnd` |

`TrafficAssumption` has the shapes of configurations and requests, and positive health
thresholds, which `config/database.rs` requires (`positive`). `Typed` says what a request
holds at each stage. `RateInv` is the law of a bucket: what it granted and what it
holds are covered by its capacity and the time it has lived, and who is between the two
compare-and-swaps is the one who locked the entry; the clock may step back, so the time lived
is the sum of its forward steps. `HealthInv` ties the counters to the last run of the
outcomes, and the two maps to the registration under way. `ForwardedClean` comes down to
what each header operation leaves (`Tidy`), and `TunnelDrains` to what each end of a copy
knows (`TunnelInv`).

### `ProxyControlProofs`: any callers, rows, names, tenants and failures

| Theorem | Statement |
|---|---|
| `AnsweredKept` | `AdminSpec => AnsweredIsKept` |
| `HandshakesSound` | `CertSpec => HandshakesAreSound` |
| `TenantsIsolated` | `TenantSpec => TenantIsolation` |
| `ChecksHold` | `TenantSpec => []ChecksStillHold` |

* *Admin* (`AdminInv`): on an id one handler works on, memory and table agree until the
  save, and from then on the table holds what the handler will put into memory.
* *Certificates* (`CertInv`): database, refresh and served keys are ordered by serial,
  and every pair is whole. That the longest name wins in `Lookup` needs labels to be
  strings (`CertAssumption`), nothing of how many there are.
* *Tenants* (`TenantInv`): what a handler has read holds of the row, or the row is gone
  (`RunOK`), because ids are never reused (`Unused`: ids some call may yet take are
  nobody's; `TenantAssumption`) and no statement moves a row to another tenant. A published
  token was given to whoever controls the name (`Tokens`). `StoredAssumption` is that the
  rows at the start are such as the API leaves.
* *The quota* (`QuotaInv`): it may be overrun, by as many creations as were past the check
  at once less one. The invariant counts those that passed it (`Passed`) against
  the domains there are and the places still held (`Held`).

### `RestPipelineProofs`: any table, routines, requests, configurations and concurrent writes

| Theorem | Statement |
|---|---|
| `Answers` | `Spec => []AnswerIsTrue` |
| `Written` | `Spec => []WritesAsAsked` |
| `Described` | `Spec => []ResponseDescribesRows` |
| `RelationshipsAreSound` | `SchemaSpec => []RelationshipsSound`, of `SchemaCache` |

`KeysAssumption` and `ConfigsAssumption` are shapes: finitely many keys, which are naturals;
what a routine writes are rows of the table; a request is a `Request`, in which an equality with the
key accepts at most one key. Of limits, offsets and `max-affected` nothing is assumed, negative
numbers included.

First it is settled what one statement does. A row's rank is its place in the order of the keys,
and ranks are a bijection with `1..n`, so that the length of a page follows from offset and limit
(`PageCount`) and two pages of one set can be compared; `QueryIs` gives, of every action and
whatever the session, the rows touched and returned (`AsAsked`). Then `RestInv` keeps, with the
position in `process_request`, which refusals were passed to get there (`Underway`), that
the transaction's own rows are what its statement touched and that nothing of it is committed before
the checks are passed, or ever for a read (`Transacted`), that the response is computed from what came back
(`Responded`), and that the rows of a read and their count are those of one snapshot, where the
isolation says so or nobody wrote (`ReadFrom`). `AnswerIsTrue` is then a matter of
where `Refuse` and `Commit` are reached from; that a PUT answered with success wrote the one row its URL names needs
`PutError`, `PutNames` and the equality's one key together. `TrimmedBeforePaged`, in the premise of
`ResponseDescribesRows`, is needed: see section 5.

*The schema cache* (any catalog, `CatalogAssumption`): `CatalogInv` says of every relationship the
passes have derived so far that its columns are those of a key of the catalog, or of the two keys
of a junction that is exposed, and that its opposite is there too or is still to be derived
by the pass in hand. That a suggested hint still finds the relationship it stands for is a case analysis on the
hint's form. Nothing is proved of what else it finds.

### `GraphqlProofs`: any headers, tokens, clocks and connections; any catalog, metadata and permission document

| Theorem | Statement |
|---|---|
| `AnsweredAsNobodyElse` | `IdentitySpec => []AnsweredAsAuthenticated` |
| `SchemaWithinGrant` | `SchemaSpec => []NothingBeyondTheGrant` |

*Identity* (`IdentityAssumption`: naturals for the skew and the clock, header lists and payloads
for what comes over the wire). What an operation is answered as is computed from what came with it; the
invariant is that a connection's identity is still that of its own `connection_init`
(`IdentityInv`). The rest is what the header operations keep, and the order of the branches.

*The role's schema* (`SchemaInv`). A caller whom the document restricts is answered from nobody's
schema or from one of its own role that was built (`AnsweredFrom`, `built`). That this offers
nothing beyond the grant along *any* chain of relationships is not by looking at each hop: a field
of a relationship names the far table's row type, a schema in which a field names a type that is not
registered does not build, and a row type is registered only where its table has readable rows
(`RowsLeadToRows`). So everything reachable stays among granted tables, whatever the
chain's length; nested inserts are the same argument about input types. `SitesAssumption` says that
no role has the name the code keeps for nobody (`Nobody`), that the names a document
exposes on one table are distinct (`FieldsApart`), and that no table is called such that its row
type would collide with a type derived from another (`TypesApart`): where they do
collide the code registers one type in the place of the other.

### What is only model-checked

Liveness (`ProvisioningEnds`, `QueuedIsSettled`, `Converges`, `ExchangesEnd` but for its
safety part, `StoredIsServed`, `ReloadEnds`): TLAPS has no rules for fairness or `ENABLED`.
What the recursive operators of `SqlBuild`, `QueryParse`, `Planning`, `GqlRead` and `GqlWrite`
compute (`StatementMeansThePlan`, `ReadsWhatWasWritten`, `PlannedAsAsked`, `EveryReadAgrees`,
`AnswerIsTheEffect`, `WritesAreAllowed`): the provers cannot unfold a recursive operator,
and have no induction over what it recurses on. Induction on a number, where a proof needs it, is
done as a least counterexample (the least element of the set of numbers at which the claim
fails, which `WellFoundedInduction` provides).
What a fold over a sequence computes is proved that way for `StreamIsFaithful`.
Within the provers' reach and not proved: `EmbedsAgree` and `GrantIsServed`. The first compares what
two passes over a sequence of rows leave, and is an induction on their number in each; the second needs
that every schema of a consistent document builds, a converse of the argument for `SchemaWithinGrant`
for each kind of type.

Three things about how definitions are written come from the proofs and are not choices of the
model: CASE arms that a proof distinguishes exclude each other, because CASE picks any
arm that is true; a record is built whole rather than by EXCEPT where several fields
change; and the healthy backends are the set of their positions, of which the
balancer's index counts the n-th in order.

## 5. Where the code and its comments or documents disagree

Found while modelling. The models follow the code; where a property would not
hold because of one of these, the property's comment says what it excludes. Only
the one marked has a run of its own.

Certificates and domains:
* `queue_for_issuance`, `update_domain` and `verify_domain` write `pending` over a
  `provisioning` row (`saas/db.rs:319`), so a second worker places a second order while the
  first runs, against `ssl.rs:174-179` and "idempotent" in `docs/saas-domains.md:253`.
  `OneOrderPerName` is about names no call took away.
* `reclaim_abandoned` (`ssl.rs:289`) counts up to `MAX_ATTEMPTS` but writes `pending`, and a
  re-verification leaves `ssl_attempts` at the limit: such a row is neither claimed nor
  failed, against `manager.rs:164-167` and `ssl.rs:252-253` (run `ssl_inbox`).
* `save_to_database` (`cert_store.rs:231`) keeps `auto_renew = false` of an earlier upload, so a
  domain switched to ACME is not renewed, against `docs/saas-domains.md:272` and `:313-314`.
* `mark_failed` and `mark_active` (`ssl.rs:270`) write by id alone over the status of a
  certificate uploaded meanwhile, against `saas/db.rs:255-256`.
* A quota can be exceeded by creations that overlap; two registrations of one name at once
  answer 500 and not 409; `docs/saas-domains.md:570` says 429 where the code answers 402;
  creating an API key checks no scope.
* `sni.rs:109` never matches a stored name with upper-case letters. A chain and its key are two
  files, so `get` can put a mixed pair in the map until the next refresh, which is why
  `ServedPairsMatch` is about the served keys.
* Two admin changes of one id at once can leave the database and the running configuration in
  opposite orders, and `add_backend`/`remove_backend` lose updates; `POST /routes` with a name of
  the configuration file answers 201 and the next start refuses it.

Drivers:
* `remember` (`socket.rs:327`) returns false when another transaction has remembered the
  statement, and the caller is given the lookup's 25P02, against `socket.rs:463-464` and
  `:22-23`.
* `AnswersStand` needs failures that happen again: with `Transient = TRUE` (a lock, a
  conflict) the rerun commits while the caller acts on answers of the run that was rolled
  back, which the comment at `socket.rs:303` rules out.

Notifications and schema cache:
* Two overlapping `start`s of one broker, or a `stop` and a `start` around a waiting listener,
  leave two listeners; a `start` that cannot connect leaves the flag set. The repository starts a
  broker once. `broker.rs:133` slices a payload at byte 100 for a log line, which panics
  inside a multi-byte character and ends the listener with the flag up.
* Migrations notified during a reconnect are missed, and nothing is reloaded on reconnecting;
  a reload reads the catalog in one READ COMMITTED transaction; the GraphQL schema is never
  rebuilt.
* A view that carries the keys of two base tables gets either, and ties among suggestions are
  broken, by hash order.
* `disambiguator` (`relationship.rs:182-185`) is the name "to mean this relationship and no other",
  and two comments of `find_relationship` rely on it. Between two self-referential keys the
  hint suggested finds nothing. A hidden junction rerouted through a view that carries its whole key
  is pushed again by the pass over the views' keys (`mod.rs:206-213`, nothing removes duplicates): the
  embed is ambiguous between two equal entries, and so is each suggestion, so that no spelling
  reaches it by the target's name.

REST:
* `max-affected` counts rows after the read-back's window and embed predicates, and is not
  enforced for rendered bodies; a PUT of `{}` ignores the URL's filter; `count` on a POST to a
  function runs it twice; `return=minimal` with relations in `select` is a syntax error; a filter
  other than `is` on an embed's name is dropped; an embed tested for null is tested after the
  page is cut. A negative `offset` is accepted, skips nothing (`handler.rs:949`) and is reported as the
  start of `Content-Range`; a negative `max-affected` refuses every write; a `Range` that ends at the
  largest `i64` overflows in `Range::from_bounds` (`types.rs:764`; the model's numbers have no width).
* "Under the same snapshot" (`handler.rs:1400`) is not so under READ COMMITTED.
* `renumber_params` and `shift_placeholders` also rewrite `$1` inside quoted identifiers
  and JSON keys. Names with unbalanced parentheses cannot be selected inside an embed
  (`parse_nested_select`, `query_params.rs:308`, counts them regardless of quotes),
  against `query_params.rs:1214-1216`; `order=`, `columns=` and `on_conflict=` ignore
  quotes; a quoted key with a dot is split in `and=`/`or=`.
* A JSON null argument becomes empty text; a JSON array of scalars is refused even where the
  function takes one unnamed JSON parameter (`call_plan.rs:155`); `?order=` by a computed column
  fails with `return=representation`; filters on a scalar function are dropped.

GraphQL and identity:
* The two halves of an aggregate are two transactions, against `handler.rs:3643`; a
  nested aggregate counts only up to the row ceiling; aggregate predicates
  (`handler.rs:7405`) and ordering by a relationship (`:8138`, `:8220`) read the far
  table without its permission, against what `:7273-7276` says of EXISTS; expressions
  are keyed by the field's name (`:9219-9466`), so that two aliased selections of one
  relationship with different arguments both answer with the last; `build_distinct_on`
  promises to prepend columns where the code refuses.
* `update_many` does not add the role's filter (`handler.rs:4490-4550`, against
  `:4648-4650`); the update branch of an upsert is held to the insert's check; a `where`
  through a relationship in a write is compiled without the caller; rows read back come
  in no stated order and once per key; a preset on a linking column overrides the
  parent's key.
* `add_function_fields` overlooks aggregate root names, so that a collision panics at
  start; `has_whole_key` tests the union of readable and writable columns, against its
  comment; nested aggregates are offered whatever `allow_aggregations` says
  (`docs/configuration.md:608`); some grants leave a dangling type name, and the role
  gets an empty schema.
* No header and no anonymous role: REST refuses, GraphQL goes on as "anon"; a token on a
  WebSocket is not rechecked when it expires; a namespaced claim wins for roles and loses for
  session variables.
* `lenient_uri.rs` goes on rewriting after a request line it cannot make sense of (`:190-196`,
  `:279-291`), where its own doc (`:26-30`) has it stop for the remainder of the connection.
* A cached token lives as much longer as its thread stalled between reading the lifetime and
  reading the clock.

Proxy traffic:
* A route timeout of 30 s or more answers 502 and not 504; buckets are keyed by address alone,
  whatever `RateLimitKey` says; fewer requests than seconds is a rate of 0 (`limiter.rs:56`);
  weights that sum to 0 panic; the counters of least-connections are never incremented;
  `enabled` is not read when a backend is chosen; the health checker is never started by the
  binary, and upstreams changed by the admin API are not registered with the balancer.

## 6. Not modelled

* *Formatting*: JSON, CSV and binary bodies, OpenAPI, messages and logs. Status, ranges
  and refusals a property is about are in `RestRequest`.
* *Conversions of bytes*: certificates, keys and signatures (a serial, a verdict),
  decoding of column values in `socket.rs`, form bodies, regular expressions (a set
  of paths).
* *Catalog SQL*: `schema_cache/queries.rs` is taken for what it returns.
* *Numeric aggregates, JSON and geometry operators, relay connections, federation.*
* *Wiring*: routing tables, CORS, metrics, tracing, admin pages, the Worker's and Lambda's
  adapters; code the binaries never reach (the engine's two-query embed path is modelled
  as its merge only, in `Embed`).
* *Compositions*: the token cache is not composed with `Identity`, nor `CertStore` with
  `SslIssuance`: each is checked against anything the other could do (a token that verifies
  or does not; a row another instance writes).

## 7. Plan

Theorems still to be had, in this order: `GrantsAreReachable` and `RoleIsBuilt`; `EmbedsAgree`; and
`SocketImplements` for several transactions, with a contract that may report a masked error.
