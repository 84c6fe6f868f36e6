----------------------------- MODULE TenantApi -----------------------------
(***************************************************************************)
(* saas/: tenants managing their domains, routes, upstreams and keys.      *)
(* A call authenticates, then runs its handler as a sequence of SQL        *)
(* statements, each its own transaction; calls interleave between them.    *)
(* Certificates and the ssl_* columns are SslIssuance's.                   *)
(***************************************************************************)
EXTENDS Naturals, Sequences, FiniteSets

CONSTANTS
  Tenants,        \* strings; "" is no tenant
  Ids,            \* ids of rows, naturals; 0 is no id
  NewId,          \* caller -> the id of the row it inserts: ids are never reused
  DomainNames,    \* names a tenant may register
  Controller,     \* name -> the tenant that controls its DNS zone
  PointsHere,     \* names whose traffic reaches this proxy
  Addresses,      \* backends
  Callers,        \* concurrent calls
  CallSet,        \* the calls they may make
  Stored,         \* the rows at the start: [domains, routes, upstreams, keys]
  MaxDomains,     \* tenant -> its max_domains
  MaxFailures     \* bound: statements that fail, suspensions

VARIABLES
  domains, routes, upstreams, keys,   \* the tables, by id
  challenges,     \* proxy_verification_challenges
  suspended,      \* tenants that are not active
  txt,            \* name -> the tokens its zone publishes
  job,            \* the calls under way
  failures,
  partial         \* history: ids whose creation failed half-way

rows == <<domains, routes, upstreams, keys, challenges>>
tenantVars == <<rows, suspended, txt, job, failures, partial>>

NoDomain == [tenant |-> "", name |-> "", method |-> "dns", status |-> "pending", enabled |-> FALSE, proof |-> ""]
NoRoute == [tenant |-> "", domain |-> 0, upstream |-> 0, path |-> ""]
NoUpstream == [tenant |-> "", name |-> "", backends |-> {}]
NoKey == [tenant |-> "", scopes |-> {}, enabled |-> TRUE, expired |-> FALSE]

\* The handlers that ask for the write scope of their resource; the handlers
\* of keys and the reads ask for none.
DomainOps == {"create_domain", "delete_domain", "verify_domain", "enable_domain", "disable_domain", "update_domain"}
RouteOps == {"create_route", "update_route", "delete_route"}
UpstreamOps == {"create_upstream", "update_upstream", "delete_upstream", "add_backend", "remove_backend"}

\* The columns of the tables, and what a call may carry: a credential, the ids
\* in its path or body and the values it gives.
Methods == {"dns", "http"}
DomainRow == [tenant : Tenants, name : DomainNames, method : Methods, status : {"pending", "verified"},
              enabled : BOOLEAN, proof : Methods \cup {""}]
RouteRow == [tenant : Tenants, domain : Ids, upstream : Ids \cup {0}, path : STRING]
UpstreamRow == [tenant : Tenants, name : STRING, backends : SUBSET Addresses]
KeyRow == [tenant : Tenants, scopes : SUBSET STRING, enabled : BOOLEAN, expired : BOOLEAN]
Credential == [kind : STRING, secret : BOOLEAN, valid : BOOLEAN, tenant : Tenants \cup {""},
               scopes : SUBSET STRING, key : Ids \cup {0}]
Call == [op : STRING, cred : Credential, d : Ids, u : Ids \cup {0}, r : Ids, name : STRING, method : Methods,
         addresses : SUBSET Addresses]

\* Ids are never reused; only a route may be without an upstream; and the rows
\* at the start are such as the API leaves.
ASSUME TenantAssumption ==
  /\ "" \notin Tenants /\ "" \notin DomainNames /\ 0 \notin Ids
  /\ IsFiniteSet(Ids) /\ IsFiniteSet(Callers)
  /\ MaxDomains \in [Tenants -> Nat] /\ MaxFailures \in Nat
  /\ CallSet \subseteq Call
  /\ \A call1 \in CallSet :
       /\ call1.cred.kind = "key" => call1.cred.key \in Ids
       /\ call1.op \in UpstreamOps => call1.u \in Ids
       /\ call1.op = "create_domain" => call1.name \in DomainNames

ASSUME StoredAssumption ==
  /\ Stored.domains \in [Ids -> DomainRow \cup {NoDomain}] /\ Stored.routes \in [Ids -> RouteRow \cup {NoRoute}]
  /\ Stored.upstreams \in [Ids -> UpstreamRow \cup {NoUpstream}] /\ Stored.keys \in [Ids -> KeyRow \cup {NoKey}]
  /\ NewId \in [Callers -> Ids] /\ \A c1, c2 \in Callers : NewId[c1] = NewId[c2] => c1 = c2
  /\ \A c1 \in Callers :
       /\ Stored.domains[NewId[c1]] = NoDomain /\ Stored.routes[NewId[c1]] = NoRoute
       /\ Stored.upstreams[NewId[c1]] = NoUpstream /\ Stored.keys[NewId[c1]] = NoKey
  /\ \A r \in Ids : LET row == Stored.routes[r] IN row # NoRoute =>
       /\ Stored.domains[row.domain].tenant = row.tenant
       /\ row.upstream # 0 => Stored.upstreams[row.upstream].tenant = row.tenant
  /\ \A d \in Ids : LET row == Stored.domains[d] IN
       /\ row.status = "verified" /\ row.proof = "dns" => Controller[row.name] = row.tenant
       /\ row.enabled => row.status = "verified"
  /\ \A t \in Tenants : Cardinality({d \in Ids : Stored.domains[d].tenant = t}) <= MaxDomains[t]

TenantInit ==
  /\ domains = Stored.domains /\ routes = Stored.routes
  /\ upstreams = Stored.upstreams /\ keys = Stored.keys
  /\ challenges = {[domain |-> d, type |-> domains[d].method, token |-> d] :
                   d \in {e \in Ids : domains[e] # NoDomain}}
  /\ suspended = {} /\ txt = [n \in DomainNames |-> {}]
  /\ failures = 0 /\ partial = {}

Calls(f) ==
  job = [c \in Callers |-> [call |-> f[c], pc |-> IF f[c].op = "none" THEN "done" ELSE "auth", i |-> 1, tenant |-> "", scopes |-> {},
                                 snap |-> NoDomain, made |-> 0, todo |-> {}, status |-> 0]]

TenantStart == TenantInit /\ \E f \in [Callers -> CallSet] : Calls(f)

(***************************************************************************)
(* Authentication                                                          *)
(***************************************************************************)
Advance(c, j) == job' = [job EXCEPT ![c] = j] /\ UNCHANGED <<suspended, txt, failures>>
Answer(c, status) == Advance(c, [job[c] EXCEPT !.pc = "done", !.status = status, !.snap = NoDomain])
Reject(c, status) == Answer(c, status) /\ UNCHANGED <<rows, partial>>

\* auth_middleware up to the context: the status of the first failure, or 0.
AuthStatus(cred) ==
  CASE cred.kind = "jwt" /\ ~cred.secret -> 500          \* no signing secret configured
    [] cred.kind = "jwt" /\ cred.secret /\ (~cred.valid \/ cred.tenant = "") -> 401
    [] cred.kind = "key" /\ (keys[cred.key] = NoKey \/ keys[cred.key].expired) -> 401
    [] cred.kind = "key" /\ ~keys[cred.key].enabled -> 401
    [] cred.kind \notin {"jwt", "key"} -> 401
    [] OTHER -> 0

Context(cred) ==
  IF cred.kind = "jwt" THEN [tenant |-> cred.tenant, scopes |-> cred.scopes]
  ELSE [tenant |-> keys[cred.key].tenant, scopes |-> keys[cred.key].scopes]

Authenticate(c) ==
  /\ job[c].pc = "auth"
  /\ LET cred == job[c].call.cred
     IN \/ AuthStatus(cred) # 0 /\ Reject(c, AuthStatus(cred))
        \/ /\ AuthStatus(cred) = 0
           /\ Advance(c, [job[c] EXCEPT !.pc = "tenant", !.tenant = Context(cred).tenant,
                                        !.scopes = Context(cred).scopes])
           /\ UNCHANGED <<rows, partial>>

CanWrite(j, resource) == resource \in j.scopes \/ "*" \in j.scopes

ScopeOf(op) ==
  CASE op \in DomainOps -> "domains" [] op \in RouteOps -> "routes"
    [] op \in UpstreamOps -> "upstreams" [] OTHER -> ""

\* is_tenant_active, then the handler's own check of the scope.
Admit(c) ==
  /\ job[c].pc = "tenant"
  /\ LET j == job[c]
     IN \/ j.tenant \in suspended /\ Reject(c, 403)
        \/ /\ j.tenant \notin suspended /\ ScopeOf(j.call.op) # "" /\ ~CanWrite(j, ScopeOf(j.call.op))
           /\ Reject(c, 403)
        \/ /\ j.tenant \notin suspended /\ (ScopeOf(j.call.op) # "" => CanWrite(j, ScopeOf(j.call.op)))
           /\ Advance(c, [j EXCEPT !.pc = "run"]) /\ UNCHANGED <<rows, partial>>

(***************************************************************************)
(* The statements                                                          *)
(***************************************************************************)
DomainProgram(op) ==
  CASE op = "create_domain" -> <<"quota", "exists", "domain_insert", "challenge_insert">>
    [] op = "delete_domain" -> <<"domain_delete">>
    [] op = "verify_domain" -> <<"get_domain", "attempt", "lookup", "set_verified">>
    [] op \in {"enable_domain", "disable_domain"} -> <<"get_domain", "set_enabled">>
    [] op = "update_domain" -> <<"domain_update">>

RouteProgram(op) ==
  CASE op = "create_route" -> <<"get_domain", "get_upstream", "route_insert">>
    [] op = "update_route" -> <<"get_route", "get_upstream", "route_update">>
    [] op = "delete_route" -> <<"get_route", "route_delete">>

UpstreamProgram(op) ==
  CASE op = "create_upstream" -> <<"upstream_insert", "backends_insert">>
    [] op = "update_upstream" -> <<"upstream_update">>
    [] op = "delete_upstream" -> <<"upstream_delete">>
    [] op = "add_backend" -> <<"get_upstream", "backend_insert">>
    [] op = "remove_backend" -> <<"backend_delete">>

KeyProgram(op) == IF op = "create_api_key" THEN <<"key_insert">> ELSE <<"key_delete">>

\* saas_router: what a route of the API runs.
Program(op) ==
  CASE op \in DomainOps -> DomainProgram(op)
    [] op \in RouteOps -> RouteProgram(op)
    [] op \in UpstreamOps -> UpstreamProgram(op)
    [] op \in {"create_api_key", "revoke_api_key"} -> KeyProgram(op)
    [] OTHER -> <<"list">>

At(c, stmt) == job[c].pc = "run" /\ Program(job[c].call.op)[job[c].i] = stmt
Last(c) == job[c].i = Len(Program(job[c].call.op))

\* The statement succeeded: the next one, or the response.
Then(c, j) ==
  Advance(c, IF Last(c) THEN [j EXCEPT !.pc = "done", !.status = 200, !.snap = NoDomain] ELSE [j EXCEPT !.i = @ + 1])

Same(c) == Then(c, job[c]) /\ UNCHANGED partial
Mine(c, row) == row.tenant = job[c].tenant

\* get_domain_for_tenant, with enable_domain's test of what it read.
GetDomain(c) ==
  /\ At(c, "get_domain") /\ UNCHANGED rows
  /\ LET d == domains[job[c].call.d]
         enabling == job[c].call.op = "enable_domain"
     IN \/ ~Mine(c, d) /\ Answer(c, 404) /\ UNCHANGED partial
        \/ Mine(c, d) /\ enabling /\ d.status # "verified" /\ Answer(c, 400) /\ UNCHANGED partial
        \/ /\ Mine(c, d) /\ (enabling => d.status = "verified")
           /\ Then(c, [job[c] EXCEPT !.snap = d]) /\ UNCHANGED partial

GetUpstream(c) ==
  /\ At(c, "get_upstream") /\ UNCHANGED rows
  /\ LET u == job[c].call.u
     IN \/ u # 0 /\ ~Mine(c, upstreams[u]) /\ Answer(c, 404) /\ UNCHANGED partial
        \/ (u # 0 => Mine(c, upstreams[u])) /\ Same(c)          \* no upstream_id in an update

GetRoute(c) ==
  /\ At(c, "get_route") /\ UNCHANGED rows
  /\ LET r == routes[job[c].call.r]
         found == Mine(c, r) /\ r.domain = job[c].call.d
     IN (~found /\ Answer(c, 404) /\ UNCHANGED partial) \/ (found /\ Same(c))

DomainsOf(t) == {d \in Ids : domains[d].tenant = t}

QuotaReached(t) == Cardinality(DomainsOf(t)) >= MaxDomains[t]

CheckQuota(c) ==
  /\ At(c, "quota") /\ UNCHANGED rows
  /\ \/ QuotaReached(job[c].tenant) /\ Answer(c, 402) /\ UNCHANGED partial
     \/ ~QuotaReached(job[c].tenant) /\ Same(c)

Registered(n) == \E d \in Ids : domains[d].name = n

DomainExists(c) ==
  /\ At(c, "exists") /\ UNCHANGED rows
  /\ \/ Registered(job[c].call.name) /\ Answer(c, 409) /\ UNCHANGED partial
     \/ ~Registered(job[c].call.name) /\ Same(c)

\* The name is unique: one registered since is an error of the database.
InsertDomain(c) ==
  /\ At(c, "domain_insert") /\ UNCHANGED <<routes, upstreams, keys, challenges>>
  /\ \/ Registered(job[c].call.name) /\ Answer(c, 500) /\ UNCHANGED <<domains, partial>>
     \/ /\ ~Registered(job[c].call.name)
        /\ LET d == NewId[c]
           IN /\ domains' = [domains EXCEPT ![d] = [NoDomain EXCEPT !.tenant = job[c].tenant,
                                !.name = job[c].call.name, !.method = job[c].call.method]]
              /\ Then(c, [job[c] EXCEPT !.made = d]) /\ UNCHANGED partial

\* The token is the row's own; a domain deleted meanwhile is a foreign key error.
InsertChallenge(c) ==
  /\ At(c, "challenge_insert") /\ UNCHANGED <<domains, routes, upstreams, keys>>
  /\ LET d == job[c].made
     IN \/ domains[d] = NoDomain /\ Answer(c, 500) /\ UNCHANGED <<challenges, partial>>
        \/ /\ domains[d] # NoDomain
           /\ challenges' = challenges \cup {[domain |-> d, type |-> job[c].call.method, token |-> d]}
           /\ Same(c)

\* ON DELETE CASCADE takes the routes and the challenges along.
DeleteDomain(c) ==
  /\ At(c, "domain_delete") /\ UNCHANGED <<upstreams, keys>>
  /\ LET d == job[c].call.d
     IN \/ ~Mine(c, domains[d]) /\ Answer(c, 404) /\ UNCHANGED <<domains, routes, challenges, partial>>
        \/ /\ Mine(c, domains[d])
           /\ domains' = [domains EXCEPT ![d] = NoDomain]
           /\ routes' = [r \in Ids |-> IF routes[r].domain = d THEN NoRoute ELSE routes[r]]
           /\ challenges' = {x \in challenges : x.domain # d}
           /\ Same(c)

RecordAttempt(c) == At(c, "attempt") /\ UNCHANGED rows /\ Same(c)

\* handle_verification_challenge: a live HTTP challenge, on its domain's host only.
ServedAt(host) ==
  {x.token : x \in {y \in challenges : y.type = "http" /\ domains[y.domain].name = host}}

\* verify_dns and verify_http, with the row as get_domain read it.
Found(c) ==
  LET d == job[c].snap
      token == job[c].call.d
  IN IF d.method = "dns" THEN token \in txt[d.name]
     ELSE \/ d.name \in PointsHere /\ token \in ServedAt(d.name)
          \/ token \in txt[d.name]            \* its owner serves the file elsewhere

CheckProof(c) ==
  /\ At(c, "lookup") /\ UNCHANGED rows
  /\ \/ Found(c) /\ Same(c)
     \/ ~Found(c) /\ Answer(c, 200) /\ UNCHANGED partial     \* VerificationResult::Failed

\* Mutant: the row is found by its name.
SetVerifiedByName(c) ==
  /\ At(c, "set_verified") /\ UNCHANGED <<routes, upstreams, keys, challenges>>
  /\ domains' = [d \in Ids |-> IF domains[d].name = job[c].snap.name
                   THEN [domains[d] EXCEPT !.status = "verified", !.proof = job[c].snap.method] ELSE domains[d]]
  /\ Same(c)

\* update_verification_status, by id: a domain deleted since is not there.
SetVerified(c) ==
  /\ At(c, "set_verified") /\ UNCHANGED <<routes, upstreams, keys, challenges>>
  /\ LET d == job[c].call.d
     IN domains' = IF domains[d] = NoDomain THEN domains
                   ELSE [domains EXCEPT ![d].status = "verified", ![d].proof = job[c].snap.method]
  /\ Same(c)

SetEnabled(c) ==
  /\ At(c, "set_enabled") /\ UNCHANGED <<routes, upstreams, keys, challenges>>
  /\ LET d == job[c].call.d
         on == job[c].call.op = "enable_domain"
     IN \/ domains[d] = NoDomain /\ Answer(c, IF on THEN 400 ELSE 404) /\ UNCHANGED <<domains, partial>>
        \/ domains[d] # NoDomain /\ domains' = [domains EXCEPT ![d].enabled = on] /\ Same(c)

UpdateDomain(c) ==
  /\ At(c, "domain_update") /\ UNCHANGED <<routes, upstreams, keys, challenges>>
  /\ LET d == job[c].call.d
     IN \/ ~Mine(c, domains[d]) /\ Answer(c, 404) /\ UNCHANGED <<domains, partial>>
        \/ Mine(c, domains[d]) /\ domains' = [domains EXCEPT ![d].method = job[c].call.method] /\ Same(c)

\* The foreign keys and UNIQUE (domain_id, path_pattern, path_type).
RouteError(row, r) ==
  \/ domains[row.domain] = NoDomain
  \/ row.upstream # 0 /\ upstreams[row.upstream] = NoUpstream
  \/ \E s \in Ids \ {r} : routes[s].domain = row.domain /\ routes[s].path = row.path

InsertRoute(c) ==
  /\ At(c, "route_insert") /\ UNCHANGED <<domains, upstreams, keys, challenges>>
  /\ LET r == NewId[c]
         row == [tenant |-> job[c].tenant, domain |-> job[c].call.d, upstream |-> job[c].call.u,
                 path |-> job[c].call.name]
     IN \/ RouteError(row, r) /\ Answer(c, 500) /\ UNCHANGED <<routes, partial>>
        \/ ~RouteError(row, r) /\ routes' = [routes EXCEPT ![r] = row] /\ Same(c)

UpdateRoute(c) ==
  /\ At(c, "route_update") /\ UNCHANGED <<domains, upstreams, keys, challenges>>
  /\ LET r == job[c].call.r
         row == IF job[c].call.u = 0 THEN routes[r] ELSE [routes[r] EXCEPT !.upstream = job[c].call.u]
     IN \/ ~Mine(c, routes[r]) /\ Answer(c, 404) /\ UNCHANGED <<routes, partial>>
        \/ Mine(c, routes[r]) /\ RouteError(row, r) /\ Answer(c, 500) /\ UNCHANGED <<routes, partial>>
        \/ Mine(c, routes[r]) /\ ~RouteError(row, r) /\ routes' = [routes EXCEPT ![r] = row] /\ Same(c)

DeleteRoute(c) ==
  /\ At(c, "route_delete") /\ UNCHANGED <<domains, upstreams, keys, challenges>>
  /\ LET r == job[c].call.r
     IN \/ ~Mine(c, routes[r]) /\ Answer(c, 404) /\ UNCHANGED <<routes, partial>>
        \/ Mine(c, routes[r]) /\ routes' = [routes EXCEPT ![r] = NoRoute] /\ Same(c)

UpstreamNamed(t, n, u) == \E v \in Ids \ {u} : upstreams[v].tenant = t /\ upstreams[v].name = n

InsertUpstream(c) ==
  /\ At(c, "upstream_insert") /\ UNCHANGED <<domains, routes, keys, challenges>>
  /\ LET u == NewId[c]
         clash == UpstreamNamed(job[c].tenant, job[c].call.name, u)
     IN \/ clash /\ Answer(c, 500) /\ UNCHANGED <<upstreams, partial>>
        \/ /\ ~clash
           /\ upstreams' = [upstreams EXCEPT ![u] = [tenant |-> job[c].tenant, name |-> job[c].call.name, backends |-> {}]]
           /\ Then(c, [job[c] EXCEPT !.made = u, !.todo = job[c].call.addresses]) /\ UNCHANGED partial

\* One statement for each backend.
InsertBackends(c) ==
  /\ At(c, "backends_insert") /\ UNCHANGED <<domains, routes, keys, challenges>>
  /\ LET u == job[c].made
     IN \/ job[c].todo = {} /\ UNCHANGED upstreams /\ Same(c)
        \/ job[c].todo # {} /\ upstreams[u] = NoUpstream /\ Answer(c, 500) /\ UNCHANGED <<upstreams, partial>>
        \/ /\ upstreams[u] # NoUpstream
           /\ \E a \in job[c].todo :
                /\ upstreams' = [upstreams EXCEPT ![u].backends = @ \cup {a}]
                /\ Advance(c, [job[c] EXCEPT !.todo = @ \ {a}]) /\ UNCHANGED partial

UpdateUpstream(c) ==
  /\ At(c, "upstream_update") /\ UNCHANGED <<domains, routes, keys, challenges>>
  /\ LET u == job[c].call.u
         clash == UpstreamNamed(job[c].tenant, job[c].call.name, u)
     IN \/ ~Mine(c, upstreams[u]) /\ Answer(c, 404) /\ UNCHANGED <<upstreams, partial>>
        \/ Mine(c, upstreams[u]) /\ clash /\ Answer(c, 500) /\ UNCHANGED <<upstreams, partial>>
        \/ Mine(c, upstreams[u]) /\ ~clash /\ upstreams' = [upstreams EXCEPT ![u].name = job[c].call.name] /\ Same(c)

\* The backends go with it; the routes are left without an upstream.
DeleteUpstream(c) ==
  /\ At(c, "upstream_delete") /\ UNCHANGED <<domains, keys, challenges>>
  /\ LET u == job[c].call.u
     IN \/ ~Mine(c, upstreams[u]) /\ Answer(c, 404) /\ UNCHANGED <<routes, upstreams, partial>>
        \/ /\ Mine(c, upstreams[u])
           /\ upstreams' = [upstreams EXCEPT ![u] = NoUpstream]
           /\ routes' = [r \in Ids |-> IF routes[r].upstream = u THEN [routes[r] EXCEPT !.upstream = 0] ELSE routes[r]]
           /\ Same(c)

InsertBackend(c) ==
  /\ At(c, "backend_insert") /\ UNCHANGED <<domains, routes, keys, challenges>>
  /\ LET u == job[c].call.u
     IN \/ upstreams[u] = NoUpstream /\ Answer(c, 500) /\ UNCHANGED <<upstreams, partial>>
        \/ /\ upstreams[u] # NoUpstream
           /\ upstreams' = [upstreams EXCEPT ![u].backends = @ \cup job[c].call.addresses] /\ Same(c)

\* Mutant: the backend is looked for under its upstream alone.
DeletableByUpstream(c) ==
  job[c].call.addresses \cap upstreams[job[c].call.u].backends # {}

\* The backend, under this upstream, under this tenant.
Deletable(c) ==
  /\ job[c].call.addresses \cap upstreams[job[c].call.u].backends # {}
  /\ Mine(c, upstreams[job[c].call.u])

DeleteBackend(c) ==
  /\ At(c, "backend_delete") /\ UNCHANGED <<domains, routes, keys, challenges>>
  /\ \/ ~Deletable(c) /\ Answer(c, 404) /\ UNCHANGED <<upstreams, partial>>
     \/ /\ Deletable(c)
        /\ upstreams' = [upstreams EXCEPT ![job[c].call.u].backends = @ \ job[c].call.addresses] /\ Same(c)

InsertKey(c) ==
  /\ At(c, "key_insert") /\ UNCHANGED <<domains, routes, upstreams, challenges>>
  /\ LET k == NewId[c]
     IN keys' = [keys EXCEPT ![k] = [NoKey EXCEPT !.tenant = job[c].tenant, !.scopes = {job[c].call.name}]]
  /\ Same(c)

DeleteKey(c) ==
  /\ At(c, "key_delete") /\ UNCHANGED <<domains, routes, upstreams, challenges>>
  /\ LET k == job[c].call.r
     IN \/ ~Mine(c, keys[k]) /\ Answer(c, 404) /\ UNCHANGED <<keys, partial>>
        \/ Mine(c, keys[k]) /\ keys' = [keys EXCEPT ![k] = NoKey] /\ Same(c)

\* The reads, each scoped to the tenant; they change nothing.
List(c) == At(c, "list") /\ UNCHANGED rows /\ Same(c)

Statement(c) ==
  \/ GetDomain(c) \/ GetUpstream(c) \/ GetRoute(c) \/ CheckQuota(c) \/ DomainExists(c)
  \/ InsertDomain(c) \/ InsertChallenge(c) \/ DeleteDomain(c) \/ RecordAttempt(c) \/ CheckProof(c)
  \/ SetVerified(c) \/ SetEnabled(c) \/ UpdateDomain(c)
  \/ InsertRoute(c) \/ UpdateRoute(c) \/ DeleteRoute(c)
  \/ InsertUpstream(c) \/ InsertBackends(c) \/ UpdateUpstream(c) \/ DeleteUpstream(c)
  \/ InsertBackend(c) \/ DeleteBackend(c) \/ InsertKey(c) \/ DeleteKey(c) \/ List(c)

(***************************************************************************)
(* Around the calls                                                        *)
(***************************************************************************)
\* A statement fails: the handler answers 500 and leaves what it had done.
StatementFails(c) ==
  /\ job[c].pc \in {"tenant", "run"} /\ failures < MaxFailures
  /\ failures' = failures + 1
  /\ job' = [job EXCEPT ![c] = [@ EXCEPT !.pc = "done", !.status = 500, !.snap = NoDomain]]
  /\ partial' = IF job[c].made # 0 THEN partial \cup {job[c].made} ELSE partial
  /\ UNCHANGED <<rows, suspended, txt>>

\* An operator suspends a tenant.
Suspend(t) ==
  /\ failures < MaxFailures /\ failures' = failures + 1
  /\ t \notin suspended /\ suspended' = suspended \cup {t}
  /\ UNCHANGED <<rows, txt, job, partial>>

\* Whoever controls a name publishes the token it was given for it.
Publish(n) ==
  /\ \E d \in DomainsOf(Controller[n]) :
       domains[d].name = n /\ d \notin txt[n] /\ txt' = [txt EXCEPT ![n] = @ \cup {d}]
  /\ UNCHANGED <<rows, suspended, job, failures, partial>>

TenantNext ==
  \/ \E c \in Callers : Authenticate(c) \/ Admit(c) \/ Statement(c) \/ StatementFails(c)
  \/ \E t \in Tenants : Suspend(t)
  \/ \E n \in DomainNames : Publish(n)

TenantSpec == TenantStart /\ [][TenantNext]_tenantVars

(***************************************************************************)
(* Properties                                                              *)
(***************************************************************************)
\* The tables keep their types.
TenantTypeOK ==
  /\ \A d \in Ids : domains[d].tenant \in Tenants \cup {""} /\ domains[d].name \in DomainNames \cup {""}
  /\ \A r \in Ids : routes[r].tenant \in Tenants \cup {""} /\ routes[r].domain \in Ids \cup {0}
  /\ \A u \in Ids : upstreams[u].backends \subseteq Addresses
  /\ \A c \in Callers : /\ job[c].pc \in {"auth", "tenant", "run", "done"} /\ job[c].status \in Nat
                         /\ job[c].i \in 1..Len(Program(job[c].call.op))

ActsFor(t) == \E c \in Callers : job[c] # job'[c] /\ job[c].pc = "run" /\ job[c].tenant = t

\* A row changes, appears or goes only in a call of the tenant that owns it,
\* cascades included, whatever ids another tenant's call names.
TenantIsolation ==
  [][/\ \A d \in Ids : domains'[d] # domains[d] => ActsFor(IF domains[d] = NoDomain THEN domains'[d].tenant ELSE domains[d].tenant)
     /\ \A r \in Ids : routes'[r] # routes[r] => ActsFor(IF routes[r] = NoRoute THEN routes'[r].tenant ELSE routes[r].tenant)
     /\ \A u \in Ids : upstreams'[u] # upstreams[u] => ActsFor(IF upstreams[u] = NoUpstream THEN upstreams'[u].tenant ELSE upstreams[u].tenant)
     /\ \A k \in Ids : keys'[k] # keys[k] => ActsFor(IF keys[k] = NoKey THEN keys'[k].tenant ELSE keys[k].tenant)]_tenantVars

\* A route joins a domain and an upstream of its own tenant, though both were
\* checked in statements before the one that wrote it.
RoutesStayHome ==
  \A r \in Ids : routes[r] # NoRoute =>
    /\ domains[routes[r].domain].tenant = routes[r].tenant
    /\ routes[r].upstream # 0 => upstreams[routes[r].upstream].tenant = routes[r].tenant

\* A domain verified by DNS belongs to whoever controls its zone, though it
\* may be deleted and registered by somebody else between the lookup and the
\* update; and only a verified domain is enabled.
VerifiedByController ==
  \A d \in Ids :
    /\ domains[d].status = "verified" /\ domains[d].proof = "dns" => Controller[domains[d].name] = domains[d].tenant
    /\ domains[d].enabled => domains[d].status = "verified"

\* The quota is counted before the insert, so creations that overlap may
\* exceed it, by no more than the others under way.
QuotaOverrunBounded ==
  \A t \in Tenants :
    LET creations == {c \in Callers : job[c].tenant = t /\ job[c].call.op = "create_domain"}
    IN creations # {} => Cardinality(DomainsOf(t)) < MaxDomains[t] + Cardinality(creations)

\* A domain nobody is creating has its challenge, unless a statement of its
\* creation failed.
CreatedWithChallenge ==
  \A d \in Ids : domains[d] # NoDomain =>
    \/ \E x \in challenges : x.domain = d
    \/ d \in partial
    \/ \E c \in Callers : job[c].made = d /\ At(c, "challenge_insert")

\* What a handler checked in one statement holds of what it wrote in a later one,
\* whatever other calls did in between (of the quota, as far as calls overlap),
\* and what it began in one it finished in the next, unless that one failed.
ChecksStillHold == RoutesStayHome /\ VerifiedByController /\ QuotaOverrunBounded /\ CreatedWithChallenge
=============================================================================
