----------------------------- MODULE ProxyTraffic -----------------------------
(***************************************************************************)
(* Requests going through the reverse proxy at the same time               *)
(* (vendored/proxy.rs, vendored/backend.rs, vendored/forwarder.rs), the    *)
(* token buckets they share (ratelimit/), the health of the backends they  *)
(* choose among (health/checker.rs) and the tunnels an upgrade leaves      *)
(* behind.                                                                 *)
(*                                                                         *)
(* Steps that other tasks can come between are actions of their own: the   *)
(* four accesses of try_acquire_n to its two words, the load and the store *)
(* of the round-robin pointer, the await of a health check, the two maps a *)
(* registration changes.  A timer is an event that may happen while the    *)
(* code waits and that does happen if nothing else does; the wall clock,   *)
(* which only the buckets read, may step back.                             *)
(***************************************************************************)
EXTENDS ProxyMessage

CONSTANTS
  Config,      \* [routes, upstreams]: the configuration the process starts with
  Changed,     \* configurations the admin API may leave in its place
  ForwarderTimeout, \* seconds the forwarder gives an exchange
  Scenarios,   \* what happens in a behaviour: its requests and its limits
  Step,        \* milliseconds of one clock step
  Backends,    \* the backends with an id, the only ones whose health is looked up
  Shard,       \* the DashMap shard each of them is kept in
  HealthyThreshold, UnhealthyThreshold

Configs == {Config} \cup Changed

Strategies == {"round_robin", "sticky", "least_connections", "random", "weighted"}

(* A list is one: its elements are numbered from 1.                        *)
IsList(s) == s \in Seq({s[i] : i \in DOMAIN s})

(* The types of what the process is given.  A limit is the requests and    *)
(* the seconds of its window, two counts; the thresholds are positive, as  *)
(* config/database.rs requires of them.                                    *)
ASSUME TrafficAssumption ==
  /\ Step \in Nat
  /\ {HealthyThreshold, UnhealthyThreshold} \subseteq Nat \ {0}
  /\ \A c \in Configs :
       /\ IsList(c.routes) /\ IsList(c.upstreams)
       /\ \A i \in DOMAIN c.routes :
            /\ c.routes[i].limit \in {<<>>} \cup (Nat \X Nat)
            /\ c.routes[i].priority \in Int /\ IsList(c.routes[i].match.path)
  /\ \A i \in DOMAIN Config.upstreams :
       IsList(Config.upstreams[i].backends) /\ Config.upstreams[i].strategy \in Strategies
  /\ None \notin Backends
  /\ \A s \in Scenarios :
       /\ s.clock \in Nat /\ s.registered \subseteq Backends /\ IsList(s.requests)
       /\ \A r \in DOMAIN s.requests :
            "x-forwarded-for" \in DOMAIN s.requests[r].headers => IsList(s.requests[r].headers["x-forwarded-for"])

VARIABLES
  sc,          \* the scenario
  config,      \* the configuration behind the lock
  registry,    \* the upstreams load_config registered, by id
  clock, ahead, \* the wall clock, and the total of its forward steps
  req,         \* per request: where it is, what it holds, how it was answered
  bucket,      \* per client: the bucket and its entry's last access, or NoBucket
  lock,        \* per client: the request that holds the entry's shard, or 0
  ptr,         \* per upstream: the round-robin pointer
  backends, health, \* the health checker's two maps
  streak,      \* per backend: the outcomes since it was registered, newest first
  checking,    \* the backend a health request is out for, or None
  op,          \* a registration in progress: <<>> or <<which, backend>>
  tunnel       \* per request: the spliced streams

vars == <<sc, config, registry, clock, ahead, req, bucket, lock, ptr, backends, health, streak, checking, op, tunnel>>

Scale == 1000   \* milli-tokens of a token
NoBucket == [born |-> -1]
DefaultHealth == [ok |-> TRUE, succ |-> 0, fail |-> 0]
NoTunnel == [open |-> FALSE, sent |-> 0, got |-> 0, upOpen |-> FALSE, clientOpen |-> FALSE, reset |-> FALSE,
             toClient |-> "none", toUpstream |-> "none"]

Clients == {sc.requests[r].client : r \in DOMAIN sc.requests}

Min(a, b) == IF a < b THEN a ELSE b
Monus(a, b) == IF a > b THEN a - b ELSE 0

(* load_config: of upstreams with one id the last stays registered.        *)
LoadConfig(ups) ==
  [id \in {ups[i].id : i \in DOMAIN ups} |->
     ups[CHOOSE i \in DOMAIN ups : ups[i].id = id /\ \A j \in DOMAIN ups : ups[j].id = id => j <= i]]

Init ==
  /\ sc \in Scenarios
  /\ config = Config /\ registry = LoadConfig(Config.upstreams)
  /\ clock = sc.clock /\ ahead = 0
  /\ req = [r \in DOMAIN sc.requests |->
             [pc |-> "match", route |-> <<>>, up |-> None, backend |-> 0, now |-> 0, last |-> 0, seen |-> 0,
              healthy |-> {}, cur |-> 0, status |-> 0]]
  /\ bucket = [c \in Clients |-> NoBucket]
  /\ lock = [c \in Clients |-> 0]
  /\ ptr = [u \in DOMAIN registry |-> 0]
  /\ backends = sc.registered
  /\ health = [b \in sc.registered |-> DefaultHealth]
  /\ streak = [b \in Backends |-> <<>>]
  /\ checking = None /\ op = <<>>
  /\ tunnel = [r \in DOMAIN sc.requests |-> NoTunnel]

At(r, pc) == req[r].pc = pc
Go(r, pc) == req' = [req EXCEPT ![r].pc = pc]
Answer(r, status) == req' = [req EXCEPT ![r].pc = "answered", ![r].status = status]
Client(r) == sc.requests[r].client
Route(r) == req[r].route[1]
Upstream(r) == registry[req[r].up]
Backend(r) == Upstream(r).backends[req[r].backend]

settings == <<sc, config, registry>>

healthVars == <<backends, health, streak, checking, op>>
bucketVars == <<clock, ahead, bucket, lock>>

(* handle_request: a copy of the route and the id of the upstream it       *)
(* names, under one read of the configuration.                             *)
MatchRequest(r) ==
  /\ At(r, "match")
  /\ \E i \in {MatchRoute(config.routes, sc.requests[r])} :
       IF i = 0 THEN Answer(r, 404)
       ELSE \E u \in {FindUpstream(config.upstreams, config.routes[i].upstream)} :
              IF u = 0 THEN Answer(r, 503)
              ELSE req' = [req EXCEPT ![r].route = <<config.routes[i]>>, ![r].up = config.upstreams[u].id,
                                      ![r].pc = IF config.routes[i].limit = <<>> THEN "select" ELSE "enter"]
  /\ UNCHANGED <<settings, bucketVars, ptr, healthVars, tunnel>>

(* The admin API writes the configuration; nothing registers what it adds. *)
Reconfigure ==
  /\ sc.changes
  /\ \E c \in Changed : config # c /\ config' = c
  /\ UNCHANGED <<sc, registry, req, bucketVars, ptr, healthVars, tunnel>>

----
(* The rate limiter.                                                       *)

(* requests.checked_div(window_secs), or requests when the window is zero. *)
Rps(limit) == IF limit[2] = 0 THEN limit[1] ELSE limit[1] \div limit[2]

NewBucket(limit) ==
  [born |-> ahead, cap |-> limit[1], rate |-> Rps(limit), tokens |-> limit[1] * Scale,
   last |-> clock, granted |-> 0, access |-> ahead]

(* Mutant: the entry's guard is released before try_acquire.               *)
EnterUnlocked(r) ==
  LET c == Client(r)
  IN /\ At(r, "enter")
     /\ bucket' = [bucket EXCEPT ![c] = IF @ = NoBucket THEN NewBucket(Route(r).limit) ELSE [@ EXCEPT !.access = ahead]]
     /\ req' = [req EXCEPT ![r].pc = "load", ![r].now = clock]
     /\ UNCHANGED <<settings, clock, ahead, lock, ptr, healthVars, tunnel>>

(* check_with_config takes the entry, which locks its shard until the      *)
(* function returns, makes a bucket when there is none, and reads the      *)
(* clock.                                                                  *)
EnterBucket(r) ==
  LET c == Client(r)
  IN /\ At(r, "enter")
     /\ lock[c] = 0
     /\ lock' = [lock EXCEPT ![c] = r]
     /\ bucket' = [bucket EXCEPT ![c] = IF @ = NoBucket THEN NewBucket(Route(r).limit) ELSE [@ EXCEPT !.access = ahead]]
     /\ req' = [req EXCEPT ![r].pc = "load", ![r].now = clock]
     /\ UNCHANGED <<settings, clock, ahead, ptr, healthVars, tunnel>>

LoadBucket(r) ==
  LET b == bucket[Client(r)]
  IN /\ At(r, "load")
     /\ req' = [req EXCEPT ![r].pc = "cas", ![r].last = b.last, ![r].seen = b.tokens]
     /\ UNCHANGED <<settings, bucketVars, ptr, healthVars, tunnel>>

(* What the bucket would hold: the elapsed time times the rate, capped.    *)
Refilled(r) ==
  LET b == bucket[Client(r)]
  IN Min(req[r].seen + Monus(req[r].now, req[r].last) * b.rate, b.cap * Scale)

Unlock(r) == lock' = IF lock[Client(r)] = r THEN [lock EXCEPT ![Client(r)] = 0] ELSE lock

(* Too few tokens: refused, and neither word is written.                   *)
RefuseRequest(r) ==
  /\ At(r, "cas")
  /\ Refilled(r) < Scale
  /\ Answer(r, 429)
  /\ Unlock(r)
  /\ UNCHANGED <<settings, clock, ahead, bucket, ptr, healthVars, tunnel>>

TakeToken(r) ==
  LET c == Client(r)
  IN /\ At(r, "cas")
     /\ Refilled(r) >= Scale
     /\ bucket[c].tokens = req[r].seen
     /\ bucket' = [bucket EXCEPT ![c].tokens = Refilled(r) - Scale, ![c].granted = @ + 1]
     /\ Go(r, "stamp")
     /\ UNCHANGED <<settings, clock, ahead, lock, ptr, healthVars, tunnel>>

(* compare_exchange_weak found another value, or failed for no reason.     *)
RetryToken(r) ==
  /\ At(r, "cas")
  /\ Refilled(r) >= Scale
  /\ Go(r, "load")
  /\ UNCHANGED <<settings, bucketVars, ptr, healthVars, tunnel>>

(* The time of the refill, unless another caller has stamped it.           *)
StampRefill(r) ==
  LET c == Client(r)
  IN /\ At(r, "stamp")
     /\ bucket' = [bucket EXCEPT ![c].last = IF @ = req[r].last THEN req[r].now ELSE @]
     /\ Unlock(r)
     /\ Go(r, "select")
     /\ UNCHANGED <<settings, clock, ahead, ptr, healthVars, tunnel>>

(* cleanup_expired drops the entries nobody used for the time to live; it  *)
(* locks each shard in turn, and so waits for the callers inside.          *)
Inside(r) == req[r].pc \in {"load", "cas", "stamp"}
CleanupExpired ==
  /\ \E c \in Clients : bucket[c] # NoBucket /\ ahead - bucket[c].access >= sc.ttl
  /\ \A r \in DOMAIN req : ~Inside(r)
  /\ bucket' = [c \in Clients |-> IF bucket[c] # NoBucket /\ ahead - bucket[c].access >= sc.ttl
                                  THEN NoBucket ELSE bucket[c]]
  /\ UNCHANGED <<settings, clock, ahead, req, lock, ptr, healthVars, tunnel>>

Tick ==
  /\ ahead + Step <= sc.maxAhead
  /\ clock' = clock + Step /\ ahead' = ahead + Step
  /\ UNCHANGED <<settings, req, bucket, lock, ptr, healthVars, tunnel>>

(* The system clock is set back.                                           *)
StepBack ==
  /\ sc.mayStepBack /\ clock >= Step
  /\ clock' = clock - Step
  /\ UNCHANGED <<settings, ahead, req, bucket, lock, ptr, healthVars, tunnel>>

----
(* Choosing a backend.                                                     *)

(* Unknown to the checker, or without an id: taken to be healthy.          *)
IsHealthy(b) == b.id \in DOMAIN health => health[b.id].ok

HealthyBackends(u) == {i \in DOMAIN u.backends : IsHealthy(u.backends[i])}

(* from_strategy and get_ptr: "sticky" is round robin; nothing ever calls  *)
(* increment, so the first backend always has the fewest connections; a    *)
(* weighted draw takes an index in proportion to its weight.               *)
RoundRobin(u) == u.strategy \in {"round_robin", "sticky"}
Draws(u) ==
  LET n == Len(u.backends)
  IN CASE u.strategy = "least_connections" -> {0}
       [] u.strategy = "random" -> 0..(n - 1)
       [] u.strategy = "weighted" -> {i \in 0..(n - 1) : u.backends[i + 1].weight > 0}

(* An empty range to draw from panics: the connection's task dies.         *)
DrawPanics(u) == u.strategy = "weighted" /\ \A i \in DOMAIN u.backends : u.backends[i].weight = 0

Unregistered == [strategy |-> "round_robin", backends |-> <<>>]

(* The healthy ones in their order, counted round to the draw.             *)
Chosen(healthy, draw) ==
  CHOOSE i \in healthy : Cardinality({j \in healthy : j < i}) = draw % Cardinality(healthy)

(* select_backend up to get_ptr's load of the pointer; an upstream the     *)
(* manager does not know has no backends.                                  *)
SelectBackend(r) ==
  /\ At(r, "select")
  /\ \E u \in {IF req[r].up \in DOMAIN registry THEN Upstream(r) ELSE Unregistered} :
     \E healthy \in {HealthyBackends(u)} :
        \/ u.backends = <<>> /\ Answer(r, 503)
        \/ /\ u.backends # <<>> /\ healthy = {}
           /\ req' = [req EXCEPT ![r].pc = "build", ![r].backend = 1, ![r].healthy = healthy]
        \/ /\ healthy # {} /\ RoundRobin(u)
           /\ req' = [req EXCEPT ![r].pc = "store", ![r].cur = ptr[req[r].up], ![r].healthy = healthy]
        \/ healthy # {} /\ ~RoundRobin(u) /\ DrawPanics(u) /\ Go(r, "dropped")
        \/ /\ healthy # {} /\ ~RoundRobin(u) /\ ~DrawPanics(u)
           /\ \E i \in Draws(u) :
                req' = [req EXCEPT ![r].pc = "build", ![r].backend = Chosen(healthy, i), ![r].healthy = healthy]
  /\ UNCHANGED <<settings, bucketVars, ptr, healthVars, tunnel>>

StorePtr(r) ==
  /\ At(r, "store")
  /\ ptr' = [ptr EXCEPT ![req[r].up] = (req[r].cur + 1) % Len(Upstream(r).backends)]
  /\ req' = [req EXCEPT ![r].pc = "build", ![r].backend = Chosen(req[r].healthy, req[r].cur)]
  /\ UNCHANGED <<settings, bucketVars, healthVars, tunnel>>

----
(* The message for the upstream, and what comes back.                      *)

(* The framing is looked at before the strip removes what tells; what then *)
(* goes out is Sent(r).                                                    *)
BuildRequest(r) ==
  /\ At(r, "build")
  /\ IF HasAmbiguousFraming(sc.requests[r].headers) THEN Answer(r, 400) ELSE Go(r, "sent")
  /\ UNCHANGED <<settings, bucketVars, ptr, healthVars, tunnel>>

Sent(r) == Outbound(sc.requests[r], Route(r), Backend(r))

(* The upstream answers; to an upgrade it may answer that it switches.     *)
UpstreamAnswers(r) ==
  /\ At(r, "sent")
  /\ Answer(r, 200)
  /\ UNCHANGED <<settings, bucketVars, ptr, healthVars, tunnel>>

(* 101 on the upstream's side; to an HTTP/2 client it is 200.              *)
SwitchStatus(r) == IF Carrier(sc.requests[r]) = "upgrade" THEN 101 ELSE 200

UpstreamSwitches(r) ==
  /\ At(r, "sent")
  /\ Carrier(sc.requests[r]) # "plain"
  /\ Answer(r, SwitchStatus(r))
  /\ tunnel' = [tunnel EXCEPT ![r] = [NoTunnel EXCEPT !.open = TRUE, !.upOpen = TRUE, !.clientOpen = TRUE,
                                                     !.toClient = "copying", !.toUpstream = "copying"]]
  /\ UNCHANGED <<settings, bucketVars, ptr, healthVars>>

UpstreamRefuses(r) ==
  /\ At(r, "sent")
  /\ Answer(r, 502)
  /\ UNCHANGED <<settings, bucketVars, ptr, healthVars, tunnel>>

(* The forwarder gives every exchange its own limit, answered 502; a plain *)
(* request is also under the route's, answered 504.  The shorter one       *)
(* expires first, and either may when they are the same.                   *)
TimeoutStatus(r) ==
  IF Carrier(sc.requests[r]) # "plain" \/ Route(r).timeout > ForwarderTimeout THEN {502}
  ELSE IF Route(r).timeout = ForwarderTimeout THEN {502, 504} ELSE {504}

(* Mutant: only a plain request is under a limit.                          *)
PlainTimesOut(r) ==
  /\ At(r, "sent") /\ Carrier(sc.requests[r]) = "plain"
  /\ \E s \in TimeoutStatus(r) : Answer(r, s)
  /\ UNCHANGED <<settings, bucketVars, ptr, healthVars, tunnel>>

TimesOut(r) ==
  /\ At(r, "sent")
  /\ \E s \in TimeoutStatus(r) : Answer(r, s)
  /\ UNCHANGED <<settings, bucketVars, ptr, healthVars, tunnel>>

----
(* splice: each direction runs to its own end and then half-closes the     *)
(* stream it writes to.  A copy ends when what it reads from is exhausted  *)
(* and closed, or when the stream it writes to is gone.                    *)

Splicing(r) == tunnel[r].open
OnlyTunnel == UNCHANGED <<settings, clock, ahead, req, bucket, lock, ptr, healthVars>>

UpstreamSends(r) ==
  /\ Splicing(r) /\ tunnel[r].upOpen /\ tunnel[r].sent < sc.frames
  /\ tunnel' = [tunnel EXCEPT ![r].sent = @ + 1]
  /\ OnlyTunnel

UpstreamCloses(r) ==
  /\ Splicing(r) /\ tunnel[r].upOpen
  /\ tunnel' = [tunnel EXCEPT ![r].upOpen = FALSE]
  /\ OnlyTunnel

ClientCloses(r) ==
  /\ Splicing(r) /\ tunnel[r].clientOpen
  /\ tunnel' = [tunnel EXCEPT ![r].clientOpen = FALSE]
  /\ OnlyTunnel

ClientResets(r) ==
  /\ Splicing(r) /\ ~tunnel[r].reset
  /\ tunnel' = [tunnel EXCEPT ![r].clientOpen = FALSE, ![r].reset = TRUE]
  /\ OnlyTunnel

Ended(t) == t.toClient # "copying" /\ t.toUpstream # "copying"
Closing(r, t) == tunnel' = [tunnel EXCEPT ![r] = [t EXCEPT !.open = ~Ended(t)]]

CopyToClient(r) ==
  /\ Splicing(r) /\ tunnel[r].toClient = "copying" /\ tunnel[r].got < tunnel[r].sent
  /\ tunnel' = [tunnel EXCEPT ![r].got = @ + 1]
  /\ OnlyTunnel

ToClientEnds(r) ==
  /\ Splicing(r) /\ tunnel[r].toClient = "copying"
  /\ \/ ~tunnel[r].upOpen /\ tunnel[r].got = tunnel[r].sent
     \/ tunnel[r].reset
  /\ Closing(r, [tunnel[r] EXCEPT !.toClient = IF tunnel[r].reset THEN "failed" ELSE "done"])
  /\ OnlyTunnel

(* The client has finished writing, or a write to a closed upstream fails. *)
ToUpstreamEnds(r) ==
  /\ Splicing(r) /\ tunnel[r].toUpstream = "copying"
  /\ \/ ~tunnel[r].clientOpen /\ Closing(r, [tunnel[r] EXCEPT !.toUpstream = "done"])
     \/ ~tunnel[r].upOpen /\ Closing(r, [tunnel[r] EXCEPT !.toUpstream = "failed"])
  /\ OnlyTunnel

----
(* The health checker.                                                     *)

OnlyHealth == UNCHANGED <<settings, clock, ahead, req, bucket, lock, ptr, tunnel>>

(* Mutant: the check iterates over a copy of the map.                      *)
FreeWhileChecking(b) == TRUE

(* The iteration keeps the shard of the entry it has reached, across the   *)
(* await of the request to it; check_all_backends visits the entries in an *)
(* order of the map's own, again after every interval.                     *)
Free(b) == checking # None => Shard[checking] # Shard[b]

BeginCheck(b) ==
  /\ checking = None /\ b \in backends
  /\ Len(streak[b]) < sc.checks
  /\ checking' = b
  /\ UNCHANGED <<backends, health, streak, op>> /\ OnlyHealth

Successful(h) ==
  [ok |-> h.ok \/ h.succ + 1 >= HealthyThreshold, succ |-> h.succ + 1, fail |-> 0]
Failed(h) ==
  [ok |-> h.ok /\ h.fail + 1 < UnhealthyThreshold, succ |-> 0, fail |-> h.fail + 1]

(* update_health: the entry, made when absent, counts the outcome.         *)
UpdateHealth(success) ==
  LET b == checking
      h == IF b \in DOMAIN health THEN health[b] ELSE DefaultHealth
  IN /\ checking # None
     /\ health' = [x \in DOMAIN health \cup {b} |->
                     IF x = b THEN (IF success THEN Successful(h) ELSE Failed(h)) ELSE health[x]]
     /\ streak' = [streak EXCEPT ![b] = <<success>> \o @]
     /\ checking' = None
     /\ UNCHANGED <<backends, op>> /\ OnlyHealth

(* register_backend and unregister_backend change the two maps in turn.    *)
RegisterBackend(b) ==
  /\ sc.registers /\ op = <<>> /\ b \notin backends /\ Free(b)
  /\ backends' = backends \cup {b}
  /\ op' = <<"register", b>>
  /\ UNCHANGED <<health, streak, checking>> /\ OnlyHealth

UnregisterBackend(b) ==
  /\ sc.registers /\ op = <<>> /\ b \in backends /\ Free(b)
  /\ backends' = backends \ {b}
  /\ op' = <<"unregister", b>>
  /\ UNCHANGED <<health, streak, checking>> /\ OnlyHealth

FinishRegistration ==
  /\ op # <<>>
  /\ LET b == op[2]
     IN /\ health' = IF op[1] = "register"
                     THEN [x \in DOMAIN health \cup {b} |-> IF x = b THEN DefaultHealth ELSE health[x]]
                     ELSE [x \in DOMAIN health \ {b} |-> health[x]]
        /\ streak' = [streak EXCEPT ![b] = <<>>]
  /\ op' = <<>>
  /\ UNCHANGED <<backends, checking>> /\ OnlyHealth

----
RequestStep(r) ==
  \/ MatchRequest(r) \/ EnterBucket(r) \/ LoadBucket(r) \/ RefuseRequest(r) \/ StampRefill(r)
  \/ SelectBackend(r) \/ StorePtr(r) \/ BuildRequest(r) \/ TimesOut(r)

TunnelStep(r) == CopyToClient(r) \/ ToClientEnds(r) \/ ToUpstreamEnds(r)

Environment ==
  \/ Reconfigure \/ Tick \/ StepBack \/ CleanupExpired
  \/ \E r \in DOMAIN req :
       \/ UpstreamAnswers(r) \/ UpstreamSwitches(r) \/ UpstreamRefuses(r)
       \/ UpstreamSends(r) \/ UpstreamCloses(r) \/ ClientCloses(r) \/ ClientResets(r)

HealthStep ==
  \/ \E b \in Backends : BeginCheck(b) \/ RegisterBackend(b) \/ UnregisterBackend(b)
  \/ \E success \in BOOLEAN : UpdateHealth(success)
  \/ FinishRegistration

Next ==
  \/ \E r \in DOMAIN req : RequestStep(r) \/ TakeToken(r) \/ RetryToken(r) \/ TunnelStep(r)
  \/ Environment
  \/ HealthStep

(* The runtime goes on polling tasks that can go on, timers expire, and a  *)
(* compare-and-swap does not fail for ever.                                *)
Fairness ==
  /\ WF_vars(\E r \in DOMAIN req : RequestStep(r) \/ TunnelStep(r))
  /\ SF_vars(\E r \in DOMAIN req : TakeToken(r))

Spec == Init /\ [][Next]_vars /\ Fairness
----
TypeOK ==
  /\ \A r \in DOMAIN req :
       /\ req[r].pc \in {"match", "enter", "load", "cas", "stamp", "select", "store", "build", "sent", "answered", "dropped"}
       /\ req[r].pc = "answered" <=> req[r].status # 0
       /\ req[r].status \in {0, 101, 200, 400, 404, 429, 502, 503, 504}
       /\ req[r].pc \in {"build", "sent"} => req[r].backend \in DOMAIN Upstream(r).backends
  /\ \A c \in Clients :
       /\ lock[c] # 0 => req[lock[c]].pc \in {"load", "cas", "stamp"}
       /\ bucket[c] # NoBucket => bucket[c].tokens \in 0..(bucket[c].cap * Scale)
  /\ \A u \in DOMAIN registry : ptr[u] = 0 \/ ptr[u] \in 0..(Len(registry[u].backends) - 1)

(* A bucket never grants more than its capacity and what its rate brings   *)
(* in the time it has lived, however its callers interleave between its    *)
(* two words and whatever the clock does: check_with_config holds the      *)
(* entry for the whole of try_acquire.                                     *)
GrantsWithinRate ==
  \A c \in Clients : bucket[c] # NoBucket =>
    bucket[c].granted * Scale <= bucket[c].cap * Scale + bucket[c].rate * (ahead - bucket[c].born)

(* A backend is out of rotation exactly when a full run of failures has    *)
(* not been followed by a full run of successes since it was registered:   *)
(* update_health resets one count on the other outcome.                    *)
Run(s, i, n, v) == i + n - 1 <= Len(s) /\ \A k \in i..(i + n - 1) : s[k] = v
HealthFollowsRuns ==
  \A b \in DOMAIN health \ {op[i] : i \in DOMAIN op} :
    health[b].ok <=>
      ~\E i \in DOMAIN streak[b] :
         /\ Run(streak[b], i, UnhealthyThreshold, FALSE)
         /\ \A j \in 1..(i - 1) : ~(j + HealthyThreshold - 1 < i /\ Run(streak[b], j, HealthyThreshold, TRUE))

(* A check that was out while its backend was unregistered does not bring  *)
(* the backend's health back: the iteration still holds the entry, so the  *)
(* removal waits for update_health.                                        *)
NoHealthWithoutBackend == DOMAIN health \subseteq backends \cup {op[i] : i \in DOMAIN op}

(* A request goes to a backend that was unhealthy when the proxy looked    *)
(* only when all of the upstream's were.                                   *)
SickOnlyWhenAllAre ==
  \A r \in DOMAIN req : req[r].pc \in {"build", "sent"} =>
    req[r].healthy = {} \/ req[r].backend \in req[r].healthy

(* What the upstream receives carries no hop-by-hop header of the client's *)
(* but the pair of an upgrade, and names the client last in                *)
(* X-Forwarded-For whatever the client put in Connection, unless the       *)
(* route's own rules say otherwise.                                        *)
ForwardedClean ==
  \A r \in DOMAIN req : req[r].pc = "sent" =>
    LET h == Sent(r).headers
        mine == DOMAIN Route(r).add \cup Route(r).remove
        pair == IF Carrier(sc.requests[r]) = "plain" THEN {} ELSE {"upgrade", "connection"}
    IN /\ (DOMAIN h \cap HopByHop) \subseteq (mine \cup pair)
       /\ "x-forwarded-for" \notin mine =>
            "x-forwarded-for" \in DOMAIN h /\ h["x-forwarded-for"][Len(h["x-forwarded-for"])] = Client(r)
       /\ h["host"] = Backend(r).address

(* A tunnel that has closed delivered everything the upstream had sent to  *)
(* a client that was still there: the failure of one direction does not    *)
(* cancel the other.                                                       *)
TunnelDrains ==
  \A r \in DOMAIN tunnel :
    ~tunnel[r].open /\ tunnel[r].toClient # "none" /\ ~tunnel[r].reset => tunnel[r].got = tunnel[r].sent

(* Every request is answered whatever its upstream does, unless a draw     *)
(* over weights that sum to zero killed its task.                          *)
EventuallyAnswered ==
  <>(\A r \in DOMAIN req : req[r].pc = "answered" \/ (req[r].pc = "dropped" /\ DrawPanics(Upstream(r))))

(* A tunnel whose two ends have closed is torn down.                       *)
Abandoned(r) == tunnel[r].open /\ ~tunnel[r].upOpen /\ ~tunnel[r].clientOpen
TunnelCloses == (\E r \in DOMAIN req : Abandoned(r)) ~> (\A r \in DOMAIN req : ~Abandoned(r))

(* Health is what the checks saw of a registered backend, and requests     *)
(* follow it: HealthFollowsRuns, NoHealthWithoutBackend and                *)
(* SickOnlyWhenAllAre, with checks, registrations and requests in any      *)
(* order.                                                                  *)
HealthIsKept == HealthFollowsRuns /\ NoHealthWithoutBackend /\ SickOnlyWhenAllAre

(* Every exchange ends, and a tunnel ends with everything delivered.       *)
ExchangesEnd == EventuallyAnswered /\ TunnelCloses /\ []TunnelDrains
=============================================================================
