---------------------------- MODULE MCProxyTraffic ----------------------------
(* Three upstreams, the routes that differ in how they match, and scenarios *)
(* that each bring one kind of concurrency into play.                       *)
EXTENDS ProxyTraffic

B(id, addr, w, v) == [id |-> id, address |-> addr, weight |-> w, version |-> v]
U(name, strategy, bs) == [id |-> name, name |-> name, strategy |-> strategy, backends |-> bs]
M0 == [host |-> <<>>, path |-> <<>>, pathType |-> "any", regex |-> {}, methods |-> {}, headers |-> <<>>]
R0 == [match |-> M0, priority |-> 100, upstream |-> "web", strip |-> FALSE, add |-> <<>>, remove |-> {},
       limit |-> <<>>, timeout |-> 5, enabled |-> TRUE]
At0(p, type) == [M0 EXCEPT !.path = p, !.pathType = type]

MCConfig ==
  [upstreams |-> <<U("web", "round_robin", <<B("b1", "h1", 100, "http11"), B("b2", "h2", 100, "h2c"), B("", "h3", 100, "http11")>>),
                   U("one", "sticky", <<B("b1", "h1", 100, "http11")>>),
                   U("least", "least_connections", <<B("b1", "h1", 100, "http11"), B("b2", "h2", 0, "http11")>>),
                   U("rand", "random", <<B("b1", "h1", 1, "http11"), B("b2", "h2", 1, "http11")>>),
                   U("weigh", "weighted", <<B("b1", "h1", 0, "http11"), B("b2", "h2", 2, "http11")>>),
                   U("zero", "weighted", <<B("b1", "h1", 0, "http11")>>),
                   U("empty", "round_robin", <<>>)>>,
   routes |-> <<[R0 EXCEPT !.match = At0(<<"/api">>, "prefix"), !.strip = TRUE,
                           !.add = [n \in {"x-team"} |-> "a"], !.remove = {"cookie"}],
                [R0 EXCEPT !.match = [At0(<<"/api", "/v1">>, "exact") EXCEPT !.methods = {"GET"}], !.upstream = "least"],
                [R0 EXCEPT !.match = [At0(<<"/api">>, "prefix") EXCEPT !.host = <<"*", "a", "com">>], !.upstream = "rand"],
                [R0 EXCEPT !.match = [At0(<<>>, "regex") EXCEPT !.regex = {<<"/w">>}], !.upstream = "weigh", !.timeout = 30],
                [R0 EXCEPT !.match = At0(<<"/z">>, "prefix"), !.upstream = "zero", !.priority = 1],
                [R0 EXCEPT !.match = At0(<<"/e">>, "prefix"), !.upstream = "empty", !.timeout = 60],
                [R0 EXCEPT !.match = At0(<<"/n">>, "prefix"), !.upstream = "nowhere"],
                [R0 EXCEPT !.match = [M0 EXCEPT !.headers = [n \in {"x-beta"} |-> "1"]], !.upstream = "one", !.priority = 200],
                [R0 EXCEPT !.match = At0(<<"/l">>, "prefix"), !.upstream = "empty", !.limit = <<1, 1>>],
                [R0 EXCEPT !.match = At0(<<"/l", "/m">>, "prefix"), !.upstream = "empty", !.limit = <<4, 2>>],
                [R0 EXCEPT !.match = At0(<<"/slow">>, "prefix"), !.limit = <<2, 60>>, !.timeout = 60],
                [R0 EXCEPT !.match = M0, !.enabled = FALSE, !.priority = 900]>>]

Get(path) == [client |-> "c1", method |-> "GET", path |-> path, version |-> "http11", protocol |-> None,
              authority |-> <<>>, proto |-> "http", headers |-> [n \in {"host"} |-> <<"x", "a", "com">>]]
H(names) == [n \in names |-> CASE n = "host" -> <<"w", "b", "com">>
                               [] n = "connection" -> {"upgrade", "x-forwarded-for", "te", "host"}
                               [] n = "x-forwarded-for" -> <<"c9">>
                               [] n = "upgrade" -> "websocket"
                               [] OTHER -> "1"]
Upgrade == [Get(<<"/api">>) EXCEPT !.headers = H({"host", "connection", "upgrade"})]
Connect == [Get(<<"/api">>) EXCEPT !.method = "CONNECT", !.version = "http2", !.protocol = "websocket",
                                   !.headers = H({}), !.authority = <<"w", "b", "com">>]

S0 == [requests |-> <<>>, clock |-> 1000, maxAhead |-> 0, mayStepBack |-> FALSE, ttl |-> 9000,
       registered |-> {}, checks |-> 0, frames |-> 0, changes |-> FALSE, registers |-> FALSE]
With1(q) == [S0 EXCEPT !.requests = <<q>>]

Messages ==
  {With1([Get(p) EXCEPT !.headers = H(n), !.method = m]) :
     p \in {<<"/api">>, <<"/api", "/v1">>, <<"/api", "-x">>}, m \in {"GET", "POST"},
     n \in {{}, {"host"}} \cup {{"host", "connection"} \cup x : x \in SUBSET {"upgrade", "x-forwarded-for", "x-beta", "x-real-ip"}}
          \cup {{"host", "content-length", "transfer-encoding"}, {"host", "transfer-encoding", "te", "cookie"}}}
  \cup {With1(Get(p)) : p \in {<<"/api">>, <<"/w">>, <<"/z">>, <<"/e">>, <<"/n">>, <<"/slow">>, <<"/none">>}}
Spread == {[S0 EXCEPT !.requests = <<[Get(<<"/api", "/x">>) EXCEPT !.headers = H({"host"})],
                                     [Get(<<"/api", "/y">>) EXCEPT !.headers = H({"host"})]>>,
                      !.registered = {"b1"}, !.checks = 2]}
Health == {[S0 EXCEPT !.registered = {"b1"}, !.checks = 5, !.registers = TRUE],
           [With1(Get(<<"/api">>)) EXCEPT !.registered = {"b1"}, !.checks = 2, !.registers = TRUE]}
Limited == {[S0 EXCEPT !.requests = <<Get(<<"/l">>), Get(<<"/l">>), Get(q)>>, !.maxAhead = 1000] : q \in {<<"/l">>, <<"/l", "/m">>}}
           \cup {[S0 EXCEPT !.requests = <<Get(<<"/l">>), Get(<<"/l">>)>>,
                            !.maxAhead = 1500, !.mayStepBack = TRUE, !.ttl = 1000],
                 [S0 EXCEPT !.requests = <<Get(<<"/slow">>), [Get(<<"/l">>) EXCEPT !.client = "c2"]>>, !.maxAhead = 1000]}
Tunnels == {[With1(q) EXCEPT !.frames = 3] : q \in {Upgrade, Connect}}

(* While requests are on their way: the upstream "one" comes under a new id *)
(* the manager has not registered, and the /api routes are disabled.        *)
MCChanged ==
  {MCConfig,
   [MCConfig EXCEPT !.upstreams[2].id = "new", !.routes[8].limit = <<1, 1>>],
   [MCConfig EXCEPT !.routes[1].enabled = FALSE, !.routes[2].enabled = FALSE, !.routes[3].enabled = FALSE]}
Reconfigured == {[S0 EXCEPT !.changes = TRUE,
                            !.requests = <<[Get(<<"/api">>) EXCEPT !.headers = H({"host", "x-beta"})], Get(<<"/api", "/v1">>)>>]}

MCScenarios == Reconfigured \cup Messages \cup Spread \cup Health \cup Limited \cup Tunnels
MCShard == [b \in {"b1", "b2"} |-> 1]
=============================================================================
