----------------------------- MODULE ProxyMessage -----------------------------
(***************************************************************************)
(* What the reverse proxy computes for one request without keeping state:  *)
(* which route matches (config/types.rs), and the message that goes to the *)
(* upstream (vendored/handler.rs, vendored/forwarder.rs).                  *)
(*                                                                         *)
(* A host is its sequence of labels, without the port; a path is a         *)
(* sequence of pieces, of which those in SlashPieces begin with "/", so    *)
(* that a prefix may end inside a segment; headers are a function from the *)
(* lower-case names present to their values.  The value of "connection"    *)
(* is the set of its tokens, that of "x-forwarded-for" a sequence.  A      *)
(* route without a host has the empty pattern, one without a path has the  *)
(* path type "any"; a request without an authority has the empty one.      *)
(***************************************************************************)
EXTENDS Integers, Sequences, FiniteSets

CONSTANT SlashPieces

None == "none"

Starts(s, p) == Len(p) <= Len(s) /\ SubSeq(s, 1, Len(p)) = p
Without(h, names) == [n \in DOMAIN h \ names |-> h[n]]
Set(h, n, v) == [m \in DOMAIN h \cup {n} |-> IF m = n THEN v ELSE h[m]]

(* The Host header, or over HTTP/2 the authority of the URI.               *)
RequestHost(req) ==
  IF "host" \in DOMAIN req.headers THEN req.headers["host"]
  ELSE req.authority

(* "*" and the empty pattern match every host, "*.a.b" exactly one label   *)
(* before a.b.                                                             *)
HostMatches(m, host) ==
  \/ m.host \in {<<>>, <<"*">>}
  \/ m.host = host
  \/ Len(m.host) > 1 /\ m.host[1] = "*" /\ Len(host) = Len(m.host) /\ Tail(host) = Tail(m.host)

(* A regular expression is the set of the paths it matches: none when it   *)
(* does not compile.                                                       *)
PathMatches(m, path) ==
  \/ m.pathType = "any"
  \/ m.pathType = "prefix" /\ Starts(path, m.path)
  \/ m.pathType = "exact" /\ path = m.path
  \/ m.pathType = "regex" /\ path \in m.regex

MethodMatches(m, method) == m.methods = {} \/ method \in m.methods

HeadersMatch(m, h) == \A n \in DOMAIN m.headers : n \in DOMAIN h /\ h[n] = m.headers[n]

Matches(m, req) ==
  /\ HostMatches(m, RequestHost(req))
  /\ PathMatches(m, req.path)
  /\ MethodMatches(m, req.method)
  /\ HeadersMatch(m, req.headers)

PathLen(m) == IF m.pathType = "any" THEN 0 ELSE Len(m.path)

Outranks(a, b) ==
  a.priority > b.priority \/ (a.priority = b.priority /\ PathLen(a.match) > PathLen(b.match))

(* max_by_key: the last of the enabled matching routes that no other       *)
(* outranks; 0 when there is none.                                         *)
MatchRoute(routes, req) ==
  LET ok == {i \in DOMAIN routes : routes[i].enabled /\ Matches(routes[i].match, req)}
  IN IF ok = {} THEN 0
     ELSE CHOOSE i \in ok : \A j \in ok : Outranks(routes[i], routes[j]) \/ (~Outranks(routes[j], routes[i]) /\ j <= i)

(* The first upstream with the name the route gives; 0 when there is none. *)
FindUpstream(upstreams, name) ==
  LET named == {i \in DOMAIN upstreams : upstreams[i].name = name}
  IN IF named = {} THEN 0 ELSE CHOOSE i \in named : \A j \in named : i <= j

HopByHop == {"connection", "keep-alive", "proxy-authenticate", "proxy-authorization",
             "te", "trailer", "transfer-encoding", "upgrade"}
ConnectionExempt == {"host", "content-length"}
ConnectionTokens(h) == IF "connection" \in DOMAIN h THEN h["connection"] ELSE {}

HasAmbiguousFraming(h) == {"content-length", "transfer-encoding"} \subseteq DOMAIN h

UpgradeProtocol(req) ==
  IF req.version = "http11" /\ "upgrade" \in ConnectionTokens(req.headers)
     /\ "upgrade" \in DOMAIN req.headers
  THEN req.headers["upgrade"] ELSE None

H2ConnectProtocol(req) ==
  IF req.version = "http2" /\ req.method = "CONNECT" THEN req.protocol ELSE None

(* The standard hop-by-hop headers go, and every header the incoming       *)
(* Connection field names except the exempt ones.                          *)
StripHopByHop(h) == Without(h, HopByHop \cup (ConnectionTokens(h) \ ConnectionExempt))

(* Appended to X-Forwarded-For, X-Real-IP only when absent, the scheme and *)
(* the original host always.                                               *)
AddForwardingHeaders(h, req) ==
  LET f == "x-forwarded-for"
      h1 == Set(h, f, (IF f \in DOMAIN h THEN h[f] ELSE <<>>) \o <<req.client>>)
      h2 == IF "x-real-ip" \in DOMAIN h1 THEN h1 ELSE Set(h1, "x-real-ip", req.client)
      h3 == Set(h2, "x-forwarded-proto", req.proto)
      host == IF "host" \in DOMAIN h THEN h["host"] ELSE req.authority
  IN IF host = <<>> THEN h3 ELSE Set(h3, "x-forwarded-host", host)

(* The rest of the path, with a slash put before it when it has none.      *)
StripPathPrefix(path, route) ==
  IF route.strip /\ route.match.pathType # "any" /\ Starts(path, route.match.path)
  THEN LET rest == SubSeq(path, Len(route.match.path) + 1, Len(path))
       IN IF rest # <<>> /\ rest[1] \in SlashPieces THEN rest ELSE <<"/">> \o rest
  ELSE path

ApplyRouteHeaders(h, route) ==
  Without([n \in DOMAIN h \cup DOMAIN route.add |-> IF n \in DOMAIN route.add THEN route.add[n] ELSE h[n]],
          route.remove)

(* Mutant: the strip comes after the proxy's own headers.                  *)
StripLast(req, route, backend) ==
  [headers |-> Set(ApplyRouteHeaders(StripHopByHop(AddForwardingHeaders(req.headers, req)), route), "host", backend.address),
   path |-> StripPathPrefix(req.path, route),
   version |-> req.version]

(* The request as it leaves handle_request, whatever carries it on.        *)
Prepared(req, route, backend) ==
  [headers |-> Set(ApplyRouteHeaders(AddForwardingHeaders(StripHopByHop(req.headers), req), route),
                   "host", backend.address),
   path |-> StripPathPrefix(req.path, route),
   version |-> req.version]

(* forward: the version is the one the backend was declared to speak.      *)
Forwarded(req, route, backend) == [Prepared(req, route, backend) EXCEPT !.version = backend.version]

(* forward_upgrade: only the normalised pair goes back on.                 *)
RestoreUpgradeHeaders(req, route, backend) ==
  LET p == Prepared(req, route, backend)
  IN [p EXCEPT !.headers = Set(Set(@, "upgrade", UpgradeProtocol(req)), "connection", {"upgrade"}),
               !.version = "http11"]

(* forward_h2_websocket: an HTTP/1.1 handshake of the proxy's own, with    *)
(* the client's other headers.                                             *)
H2WebSocketRequest(req, route, backend) ==
  LET p == Prepared(req, route, backend)
      own == [n \in {"host", "upgrade", "connection", "sec-websocket-key", "sec-websocket-version"} |->
                CASE n = "host" -> backend.address
                  [] n = "upgrade" -> H2ConnectProtocol(req)
                  [] n = "connection" -> {"upgrade"}
                  [] OTHER -> n]
  IN [p EXCEPT !.headers = [n \in DOMAIN @ \cup DOMAIN own |-> IF n \in DOMAIN own THEN own[n] ELSE @[n]],
               !.version = "http11"]

(* Which of the three ways the request takes, and what the upstream gets.  *)
Carrier(req) ==
  IF H2ConnectProtocol(req) # None THEN "connect" ELSE IF UpgradeProtocol(req) # None THEN "upgrade" ELSE "plain"
Outbound(req, route, backend) ==
  CASE Carrier(req) = "connect" -> H2WebSocketRequest(req, route, backend)
    [] Carrier(req) = "upgrade" -> RestoreUpgradeHeaders(req, route, backend)
    [] Carrier(req) = "plain" -> Forwarded(req, route, backend)
=============================================================================
