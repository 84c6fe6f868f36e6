------------------------------ MODULE Identity ------------------------------
(***************************************************************************)
(* postrust-auth and postrust-server: who a request speaks as.             *)
(*                                                                         *)
(* REST asks the bearer token alone (authenticate).  GraphQL asks the      *)
(* admin secret first and the token next, and gives a caller two           *)
(* identities: the database role its transaction runs as and the Hasura    *)
(* role its schema is chosen by (graphql_identity).  Over HTTP that is     *)
(* settled for each operation, over a WebSocket once, at connection_init,  *)
(* from the upgrade request's headers overlaid with the payload's.         *)
(*                                                                         *)
(* A header list is a sequence of <<name, value>> with names in lower      *)
(* case.  A claim's name is the sequence of its segments between dots, so  *)
(* that one claim called "a.b" and a claim "a" holding a "b" are different *)
(* claims with one spelling; a JSON value is a record of one field, named  *)
(* for its type.  No two claims of a token differ by case alone.  Whether  *)
(* a signature verifies is a property of the token.  One client is         *)
(* followed, which speaks over HTTP while it holds no connection.          *)
(***************************************************************************)
EXTENDS Integers, Sequences, FiniteSets

CONSTANTS
    AuthConfigs,    \* [admin, unauthorized, jwt, anon, claimKey, audience, hidden]
    Wires,          \* [auth, headers]: what a request carries
    Payloads,       \* [top, nested]: what a connection_init carries
    Operations,     \* [persisted, introspects]
    Variable,       \* the session variable an x-hasura-* name stands for
    ClockSkew,
    LastSecond

\* What may be sent: whatever its signature, no token brings the fault of a
\* server without a key.
IsWire(wire) ==
    /\ wire.headers \in Seq(STRING \X STRING)
    /\ wire.auth # <<>> /\ wire.auth[1].bearer => wire.auth[1].token.sound # "SecretMissing"

ASSUME IdentityAssumption ==
    /\ ClockSkew \in Nat /\ LastSecond \in Nat
    /\ \A cfg \in AuthConfigs : cfg.anon \in Seq(STRING)
    /\ \A wire \in Wires : IsWire(wire)
    /\ \A payload \in Payloads : IsWire(payload.top) /\ IsWire(payload.nested)

VARIABLES
    authConfig,
    clock,
    connection,     \* the identity a WebSocket was initialised with, <<>> before
    served          \* the last operation, of the connection if there is one, and what became of it

idVars == <<authConfig, clock, connection, served>>

AdminRoleName == "admin"
Namespace == <<"https://hasura", "io/jwt/claims">>

(***************************************************************************)
(* The token                                                               *)
(***************************************************************************)
Is(json, kind) == kind \in DOMAIN json
IsText(found) == found # <<>> /\ Is(found[1], "str")

Get(object, key) == IF key \in DOMAIN object THEN <<object[key]>> ELSE <<>>

\* The literal name first, a path only where that misses; only objects are
\* walked.
LookupClaim(claims, key) ==
    LET walk[i \in 1..Len(key)] ==
            IF i = 1 THEN Get(claims, <<key[1]>>)
            ELSE IF walk[i - 1] # <<>> /\ Is(walk[i - 1][1], "obj") THEN Get(walk[i - 1][1].obj, <<key[i]>>) ELSE <<>>
    IN IF key \in DOMAIN claims THEN <<claims[key]>>
       ELSE IF Len(key) = 1 THEN <<>> ELSE walk[Len(key)]

RoleOf(claims, cfg) ==
    LET found == LookupClaim(claims, cfg.claimKey)
    IN IF IsText(found) THEN <<found[1].str>> ELSE cfg.anon

\* The first fault in the contract's order.
CheckClaims(claims, cfg, now) ==
    LET absent(n) == <<n>> \notin DOMAIN claims \/ Is(claims[<<n>>], "null")
        notNumber(n) == ~absent(n) /\ ~Is(claims[<<n>>], "num")
        ahead(n) == ~absent(n) /\ now + ClockSkew < claims[<<n>>].num
        aud == claims[<<"aud">>]
        fits(a) == cfg.audience = <<>> \/ a = cfg.audience[1]
        audience ==
            IF absent("aud") THEN "none"
            ELSE IF Is(aud, "str") THEN IF fits(aud.str) THEN "none" ELSE "NotInAudience"
            ELSE IF ~Is(aud, "list") \/ \E i \in 1..Len(aud.list) : ~Is(aud.list[i], "str") THEN "AudienceNotStrings"
            ELSE IF Len(aud.list) > 0 /\ \A i \in 1..Len(aud.list) : ~fits(aud.list[i].str) THEN "NotInAudience"
            ELSE "none"
    IN IF notNumber("exp") THEN "NotANumber"
       ELSE IF ~absent("exp") /\ now > claims[<<"exp">>].num THEN "Expired"
       ELSE IF notNumber("nbf") THEN "NotANumber"
       ELSE IF ahead("nbf") THEN "NotYetValid"
       ELSE IF notNumber("iat") THEN "NotANumber"
       ELSE IF ahead("iat") THEN "IssuedInFuture"
       ELSE audience

Authenticated(role, claims) == [fault |-> "none", role |-> role, claims |-> claims]
Fault(why) == [fault |-> why, role |-> "nobody", claims |-> <<>>]

ValidateToken(token, cfg, now) ==
    IF ~cfg.jwt THEN Fault("SecretMissing")
    ELSE IF token.sound # "none" THEN Fault(token.sound)
    ELSE IF CheckClaims(token.claims, cfg, now) # "none" THEN Fault(CheckClaims(token.claims, cfg, now))
    ELSE IF RoleOf(token.claims, cfg) = <<>> THEN Fault("NoIdentity")
    ELSE Authenticated(RoleOf(token.claims, cfg)[1], token.claims)

Authenticate(auth, cfg, now) ==
    IF auth = <<>> THEN IF cfg.anon # <<>> THEN Authenticated(cfg.anon[1], <<>>) ELSE Fault("NoIdentity")
    ELSE IF ~auth[1].bearer THEN Fault("InvalidHeaderFormat")
    ELSE ValidateToken(auth[1].token, cfg, now)

(***************************************************************************)
(* Headers and claims in Hasura's sense                                    *)
(***************************************************************************)
\* The first of a name.
Header(headers, name) ==
    LET at == {i \in 1..Len(headers) : headers[i][1] = name}
    IN IF at = {} THEN <<>> ELSE <<headers[CHOOSE i \in at : \A j \in at : i <= j][2]>>

Reserved(name) ==
    name \in {"x-hasura-admin-secret", "x-hasura-access-key", "x-hasura-role", "x-hasura-use-backend-only-permissions"}

\* Two spellings of a variable are one variable, and the first value stays.
SessionFromHeaders(headers) ==
    LET taken == {i \in 1..Len(headers) : headers[i][1] \in DOMAIN Variable /\ ~Reserved(headers[i][1])}
        at(n) == {i \in taken : Variable[headers[i][1]] = n}
    IN [n \in {Variable[headers[i][1]] : i \in taken} |->
            [str |-> headers[CHOOSE i \in at(n) : \A j \in at(n) : i <= j][2]]]

Namespaced(claims) ==
    IF Namespace \in DOMAIN claims /\ Is(claims[Namespace], "obj") THEN claims[Namespace].obj ELSE <<>>

Claim(claims, name) ==
    IF <<name>> \in DOMAIN Namespaced(claims) THEN <<Namespaced(claims)[<<name>>]>> ELSE Get(claims, <<name>>)

\* The empty name, which names nobody.
NoName == ""

\* A claim that holds a name.
NamedBy(claims, name) ==
    IF IsText(Claim(claims, name)) /\ Claim(claims, name)[1].str # NoName THEN <<Claim(claims, name)[1].str>> ELSE <<>>

RoleFromClaims(claims) ==
    IF NamedBy(claims, "x-hasura-role") # <<>> THEN NamedBy(claims, "x-hasura-role")
    ELSE NamedBy(claims, "x-hasura-default-role")

\* What cannot be read as a list of names widens nothing.
AllowedRoles(claims) ==
    LET found == Claim(claims, "x-hasura-allowed-roles")
    IN IF found = <<>> \/ ~Is(found[1], "list") THEN {}
       ELSE {found[1].list[i].str : i \in {j \in 1..Len(found[1].list) : Is(found[1].list[j], "str")}}

\* Every x-hasura-* claim but the role, the top level over the namespace.
SessionFromClaims(claims) ==
    LET both == [n \in DOMAIN Namespaced(claims) \cup DOMAIN claims |->
                    IF n \in DOMAIN claims THEN claims[n] ELSE Namespaced(claims)[n]]
        named == {n \in DOMAIN both : Len(n) = 1 /\ n[1] \in DOMAIN Variable \ {"x-hasura-role"}}
    IN [v \in {Variable[n[1]] : n \in named} |-> both[CHOOSE n \in named : Variable[n[1]] = v]]

SecretOffered(headers) ==
    IF Header(headers, "x-hasura-admin-secret") # <<>> THEN Header(headers, "x-hasura-admin-secret")
    ELSE Header(headers, "x-hasura-access-key")

SecretOutcome(cfg, headers) ==
    IF cfg.admin = <<>> THEN "NotConfigured"
    ELSE IF SecretOffered(headers) = <<>> THEN "Absent"
    ELSE IF SecretOffered(headers) = cfg.admin THEN "Accepted" ELSE "Rejected"

AskedRole(headers) ==
    LET asked == Header(headers, "x-hasura-role") IN IF asked = <<NoName>> THEN <<>> ELSE asked

RoleAllowed(claims, headers) ==
    \/ AskedRole(headers) \in {<<>>, RoleFromClaims(claims)}
    \/ AskedRole(headers)[1] \in AllowedRoles(claims)

BooleanText(value) ==
    CASE value \in {"true", "t", "yes", "y"} -> <<TRUE>>
      [] value \in {"false", "f", "no", "n"} -> <<FALSE>>
      [] OTHER -> <<>>

BackendHeader == "x-hasura-use-backend-only-permissions"

BackendOnlyRequested(headers, elevated) ==
    elevated /\ Header(headers, BackendHeader) # <<>> /\ BooleanText(Header(headers, BackendHeader)[1]) = <<TRUE>>

(***************************************************************************)
(* graphql_identity                                                        *)
(***************************************************************************)
\* Mutant: a token with a fault in its claims is as good as none.
ClaimsOverlooked(auth, result) == auth # <<>> /\ result.fault \in {"InvalidHeaderFormat", "InvalidSignature", "NoSuitableKey"}

\* A token that was offered is refused for whatever REST refuses it for, but
\* for the want of a key to verify it with.
TokenRefused(auth, result) == auth # <<>> /\ result.fault \notin {"none", "SecretMissing"}

TokenVerified(auth, result) == auth # <<>> /\ result.fault = "none"

\* A verified token's variables are its claims; no header is read for them.
TokenSession(claims, headers) == SessionFromClaims(claims)

Refusal(why) == [refused |-> why, db |-> "nobody", role |-> <<>>, session |-> <<>>, elevated |-> FALSE, verified |-> FALSE]

IdentityFrom(result, cfg, wire) ==
    LET db == IF result.fault = "none" THEN result.role ELSE IF cfg.anon # <<>> THEN cfg.anon[1] ELSE "anon"
        secret == SecretOutcome(cfg, wire.headers)
        verified == TokenVerified(wire.auth, result)
        who(role, session, elevated) ==
            [refused |-> "none", db |-> db, role |-> role, session |-> session, elevated |-> elevated, verified |-> verified]
    IN IF secret = "Accepted" THEN
            who(IF AskedRole(wire.headers) # <<>> THEN AskedRole(wire.headers) ELSE <<AdminRoleName>>,
                SessionFromHeaders(wire.headers), TRUE)
       ELSE IF secret = "Rejected" THEN Refusal("SecretInvalid")
       ELSE IF TokenRefused(wire.auth, result) THEN Refusal(result.fault)
       ELSE IF verified /\ ~RoleAllowed(result.claims, wire.headers) THEN Refusal("RoleNotAllowed")
       ELSE IF verified THEN
            who(IF AskedRole(wire.headers) # <<>> THEN AskedRole(wire.headers) ELSE RoleFromClaims(result.claims),
                TokenSession(result.claims, wire.headers), FALSE)
       ELSE IF cfg.admin # <<>> THEN
            IF cfg.unauthorized # <<>> THEN who(cfg.unauthorized, <<>>, FALSE) ELSE Refusal("SecretMissing")
       ELSE who(RoleFromClaims(result.claims), SessionFromClaims(result.claims), FALSE)

GraphqlIdentity(cfg, wire, now) == IdentityFrom(Authenticate(wire.auth, cfg, now), cfg, wire)

\* The payload's own fields and then those under its "headers", each replacing
\* what is there under its name.
Overlay(wire, given) ==
    LET replaced == {given.headers[i][1] : i \in 1..Len(given.headers)}
        others[i \in 0..Len(wire.headers)] ==
            IF i = 0 THEN <<>>
            ELSE IF wire.headers[i][1] \in replaced THEN others[i - 1]
            ELSE Append(others[i - 1], wire.headers[i])
    IN [auth |-> IF given.auth # <<>> THEN given.auth ELSE wire.auth,
        headers |-> others[Len(wire.headers)] \o given.headers]

ConnectionHeaders(wire, payload) == Overlay(Overlay(wire, payload.top), payload.nested)

(***************************************************************************)
(* Operations                                                              *)
(***************************************************************************)
\* prepare_operation: the checks before the document is read, in their order.
PrepareOperation(cfg, id, headers, op) ==
    LET flag == Header(headers, BackendHeader)
        backend == BackendOnlyRequested(headers, id.elevated)
        hidden == ~id.elevated /\ id.role # <<>> /\ id.role[1] \in cfg.hidden
    IN IF op.persisted THEN [refused |-> "PersistedQueryNotSupported", backend |-> FALSE]
       ELSE IF flag # <<>> /\ BooleanText(flag[1]) = <<>> THEN [refused |-> "NotABoolean", backend |-> FALSE]
       ELSE IF hidden /\ op.introspects THEN [refused |-> "IntrospectionDisabled", backend |-> FALSE]
       ELSE [refused |-> "none", backend |-> backend]

IdentityInit ==
    /\ authConfig \in AuthConfigs
    /\ clock = 0 /\ connection = <<>> /\ served = <<>>

AnswerAs(wire, at, id, op) ==
    LET prepared == PrepareOperation(authConfig, id, wire.headers, op)
        why == IF id.refused # "none" THEN id.refused ELSE prepared.refused
    IN served' = [wire |-> wire, at |-> at, id |-> id, op |-> op, refused |-> why, backend |-> why = "none" /\ prepared.backend]

\* One operation of a request stands for all: none depends on another.
HttpOperation(wire, op) ==
    /\ connection = <<>> /\ served = <<>>
    /\ AnswerAs(wire, clock, GraphqlIdentity(authConfig, wire, clock), op)
    /\ UNCHANGED <<authConfig, clock, connection>>

\* A connection that cannot be identified is closed, and is as it was before.
ConnectionInit(wire, payload) ==
    /\ connection = <<>> /\ served = <<>>
    /\ LET opened(sent, id) == IF id.refused = "none" THEN [wire |-> sent, at |-> clock, id |-> id] ELSE <<>>
           given(sent) == opened(sent, GraphqlIdentity(authConfig, sent, clock))
       IN connection' = given(ConnectionHeaders(wire, payload))
    /\ UNCHANGED <<authConfig, clock, served>>

\* Without an identity an operation is refused, and with one it is the
\* connection's for as long as it lasts.
SocketOperation(op) ==
    /\ IF connection = <<>>
       THEN AnswerAs([auth |-> <<>>, headers |-> <<>>], clock, Refusal("NotInitialised"), op)
       ELSE AnswerAs(connection.wire, connection.at, connection.id, op)
    /\ UNCHANGED <<authConfig, clock, connection>>

Disconnect ==
    /\ connection # <<>> /\ connection' = <<>> /\ served' = <<>>
    /\ UNCHANGED <<authConfig, clock>>

OneSecond ==
    /\ clock < LastSecond /\ clock' = clock + 1
    /\ UNCHANGED <<authConfig, connection, served>>

IdentityNext ==
    \/ \E wire \in Wires, op \in Operations : HttpOperation(wire, op)
    \/ \E wire \in Wires, payload \in Payloads : ConnectionInit(wire, payload)
    \/ \E op \in Operations : SocketOperation(op)
    \/ Disconnect \/ OneSecond

IdentitySpec == IdentityInit /\ [][IdentityNext]_idVars

(***************************************************************************)
(* Properties                                                              *)
(***************************************************************************)
Answered == served # <<>> /\ served.refused = "none"
HoldsSecret == SecretOutcome(authConfig, served.wire.headers) = "Accepted"

\* The request without its x-hasura-* headers.
Bare(wire) == [auth |-> wire.auth, headers |-> <<>>]

(***************************************************************************)
(* graphql_identity, "every other x-hasura-* header is still ignored":     *)
(* without the secret, an operation is answered as the very caller it      *)
(* would be from its token alone, over HTTP and over a WebSocket -- the    *)
(* same database role and the same session variables -- save for a role    *)
(* out of the list inside the token's signature.                           *)
(***************************************************************************)
HeadersNameNobody ==
    LET as(alone) ==
           /\ alone.refused = "none"
           /\ served.id.db = alone.db /\ served.id.session = alone.session
           /\ ~served.id.elevated /\ ~served.backend
           /\ \/ served.id.role = alone.role
              \/ served.id.verified /\ served.id.role[1] \in AllowedRoles(served.wire.auth[1].token.claims)
    IN Answered /\ ~HoldsSecret => as(GraphqlIdentity(authConfig, Bare(served.wire), served.at))

(***************************************************************************)
(* token_refusal, "REST answers each of these 401": a token that REST      *)
(* refuses serves nobody over GraphQL either, nor opens a connection, but  *)
(* for one offered to a server that has no key; and only a token that      *)
(* verifies gives a database role other than the anonymous one.            *)
(***************************************************************************)
GraphqlAsStrictAsRest ==
    Answered =>
        LET rest == Authenticate(served.wire.auth, authConfig, served.at)
        IN /\ served.wire.auth # <<>> /\ authConfig.jwt /\ ~HoldsSecret => rest.fault = "none"
           /\ served.id.db \notin {"anon"} \cup {authConfig.anon[i] : i \in 1..Len(authConfig.anon)}
                => rest.fault = "none" /\ rest.role = served.id.db

(***************************************************************************)
(* from_admin_secret and backend_only_requested: fields that are for a     *)
(* backend only, and the schema as data where a role may not read it, take *)
(* the secret; and what a policy can read as a variable was sent as that   *)
(* variable: the secret, under either name it is offered by, is not.       *)
(***************************************************************************)
SecretStaysSecret ==
    /\ Answered /\ served.backend => HoldsSecret
    /\ Answered /\ served.op.introspects /\ served.id.role # <<>> /\ served.id.role[1] \in authConfig.hidden => HoldsSecret
    /\ Answered /\ HoldsSecret => \A n \in DOMAIN served.id.session :
        \E i \in 1..Len(served.wire.headers) :
            /\ served.wire.headers[i][1] \notin {"x-hasura-admin-secret", "x-hasura-access-key"}
            /\ served.wire.headers[i][1] \in DOMAIN Variable /\ Variable[served.wire.headers[i][1]] = n
            /\ served.id.session[n] = [str |-> served.wire.headers[i][2]]

(***************************************************************************)
(* unauthenticated, "refusing is the default": where a secret is           *)
(* configured and no role for strangers, nothing is answered that neither  *)
(* the secret nor a verified token authenticated -- an anonymous database  *)
(* role included, and on an uninitialised connection too.                  *)
(***************************************************************************)
StrangersRefused ==
    Answered /\ authConfig.admin # <<>> /\ authConfig.unauthorized = <<>> =>
        \/ HoldsSecret
        \/ served.wire.auth # <<>> /\ Authenticate(served.wire.auth, authConfig, served.at).fault = "none"

(***************************************************************************)
(* graphql_identity: an operation is answered as the caller its secret or  *)
(* its token authenticates, over HTTP and over a WebSocket, and as nobody  *)
(* else.                                                                   *)
(***************************************************************************)
AnsweredAsAuthenticated ==
    HeadersNameNobody /\ GraphqlAsStrictAsRest /\ SecretStaysSecret /\ StrangersRefused
=============================================================================
