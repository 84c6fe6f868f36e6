--------------------------- MODULE GraphqlProofs ----------------------------
(***************************************************************************)
(* Theorems about who a GraphQL operation is answered as (Identity), for   *)
(* any configuration, any headers, any claims, any clock and any number of *)
(* operations of a connection, and about what it can then reach            *)
(* (RoleSchema), for any catalog, metadata and permission document.        *)
(*                                                                         *)
(* What an operation is answered as is a computation over what it was      *)
(* asked with; that a connection's is still the one of its own             *)
(* connection_init is the invariant.  What a schema offers is a            *)
(* computation over the catalog and the document; that a role is answered  *)
(* from its own schema, which was built, or from nobody's is the           *)
(* invariant.                                                              *)
(***************************************************************************)
EXTENDS Identity, RoleSchema, WellFoundedInduction, TLAPS

-----------------------------------------------------------------------------
(* Headers *)

LEMMA LessWellFounded == IsWellFoundedOn({ss \in Nat \X Nat : ss[1] < ss[2]}, Nat)
  BY NatLessThanWellFounded DEF OpToRel

\* Every nonempty set of natural numbers has a least element.
LEMMA FirstExists ==
    ASSUME NEW T, T \subseteq Nat, T # {}
    PROVE  \E x \in T : \A y \in T : x <= y
  <1> DEFINE R == {ss \in Nat \X Nat : ss[1] < ss[2]}
  <1>1. IsWellFoundedOn(R, Nat)
    BY LessWellFounded
  <1>2. PICK x \in T : \A y \in T : ~(<<y, x>> \in R)
    <2> HIDE DEF R
    <2> QED BY <1>1, WFMin
  <1>3. \A y \in T : ~(y < x)
    BY <1>2
  <1> QED BY <1>3

\* Where no header is sent, none has a name.
LEMMA NoHeader == ASSUME NEW name PROVE Header(<<>>, name) = <<>>
  BY DEF Header

Headers == Seq(STRING \X STRING)

\* g holds, for every i, what stays of the first i headers where those of the
\* names in replaced are dropped.
Keeps(headers, replaced, g, i) ==
    g[i] = IF i = 0 THEN <<>>
           ELSE IF headers[i][1] \in replaced THEN g[i - 1] ELSE Append(g[i - 1], headers[i])

\* There is one: Overlay's recursion defines a function.
LEMMA KeptExist ==
    ASSUME NEW headers \in Headers, NEW replaced, NEW m \in 0..Len(headers)
    PROVE  \E g \in [0..m -> Headers] : \A i \in 0..m : Keeps(headers, replaced, g, i)
  <1> DEFINE Step(g, i) == Keeps(headers, replaced, g, i)
             Good(n) == \E g \in [0..n -> Headers] : \A i \in 0..n : Step(g, i)
             T == {n \in 0..Len(headers) : ~Good(n)}
  <1>0. Len(headers) \in Nat
    BY DEF Headers
  <1> SUFFICES ASSUME T # {} PROVE FALSE
    BY <1>0
  <1>1. T \subseteq Nat
    BY <1>0
  <1>2. PICK n \in T : \A y \in T : n <= y
    BY <1>1, FirstExists
  <1>3. CASE n = 0
    <2> DEFINE g == [i \in 0..0 |-> <<>>]
    <2>1. g \in [0..0 -> Headers] /\ \A i \in 0..0 : Step(g, i)
      BY DEF Headers, Keeps
    <2>2. Good(0)
      BY <2>1
    <2> QED BY <1>2, <1>3, <2>2
  <1>4. CASE n # 0
    <2>1. n \in Nat /\ n - 1 \in 0..Len(headers) /\ n \in 1..Len(headers) /\ Good(n - 1)
      <3>1. n \in Nat /\ n \in 0..Len(headers) /\ n - 1 \in Nat /\ n - 1 < n
        <4>1. n \in 0..Len(headers)
          OBVIOUS
        <4> HIDE DEF T
        <4> QED BY <1>0, <1>4, <4>1
      <3>2. n - 1 \notin T
        <4> HIDE DEF T
        <4> QED BY <1>2, <3>1
      <3>3. n - 1 \in 0..Len(headers) /\ n \in 1..Len(headers)
        <4> HIDE DEF T
        <4> QED BY <1>0, <1>4, <3>1
      <3>4. Good(n - 1)
        <4> HIDE DEF Good
        <4> QED BY <3>2, <3>3
      <3> HIDE DEF Good, T
      <3> QED BY <3>1, <3>3, <3>4
    <2>2. PICK g \in [0..(n - 1) -> Headers] : \A i \in 0..(n - 1) : Step(g, i)
      BY <2>1
    <2> DEFINE last == IF headers[n][1] \in replaced THEN g[n - 1] ELSE Append(g[n - 1], headers[n])
               h == [i \in 0..n |-> IF i = n THEN last ELSE g[i]]
    <2>3. last \in Headers
      <3>1. g[n - 1] \in Headers /\ headers[n] \in STRING \X STRING
        BY <2>1, <2>2 DEF Headers
      <3> QED BY <3>1 DEF Headers
    <2>4. h \in [0..n -> Headers]
      <3> HIDE DEF last
      <3> QED BY <2>1, <2>2, <2>3
    <2>5. ASSUME NEW i \in 0..n PROVE Step(h, i)
      <3>1. CASE i = n
        <4>1. h[n] = last /\ h[n - 1] = g[n - 1]
          <5> HIDE DEF last
          <5> QED BY <2>1
        <4> HIDE DEF h
        <4> QED BY <3>1, <4>1, <1>4 DEF Keeps
      <3>2. CASE i # n
        <4>1. h[i] = g[i] /\ i \in 0..(n - 1) /\ (i # 0 => h[i - 1] = g[i - 1])
          <5> HIDE DEF last
          <5> QED BY <2>1, <3>2
        <4>2. Step(g, i)
          BY <2>2, <4>1
        <4> HIDE DEF h
        <4> QED BY <4>1, <4>2 DEF Keeps
      <3> QED BY <3>1, <3>2
    <2>6. Good(n)
      <3> HIDE DEF h, Step
      <3> QED BY <2>4, <2>5
    <2> QED BY <1>2, <2>6
  <1> QED BY <1>3, <1>4

\* An overlaid request is one that may be sent.
LEMMA OverlayWire ==
    ASSUME NEW wire, IsWire(wire), NEW given, IsWire(given)
    PROVE  IsWire(Overlay(wire, given))
  <1> DEFINE replaced == {given.headers[i][1] : i \in 1..Len(given.headers)}
             n == Len(wire.headers)
             others == CHOOSE g : g = [i \in 0..n |->
                         IF i = 0 THEN <<>>
                         ELSE IF wire.headers[i][1] \in replaced THEN g[i - 1] ELSE Append(g[i - 1], wire.headers[i])]
  <1>1. wire.headers \in Headers /\ given.headers \in Headers /\ n \in Nat
    BY DEF IsWire, Headers
  <1>2. \E g : g = [i \in 0..n |->
                 IF i = 0 THEN <<>>
                 ELSE IF wire.headers[i][1] \in replaced THEN g[i - 1] ELSE Append(g[i - 1], wire.headers[i])]
    <2> HIDE DEF replaced
    <2>1. PICK g \in [0..n -> Headers] : \A i \in 0..n : Keeps(wire.headers, replaced, g, i)
      <3>1. n \in 0..Len(wire.headers)
        BY <1>1
      <3> HIDE DEF n
      <3> QED BY <1>1, <3>1, KeptExist, Zenon
    <2> QED BY <2>1 DEF Keeps
  <1>3. others = [i \in 0..n |->
                 IF i = 0 THEN <<>>
                 ELSE IF wire.headers[i][1] \in replaced THEN others[i - 1] ELSE Append(others[i - 1], wire.headers[i])]
    <2> HIDE DEF replaced
    <2> QED BY <1>2
  <1>4. others[n] \in Headers
    <2> HIDE DEF replaced, others
    <2> DEFINE T == {i \in 0..n : others[i] \notin Headers}
    <2> SUFFICES ASSUME T # {} PROVE FALSE
      BY <1>1
    <2>1. T \subseteq Nat
      BY <1>1
    <2>2. PICK m \in T : \A y \in T : m <= y
      BY <2>1, FirstExists
    <2>3. m # 0
      BY <1>1, <1>3, <2>2 DEF Headers
    <2>4. m - 1 \in 0..n /\ others[m - 1] \in Headers /\ m \in 1..n
      BY <1>1, <2>2, <2>3
    <2>5. wire.headers[m] \in STRING \X STRING
      BY <1>1, <2>4 DEF Headers
    <2>6. others[m] \in {others[m - 1], Append(others[m - 1], wire.headers[m])}
      BY <1>3, <2>2, <2>3
    <2>7. Append(others[m - 1], wire.headers[m]) \in Headers
      BY <2>4, <2>5 DEF Headers
    <2>8. others[m] \in Headers
      BY <2>4, <2>6, <2>7, Zenon
    <2> QED BY <2>2, <2>8
  <1>5. Overlay(wire, given) = [auth |-> IF given.auth # <<>> THEN given.auth ELSE wire.auth,
                                headers |-> others[n] \o given.headers]
    BY DEF Overlay
  <1>6. others[n] \o given.headers \in Headers
    <2> HIDE DEF others
    <2> QED BY <1>1, <1>4 DEF Headers
  <1> HIDE DEF others
  <1> QED BY <1>5, <1>6 DEF IsWire, Headers

-----------------------------------------------------------------------------
(* The identity of an operation *)

\* What became of an operation is prepare_operation's, for its identity.
AsPrepared ==
    LET prepared == PrepareOperation(authConfig, served.id, served.wire.headers, served.op)
    IN /\ served.refused = IF served.id.refused # "none" THEN served.id.refused ELSE prepared.refused
       /\ served.backend => served.refused = "none" /\ prepared.backend

\* An operation is answered as the identity of what it was sent with, and those
\* of a connection as the identity of its own connection_init.
IdentityInv ==
    /\ authConfig \in AuthConfigs
    /\ connection # <<>> =>
        /\ IsWire(connection.wire)
        /\ connection.id = GraphqlIdentity(authConfig, connection.wire, connection.at)
    /\ served # <<>> =>
        /\ IsWire(served.wire) /\ AsPrepared
        /\ \/ served.id = Refusal("NotInitialised")
           \/ served.id = GraphqlIdentity(authConfig, served.wire, served.at)

LEMMA AnswerInv ==
    ASSUME IdentityInv, NEW wire, IsWire(wire), NEW at, NEW id, NEW op,
           AnswerAs(wire, at, id, op), UNCHANGED <<authConfig, connection>>,
           id = Refusal("NotInitialised") \/ id = GraphqlIdentity(authConfig, wire, at)
    PROVE  IdentityInv'
  <1>1. /\ served'.wire = wire /\ served'.at = at /\ served'.id = id /\ served'.op = op
        /\ served'.refused = IF id.refused # "none" THEN id.refused
                             ELSE PrepareOperation(authConfig, id, wire.headers, op).refused
        /\ served'.backend = (/\ served'.refused = "none"
                              /\ PrepareOperation(authConfig, id, wire.headers, op).backend)
    BY DEF AnswerAs
  <1>2. AsPrepared'
    BY <1>1 DEF AsPrepared
  <1> QED BY <1>1, <1>2 DEF IdentityInv

LEMMA IdentityNextInv == IdentityInv /\ [IdentityNext]_idVars => IdentityInv'
  <1> SUFFICES ASSUME IdentityInv, [IdentityNext]_idVars PROVE IdentityInv'
    OBVIOUS
  <1>1. ASSUME NEW wire \in Wires, NEW op \in Operations, HttpOperation(wire, op) PROVE IdentityInv'
    <2>1. IsWire(wire)
      BY IdentityAssumption
    <2> QED BY <1>1, <2>1, AnswerInv DEF HttpOperation
  <1>2. ASSUME NEW wire \in Wires, NEW payload \in Payloads, ConnectionInit(wire, payload) PROVE IdentityInv'
    <2> DEFINE sent == ConnectionHeaders(wire, payload)
    <2>1. IsWire(sent)
      BY IdentityAssumption, OverlayWire DEF ConnectionHeaders
    <2>2. connection' # <<>> =>
            connection' = [wire |-> sent, at |-> clock, id |-> GraphqlIdentity(authConfig, sent, clock)]
      BY <1>2 DEF ConnectionInit
    <2>3. served = <<>> /\ served' = served /\ authConfig' = authConfig
      BY <1>2 DEF ConnectionInit
    <2> HIDE DEF sent
    <2> QED BY <2>1, <2>2, <2>3 DEF IdentityInv
  <1>3. ASSUME NEW op \in Operations, SocketOperation(op) PROVE IdentityInv'
    <2>1. CASE connection = <<>>
      <3> DEFINE bare == [auth |-> <<>>, headers |-> <<>>]
      <3>1. IsWire(bare)
        BY DEF IsWire
      <3>2. AnswerAs(bare, clock, Refusal("NotInitialised"), op) /\ UNCHANGED <<authConfig, connection>>
        BY <1>3, <2>1 DEF SocketOperation
      <3> HIDE DEF bare
      <3> QED BY <3>1, <3>2, AnswerInv
    <2>2. CASE connection # <<>>
      <3>1. AnswerAs(connection.wire, connection.at, connection.id, op) /\ UNCHANGED <<authConfig, connection>>
        BY <1>3, <2>2 DEF SocketOperation
      <3>2. IsWire(connection.wire) /\ connection.id = GraphqlIdentity(authConfig, connection.wire, connection.at)
        BY <2>2 DEF IdentityInv
      <3> QED BY <3>1, <3>2, AnswerInv
    <2> QED BY <2>1, <2>2
  <1>4. ASSUME Disconnect PROVE IdentityInv'
    BY <1>4 DEF Disconnect, IdentityInv
  <1>5. ASSUME OneSecond PROVE IdentityInv'
    BY <1>5 DEF OneSecond, IdentityInv, AsPrepared
  <1>6. ASSUME UNCHANGED idVars PROVE IdentityInv'
    BY <1>6 DEF idVars, IdentityInv, AsPrepared
  <1> QED BY <1>1, <1>2, <1>3, <1>4, <1>5, <1>6 DEF IdentityNext

-----------------------------------------------------------------------------
(* What an identity rests on *)

\* A token without a fault is the one whose claims are believed; no token of its
\* own has the fault of a server without a key.
LEMMA AuthenticFaults ==
    ASSUME NEW wire, IsWire(wire), NEW cfg, NEW now, wire.auth # <<>>,
           NEW result, result = Authenticate(wire.auth, cfg, now)
    PROVE  /\ result.fault = "none" => result.claims = wire.auth[1].token.claims
           /\ cfg.jwt => result.fault # "SecretMissing"
  <1>1. CASE ~wire.auth[1].bearer
    BY <1>1 DEF Authenticate, Fault
  <1>2. CASE wire.auth[1].bearer
    <2> DEFINE token == wire.auth[1].token
    <2>1. result = ValidateToken(token, cfg, now) /\ token.sound # "SecretMissing"
      BY <1>2 DEF Authenticate, IsWire
    <2>2. CheckClaims(token.claims, cfg, now) # "SecretMissing"
      BY DEF CheckClaims
    <2> HIDE DEF token
    <2>3. result.fault = "none" => result.claims = token.claims
      BY <2>1 DEF ValidateToken, Fault, Authenticated
    <2>4. cfg.jwt => result.fault # "SecretMissing"
      BY <2>1, <2>2 DEF ValidateToken, Fault, Authenticated
    <2> QED BY <2>3, <2>4 DEF token
  <1> QED BY <1>1, <1>2

\* What was verified carries the token's own claims.
ClaimsOf(wire, result) == result.fault = "none" => result.claims = wire.auth[1].token.claims

LEMMA AuthenticClaims ==
    ASSUME NEW wire, IsWire(wire), NEW cfg, NEW now, wire.auth # <<>>,
           NEW result, result = Authenticate(wire.auth, cfg, now)
    PROVE  ClaimsOf(wire, result)
  BY AuthenticFaults DEF ClaimsOf

\* The database role is the token's or, without a token that verifies, the
\* anonymous one.
LEMMA RoleOfDatabase ==
    ASSUME NEW result, NEW cfg, NEW wire, NEW id, id = IdentityFrom(result, cfg, wire), id.refused = "none"
    PROVE  id.db = IF result.fault = "none" THEN result.role
                   ELSE IF cfg.anon # <<>> THEN cfg.anon[1] ELSE "anon"
  BY DEF IdentityFrom, Refusal, TokenRefused

\* Who is let in without the secret: a token that verifies, with a role it
\* allows; or a caller whose token was not refused and that no header describes.
LEMMA WithoutSecret ==
    ASSUME NEW result, NEW cfg, NEW wire, NEW id, id = IdentityFrom(result, cfg, wire), id.refused = "none",
           SecretOutcome(cfg, wire.headers) # "Accepted"
    PROVE  /\ ~id.elevated
           /\ SecretOutcome(cfg, wire.headers) \in {"NotConfigured", "Absent"}
           /\ ~TokenRefused(wire.auth, result)
           /\ id.verified <=> TokenVerified(wire.auth, result)
           /\ id.verified => /\ RoleAllowed(result.claims, wire.headers)
                             /\ id.role = IF AskedRole(wire.headers) # <<>> THEN AskedRole(wire.headers)
                                          ELSE RoleFromClaims(result.claims)
                             /\ id.session = TokenSession(result.claims, wire.headers)
           /\ ~id.verified /\ cfg.admin # <<>> =>
                cfg.unauthorized # <<>> /\ id.role = cfg.unauthorized /\ id.session = <<>>
           /\ ~id.verified /\ cfg.admin = <<>> =>
                id.role = RoleFromClaims(result.claims) /\ id.session = SessionFromClaims(result.claims)
  <1>1. SecretOutcome(cfg, wire.headers) \in {"NotConfigured", "Absent", "Rejected", "Accepted"}
    BY DEF SecretOutcome
  <1> QED BY <1>1 DEF IdentityFrom, Refusal, TokenRefused, TokenVerified

\* Nothing is answered to a connection without an identity.
LEMMA AnsweredIdentity ==
    ASSUME IdentityInv, Answered
    PROVE  /\ served.id = GraphqlIdentity(authConfig, served.wire, served.at)
           /\ served.id.refused = "none" /\ IsWire(served.wire) /\ authConfig \in AuthConfigs
           /\ PrepareOperation(authConfig, served.id, served.wire.headers, served.op).refused = "none"
  BY DEF IdentityInv, Answered, AsPrepared, Refusal

\* Fields for a backend alone, and introspection where it is hidden, are for
\* the holder of the secret.
LEMMA ElevatedHolds ==
    ASSUME IdentityInv, Answered, served.id.elevated
    PROVE  HoldsSecret
  <1>1. served.id = IdentityFrom(Authenticate(served.wire.auth, authConfig, served.at), authConfig, served.wire)
    BY AnsweredIdentity DEF GraphqlIdentity
  <1>2. served.id.refused = "none"
    BY AnsweredIdentity
  <1> QED BY <1>1, <1>2, WithoutSecret DEF HoldsSecret

LEMMA BackendHolds ==
    ASSUME IdentityInv, Answered, served.backend
    PROVE  served.id.elevated
  BY DEF IdentityInv, Answered, AsPrepared, PrepareOperation, BackendOnlyRequested

LEMMA SecretInv == IdentityInv => SecretStaysSecret
  <1> SUFFICES ASSUME IdentityInv PROVE SecretStaysSecret
    OBVIOUS
  <1>1. Answered /\ served.backend => HoldsSecret
    BY BackendHolds, ElevatedHolds
  <1>2. ASSUME Answered, served.op.introspects, served.id.role # <<>>, served.id.role[1] \in authConfig.hidden
        PROVE  HoldsSecret
    <2>1. served.id.elevated
      BY <1>2, AnsweredIdentity DEF PrepareOperation
    <2> QED BY <1>2, <2>1, ElevatedHolds
  <1>3. ASSUME Answered, HoldsSecret, NEW v \in DOMAIN served.id.session
        PROVE  \E i \in 1..Len(served.wire.headers) :
                 /\ served.wire.headers[i][1] \notin {"x-hasura-admin-secret", "x-hasura-access-key"}
                 /\ served.wire.headers[i][1] \in DOMAIN Variable /\ Variable[served.wire.headers[i][1]] = v
                 /\ served.id.session[v] = [str |-> served.wire.headers[i][2]]
    <2> DEFINE headers == served.wire.headers
               taken == {i \in 1..Len(headers) : headers[i][1] \in DOMAIN Variable /\ ~Reserved(headers[i][1])}
               at(n) == {i \in taken : Variable[headers[i][1]] = n}
               first(n) == CHOOSE i \in at(n) : \A j \in at(n) : i <= j
               value(n) == [str |-> headers[first(n)][2]]
               named == {Variable[headers[i][1]] : i \in taken}
    <2>1. served.id.session = SessionFromHeaders(headers)
      BY <1>3, AnsweredIdentity DEF HoldsSecret, GraphqlIdentity, IdentityFrom
    <2>2. SessionFromHeaders(headers) =
            [n \in named |-> value(n)]
      BY DEF SessionFromHeaders
    <2>3. at(v) # {} /\ at(v) \subseteq Nat
      <3>1. v \in named
        <4> HIDE DEF named, value
        <4> QED BY <1>3, <2>1, <2>2
      <3>2. Len(headers) \in Nat
        BY <1>3, AnsweredIdentity DEF IsWire
      <3> QED BY <3>1, <3>2
    <2>4. first(v) \in at(v)
      <3> HIDE DEF at
      <3> QED BY <2>3, FirstExists
    <2>5. served.id.session[v] = value(v)
      <3> HIDE DEF named, value
      <3> QED BY <1>3, <2>1, <2>2
    <2> HIDE DEF first
    <2> QED BY <2>4, <2>5 DEF Reserved
  <1> QED BY <1>1, <1>2, <1>3 DEF SecretStaysSecret

LEMMA StrangersInv == IdentityInv => StrangersRefused
  <1> SUFFICES ASSUME IdentityInv, Answered, authConfig.admin # <<>>, authConfig.unauthorized = <<>>, ~HoldsSecret
               PROVE  served.wire.auth # <<>> /\ Authenticate(served.wire.auth, authConfig, served.at).fault = "none"
    BY DEF StrangersRefused
  <1> DEFINE result == Authenticate(served.wire.auth, authConfig, served.at)
  <1>1. served.id = IdentityFrom(result, authConfig, served.wire) /\ served.id.refused = "none"
    BY AnsweredIdentity DEF GraphqlIdentity
  <1> HIDE DEF result
  <1>2. served.id.verified
    BY <1>1, WithoutSecret DEF HoldsSecret
  <1>3. TokenVerified(served.wire.auth, result)
    BY <1>1, <1>2, WithoutSecret DEF HoldsSecret
  <1> QED BY <1>3 DEF TokenVerified, result

LEMMA StrictInv == IdentityInv => GraphqlAsStrictAsRest
  <1> SUFFICES ASSUME IdentityInv, Answered PROVE GraphqlAsStrictAsRest
    BY DEF GraphqlAsStrictAsRest
  <1> DEFINE rest == Authenticate(served.wire.auth, authConfig, served.at)
             anon == authConfig.anon
  <1>1. served.id = IdentityFrom(rest, authConfig, served.wire) /\ served.id.refused = "none" /\ IsWire(served.wire)
    BY AnsweredIdentity DEF GraphqlIdentity
  <1>2. anon \in Seq(STRING)
    BY IdentityAssumption, AnsweredIdentity
  <1>3. ASSUME served.wire.auth # <<>>, authConfig.jwt, ~HoldsSecret PROVE rest.fault = "none"
    <2>1. rest.fault # "SecretMissing"
      BY <1>1, <1>3, AuthenticFaults
    <2>2. ~TokenRefused(served.wire.auth, rest)
      <3> HIDE DEF rest
      <3> QED BY <1>1, <1>3, WithoutSecret DEF HoldsSecret
    <2> HIDE DEF rest
    <2> QED BY <1>3, <2>1, <2>2 DEF TokenRefused
  <1>4. ASSUME served.id.db \notin {"anon"} \cup {anon[i] : i \in 1..Len(anon)}
        PROVE  rest.fault = "none" /\ rest.role = served.id.db
    <2> HIDE DEF rest
    <2>1. served.id.db = IF rest.fault = "none" THEN rest.role ELSE IF anon # <<>> THEN anon[1] ELSE "anon"
      BY <1>1, RoleOfDatabase
    <2>2. anon # <<>> => anon[1] \in {anon[i] : i \in 1..Len(anon)}
      BY <1>2
    <2> HIDE DEF anon
    <2> QED BY <1>4, <2>1, <2>2
  <1> HIDE DEF rest
  <1> QED BY <1>3, <1>4 DEF GraphqlAsStrictAsRest, rest

\* Without the secret, an operation without its headers is answered too, as the
\* same caller.
LEMMA HeadersInv == IdentityInv => HeadersNameNobody
  <1> SUFFICES ASSUME IdentityInv, Answered, ~HoldsSecret PROVE HeadersNameNobody
    BY DEF HeadersNameNobody
  <1> DEFINE wire == served.wire
             bare == Bare(served.wire)
             result == Authenticate(served.wire.auth, authConfig, served.at)
             alone == IdentityFrom(result, authConfig, bare)
             id == served.id
  <1>1. id = IdentityFrom(result, authConfig, wire) /\ id.refused = "none" /\ IsWire(wire)
    BY AnsweredIdentity DEF GraphqlIdentity
  <1>2. alone = GraphqlIdentity(authConfig, Bare(served.wire), served.at)
    BY DEF GraphqlIdentity, Bare
  <1>3. bare.auth = wire.auth /\ bare.headers = <<>>
    BY DEF Bare
  <1>4. result.fault = "none" /\ wire.auth # <<>> => result.claims = wire.auth[1].token.claims
    <2>1. result = Authenticate(wire.auth, authConfig, served.at) /\ IsWire(wire)
      BY <1>1
    <2> HIDE DEF result, alone, wire
    <2>2. ASSUME wire.auth # <<>>
          PROVE  result.fault = "none" => result.claims = wire.auth[1].token.claims
      <3>1. ClaimsOf(wire, result)
        BY <2>1, <2>2, AuthenticClaims
      <3> QED BY <3>1 DEF ClaimsOf
    <2> QED BY <2>2
  <1>5. SecretOutcome(authConfig, bare.headers) \notin {"Accepted", "Rejected"}
    BY <1>3, NoHeader DEF SecretOutcome, SecretOffered
  <1>6. AskedRole(bare.headers) = <<>> /\ RoleAllowed(result.claims, bare.headers)
    BY <1>3, NoHeader DEF AskedRole, RoleAllowed
  <1>7. ~id.elevated /\ ~served.backend
    BY BackendHolds, ElevatedHolds
  <1> HIDE DEF result, bare, wire, id
  <1>8. SecretOutcome(authConfig, wire.headers) # "Accepted"
    BY DEF HoldsSecret, wire
  <1>9. /\ ~TokenRefused(wire.auth, result)
        /\ id.verified <=> TokenVerified(wire.auth, result)
        /\ id.db = IF result.fault = "none" THEN result.role
                   ELSE IF authConfig.anon # <<>> THEN authConfig.anon[1] ELSE "anon"
    BY <1>1, <1>8, WithoutSecret, RoleOfDatabase
  <1>10. alone.refused = "none"
    <2>1. ~TokenRefused(bare.auth, result)
      BY <1>3, <1>9
    <2>2. authConfig.admin # <<>> /\ ~TokenVerified(bare.auth, result) => authConfig.unauthorized # <<>>
      BY <1>1, <1>3, <1>8, <1>9, WithoutSecret
    <2> QED BY <1>5, <1>6, <2>1, <2>2 DEF IdentityFrom
  <1> HIDE DEF alone
  <1>11. id.db = alone.db
    BY <1>9, <1>10, RoleOfDatabase DEF alone
  <1>12. alone.verified <=> id.verified
    BY <1>3, <1>5, <1>9, <1>10, WithoutSecret DEF alone
  <1>13. id.session = alone.session /\ (id.role = alone.role \/ (id.verified /\ id.role[1] \in AllowedRoles(wire.auth[1].token.claims)))
    <2>1. CASE id.verified
      <3>1. /\ RoleAllowed(result.claims, wire.headers)
            /\ id.role = IF AskedRole(wire.headers) # <<>> THEN AskedRole(wire.headers) ELSE RoleFromClaims(result.claims)
            /\ id.session = TokenSession(result.claims, wire.headers)
        BY <1>1, <1>8, <2>1, WithoutSecret
      <3>2. alone.role = RoleFromClaims(result.claims) /\ alone.session = TokenSession(result.claims, bare.headers)
        BY <1>5, <1>6, <1>10, <1>12, <2>1, WithoutSecret DEF alone
      <3>3. id.session = alone.session
        BY <3>1, <3>2 DEF TokenSession
      <3>4. result.claims = wire.auth[1].token.claims
        BY <1>4, <1>9, <2>1 DEF TokenVerified
      <3> QED BY <2>1, <3>1, <3>2, <3>3, <3>4 DEF RoleAllowed
    <2>2. CASE ~id.verified
      BY <1>1, <1>5, <1>8, <1>10, <1>12, <2>2, WithoutSecret DEF alone
    <2> QED BY <2>1, <2>2
  <1> QED BY <1>2, <1>7, <1>10, <1>11, <1>13 DEF HeadersNameNobody, wire, id

(***************************************************************************)
(* graphql_identity: an operation is answered as the caller its secret or  *)
(* its token authenticates, over HTTP and over a WebSocket, and as nobody  *)
(* else: whatever headers and claims are sent, by however many operations, *)
(* and however long a connection lasts.                                    *)
(***************************************************************************)
THEOREM AnsweredAsNobodyElse == IdentitySpec => []AnsweredAsAuthenticated
  <1>1. IdentityInit => IdentityInv
    BY DEF IdentityInit, IdentityInv
  <1>2. IdentityInv => AnsweredAsAuthenticated
    BY HeadersInv, StrictInv, SecretInv, StrangersInv DEF AnsweredAsAuthenticated
  <1> QED BY <1>1, <1>2, IdentityNextInv, PTL DEF IdentitySpec

-----------------------------------------------------------------------------
(* What is chosen of a sequence *)

\* g[i] is what is chosen of the first i elements.
Chooses(seq, places, g, i) ==
    g[i] = IF i = 0 THEN <<>> ELSE IF i \in places THEN Append(g[i - 1], seq[i]) ELSE g[i - 1]

\* There is such a g: the recursion of Where defines a function.
LEMMA ChoiceExists ==
    ASSUME NEW S, NEW seq \in Seq(S), NEW places, NEW m \in 0..Len(seq)
    PROVE  \E g \in [0..m -> Seq(S)] : \A i \in 0..m : Chooses(seq, places, g, i)
  <1> DEFINE Step(g, i) == Chooses(seq, places, g, i)
             Good(n) == \E g \in [0..n -> Seq(S)] : \A i \in 0..n : Step(g, i)
             T == {n \in 0..Len(seq) : ~Good(n)}
  <1>0. Len(seq) \in Nat
    OBVIOUS
  <1> SUFFICES ASSUME T # {} PROVE FALSE
    BY <1>0
  <1>1. T \subseteq Nat
    BY <1>0
  <1>2. PICK n \in T : \A y \in T : n <= y
    BY <1>1, FirstExists
  <1>3. CASE n = 0
    <2> DEFINE g == [i \in 0..n |-> <<>>]
    <2>1. g \in [0..n -> Seq(S)]
      OBVIOUS
    <2>2. \A i \in 0..n : Step(g, i)
      BY <1>3 DEF Chooses
    <2> QED BY <2>1, <2>2
  <1>4. CASE n # 0
    <2>1. n - 1 \in 0..Len(seq) /\ n \in 1..Len(seq) /\ n - 1 \notin T
      <3>1. n \in Nat /\ n \in 0..Len(seq) /\ n - 1 \in Nat /\ n - 1 < n
        <4>1. n \in 0..Len(seq)
          OBVIOUS
        <4> HIDE DEF T
        <4> QED BY <1>0, <1>4, <4>1
      <3>2. n - 1 \notin T
        <4> HIDE DEF T
        <4> QED BY <1>2, <3>1
      <3> HIDE DEF T
      <3> QED BY <1>0, <3>1, <3>2
    <2>2. PICK h \in [0..(n - 1) -> Seq(S)] : \A i \in 0..(n - 1) : Step(h, i)
      BY <2>1
    <2> DEFINE last == IF n \in places THEN Append(h[n - 1], seq[n]) ELSE h[n - 1]
               g == [i \in 0..n |-> IF i = n THEN last ELSE h[i]]
    <2>3. h[n - 1] \in Seq(S) /\ seq[n] \in S
      BY <2>1, <2>2
    <2>4. last \in Seq(S)
      BY <2>3
    <2>5. g \in [0..n -> Seq(S)]
      BY <2>1, <2>2, <2>4
    <2>6. \A i \in 0..(n - 1) : g[i] = h[i]
      BY <2>1
    <2>7. ASSUME NEW i \in 0..n PROVE Step(g, i)
      <3>1. CASE i = n
        BY <1>4, <2>1, <2>6, <3>1 DEF Chooses
      <3>2. CASE i # n
        <4>1. i \in 0..(n - 1) /\ (i # 0 => i - 1 \in 0..(n - 1))
          BY <2>1, <3>2
        <4>2. Step(h, i)
          BY <2>2, <4>1
        <4>3. g[i] = h[i] /\ (i # 0 => g[i - 1] = h[i - 1])
          BY <2>6, <4>1
        <4> HIDE DEF g
        <4> QED BY <4>2, <4>3 DEF Chooses
      <3> QED BY <3>1, <3>2
    <2>8. Good(n)
      BY <2>5, <2>7
    <2> QED BY <1>2, <2>8
  <1> QED BY <1>3, <1>4

\* What Where answers is a sequence of what is at the places.
LEMMA WhereIn ==
    ASSUME NEW S, NEW seq \in Seq(S), NEW places
    PROVE  Where(seq, places) \in Seq({seq[i] : i \in places \cap DOMAIN seq})
  <1> DEFINE In == {seq[i] : i \in places \cap DOMAIN seq}
             Found == CHOOSE g : g = [i \in 0..Len(seq) |->
                          IF i = 0 THEN <<>> ELSE IF i \in places THEN Append(g[i - 1], seq[i]) ELSE g[i - 1]]
             n == Len(seq)
  <1>1. n \in Nat /\ DOMAIN seq = 1..n
    OBVIOUS
  <1>2. PICK g \in [0..n -> Seq(S)] : \A i \in 0..n : Chooses(seq, places, g, i)
    <2>1. n \in 0..n
      BY <1>1
    <2> HIDE DEF n
    <2> QED BY <2>1, ChoiceExists DEF n
  <1>3. g = [i \in 0..Len(seq) |->
                IF i = 0 THEN <<>> ELSE IF i \in places THEN Append(g[i - 1], seq[i]) ELSE g[i - 1]]
    BY <1>2 DEF Chooses
  <1>4. Found = [i \in 0..Len(seq) |->
                    IF i = 0 THEN <<>> ELSE IF i \in places THEN Append(Found[i - 1], seq[i]) ELSE Found[i - 1]]
    BY <1>3
  <1>5. Where(seq, places) = Found[n]
    BY DEF Where
  <1> HIDE DEF Found
  <1> DEFINE T == {i \in 0..n : Found[i] \notin Seq(In)}
  <1>6. T = {}
    <2> SUFFICES ASSUME T # {} PROVE FALSE
      OBVIOUS
    <2>1. T \subseteq Nat
      BY <1>1
    <2>2. PICK i \in T : \A y \in T : i <= y
      BY <2>1, FirstExists
    <2>5. i \in 0..n
      OBVIOUS
    <2>3. CASE i = 0
      BY <1>1, <1>4, <2>2, <2>3
    <2>4. CASE i # 0
      <3>1. i - 1 \in 0..n /\ i \in 0..n /\ i \in 1..n /\ i - 1 \in Nat /\ i - 1 < i
        <4> HIDE DEF T, n
        <4> QED BY <1>1, <2>4, <2>5
      <3>6. i - 1 \notin T
        <4> HIDE DEF T
        <4> QED BY <2>2, <3>1
      <3>2. Found[i - 1] \in Seq(In)
        <4> HIDE DEF In
        <4> QED BY <3>1, <3>6
      <3>3. Found[i] = IF i \in places THEN Append(Found[i - 1], seq[i]) ELSE Found[i - 1]
        BY <1>4, <2>4, <3>1
      <3>4. i \in places => seq[i] \in In
        BY <1>1, <3>1
      <3> HIDE DEF In
      <3>5. Found[i] \in Seq(In)
        BY <3>2, <3>3, <3>4
      <3> QED BY <2>2, <3>5
    <2> QED BY <2>3, <2>4
  <1>7. n \in 0..n /\ \A i \in 0..n : Found[i] \in Seq(In)
    <2> HIDE DEF In
    <2> QED BY <1>1, <1>6
  <1> HIDE DEF n
  <1> QED BY <1>5, <1>7

-----------------------------------------------------------------------------
(* Relationships lead to tables the schema has *)

Leading(rels, s) == \E S : rels \in Seq(S) /\ \A r \in S : r.to \in DOMAIN s.tables

LEMMA AlongLeads ==
    ASSUME NEW s, NEW L, NEW links \in Seq(L), \A l \in L : l.to \in DOMAIN s.tables
    PROVE  Leading(RelsAlong(s, links), s)
  <1> DEFINE rel(l) == Rel(RelName(s, l), l.to, l.list, l.args)
             S == {rel(l) : l \in L}
  <1>1. RelsAlong(s, links) = [i \in 1..Len(links) |-> rel(links[i])]
    BY DEF RelsAlong
  <1>2. \A l \in L : rel(l).to = l.to
    BY DEF Rel
  <1>3. \A r \in S : r.to \in DOMAIN s.tables
    BY <1>2
  <1>4. RelsAlong(s, links) \in Seq(S)
    <2>1. Len(links) \in Nat /\ \A i \in 1..Len(links) : links[i] \in L
      OBVIOUS
    <2> HIDE DEF rel
    <2> QED BY <1>1, <2>1
  <1> HIDE DEF S
  <1> QED BY <1>3, <1>4 DEF Leading

\* What is chosen of the links at places whose far table is there.
LEMMA ChosenLead ==
    ASSUME NEW s, NEW seq, NEW S, seq \in Seq(S), NEW places,
           \A i \in places \cap DOMAIN seq : seq[i].to \in DOMAIN s.tables
    PROVE  Leading(Where(seq, places), s)
  <1> DEFINE In == {seq[i] : i \in places \cap DOMAIN seq}
  <1>1. Where(seq, places) \in Seq(In)
    BY WhereIn
  <1>2. \A r \in In : r.to \in DOMAIN s.tables
    OBVIOUS
  <1> HIDE DEF In
  <1> QED BY <1>1, <1>2 DEF Leading

LEMMA ReflectedLead ==
    ASSUME NEW s, NEW t, IsSequence(s.links)
    PROVE  Leading(ReflectedFields(s, t), s)
  <1> DEFINE places == {i \in DOMAIN s.links : s.links[i].from = t /\ s.links[i].to \in DOMAIN s.tables}
  <1>1. Leading(Where(s.links, places), s)
    <2>1. \A i \in places \cap DOMAIN s.links : s.links[i].to \in DOMAIN s.tables
      OBVIOUS
    <2> DEFINE S == {s.links[i] : i \in DOMAIN s.links}
    <2>2. s.links \in Seq(S)
      BY DEF IsSequence
    <2> HIDE DEF places, S
    <2> QED BY <2>1, <2>2, ChosenLead
  <1>2. ReflectedFields(s, t) = RelsAlong(s, Where(s.links, places))
    BY DEF ReflectedFields
  <1> HIDE DEF places
  <1>3. PICK L : Where(s.links, places) \in Seq(L) /\ \A l \in L : l.to \in DOMAIN s.tables
    BY <1>1 DEF Leading
  <1> QED BY <1>2, <1>3, AlongLeads

LEMMA DeclaredLead ==
    ASSUME NEW s, NEW t, IsSequence(s.links), NEW entries, IsSequence(entries)
    PROVE  Leading(DeclaredFields(s, t, entries), s)
  <1> DEFINE follow(e, keys) ==
                IF e.using = "" THEN Rel(e.name, IF e.columns = {} THEN <<>> ELSE e.to, ~e.toOne, "none")
                ELSE IF keys = <<>> THEN Rel(e.name, <<>>, FALSE, "none")
                ELSE Rel(e.name, keys[1].to, keys[1].list, keys[1].args)
             field(i) == follow(entries[i], Where(s.links, {j \in DOMAIN s.links : s.links[j].from = t /\ s.links[j].key = entries[i].using}))
             followed == [i \in 1..Len(entries) |-> field(i)]
             there == {i \in DOMAIN followed : followed[i].to \in DOMAIN s.tables}
             given == Where(followed, there)
             names == {given[j].name : j \in DOMAIN given}
             places == {i \in DOMAIN s.links : /\ s.links[i].from = t /\ s.links[i].function # <<>>
                                               /\ s.links[i].to \in DOMAIN s.tables /\ RelName(s, s.links[i]) \notin names}
  <1>1. DeclaredFields(s, t, entries) = given \o RelsAlong(s, Where(s.links, places))
    BY DEF DeclaredFields
  <1>2. Leading(Where(s.links, places), s)
    <2> HIDE DEF names
    <2>1. \A i \in places \cap DOMAIN s.links : s.links[i].to \in DOMAIN s.tables
      OBVIOUS
    <2> DEFINE S == {s.links[i] : i \in DOMAIN s.links}
    <2>2. s.links \in Seq(S)
      BY DEF IsSequence
    <2> HIDE DEF places, S
    <2> QED BY <2>1, <2>2, ChosenLead
  <1>3. Leading(given, s)
    <2> HIDE DEF follow, field
    <2>1. Len(entries) \in Nat
      BY DEF IsSequence
    <2> DEFINE S == {field(i) : i \in 1..Len(entries)}
    <2>2. followed \in Seq(S)
      BY <2>1
    <2>3. \A i \in there \cap DOMAIN followed : followed[i].to \in DOMAIN s.tables
      OBVIOUS
    <2> HIDE DEF followed, there, S
    <2> QED BY <2>2, <2>3, ChosenLead
  <1> HIDE DEF follow, field, followed, there, given, names, places
  <1>4. PICK L : Where(s.links, places) \in Seq(L) /\ \A l \in L : l.to \in DOMAIN s.tables
    BY <1>2 DEF Leading
  <1>5. Leading(RelsAlong(s, Where(s.links, places)), s)
    BY <1>4, AlongLeads
  <1>6. PICK G : given \in Seq(G) /\ \A r \in G : r.to \in DOMAIN s.tables
    BY <1>3 DEF Leading
  <1>7. PICK A : RelsAlong(s, Where(s.links, places)) \in Seq(A) /\ \A r \in A : r.to \in DOMAIN s.tables
    BY <1>5 DEF Leading
  <1>8. DeclaredFields(s, t, entries) \in Seq(G \cup A)
    <2>1. given \in Seq(G \cup A) /\ RelsAlong(s, Where(s.links, places)) \in Seq(G \cup A)
      BY <1>6, <1>7
    <2> QED BY <1>1, <2>1
  <1> QED BY <1>6, <1>7, <1>8 DEF Leading

\* The keys and the declared relationships are sequences.
Ordering(s) == IsSequence(s.links) /\ \A t \in DOMAIN s.declared : IsSequence(s.declared[t])

LEMMA FieldsLead ==
    ASSUME NEW s, NEW t, Ordering(s)
    PROVE  Leading(RelFields(s, t), s)
  <1> DEFINE all == IF t \in DOMAIN s.declared THEN DeclaredFields(s, t, s.declared[t]) ELSE ReflectedFields(s, t)
             places == {i \in DOMAIN all : all[i].to \notin EnumTables(s)}
  <1>1. Leading(all, s)
    BY ReflectedLead, DeclaredLead DEF Ordering
  <1>2. RelFields(s, t) = Where(all, places)
    BY DEF RelFields
  <1> HIDE DEF all, places
  <1>3. PICK S : all \in Seq(S) /\ \A r \in S : r.to \in DOMAIN s.tables
    BY <1>1 DEF Leading
  <1>4. \A i \in places \cap DOMAIN all : all[i].to \in DOMAIN s.tables
    BY <1>3
  <1> QED BY <1>2, <1>3, <1>4, ChosenLead

LEMMA RelsThere ==
    ASSUME NEW s, NEW t, Ordering(s), NEW r \in Rels(s, t)
    PROVE  r.to \in DOMAIN s.tables
  <1>1. PICK S : RelFields(s, t) \in Seq(S) /\ \A x \in S : x.to \in DOMAIN s.tables
    BY FieldsLead DEF Leading
  <1>2. Rels(s, t) = {RelFields(s, t)[i] : i \in DOMAIN RelFields(s, t)}
    BY DEF Rels
  <1> QED BY <1>1, <1>2

LEMMA FreeRelsThere ==
    ASSUME NEW s, NEW role, NEW t, Ordering(s), NEW r \in FreeRels(s, role, t)
    PROVE  r.to \in DOMAIN s.tables
  <1>1. PICK S : RelFields(s, t) \in Seq(S) /\ \A x \in S : x.to \in DOMAIN s.tables
    BY FieldsLead DEF Leading
  <1> DEFINE rels == RelFields(s, t)
  <1>2. \E i \in 1..Len(rels) : r = rels[i]
    <2> HIDE DEF rels
    <2> QED BY DEF FreeRels, Free, rels
  <1> QED BY <1>1, <1>2

-----------------------------------------------------------------------------
(* The cache of a role *)

\* What is left of s for a role.
IsView(s, role, backend, v) ==
    /\ DOMAIN v.tables \subseteq DOMAIN s.tables
    /\ \A t \in DOMAIN v.tables : /\ Grant(s, role, t) # <<>>
                                  /\ v.tables[t] = Reduced(s, t, Grant(s, role, t)[1], backend)
    /\ \A t : Grant(v, role, t) = Grant(s, role, t)
    /\ Ordering(v)

LEMMA ViewIs ==
    ASSUME NEW s, Ordering(s), NEW role, NEW backend
    PROVE  IsView(s, role, backend, CacheForRole(s, role, backend))
  <1> DEFINE cut(t) == Reduced(s, t, Grant(s, role, t)[1], backend)
             seen == {t \in DOMAIN s.tables : Grant(s, role, t) # <<>> /\ Kept(Grant(s, role, t)[1], cut(t))}
             readable == {t \in seen : ReadsAnything(Grant(s, role, t)[1], cut(t))}
             kept == {i \in DOMAIN s.links : s.links[i].from \in seen /\ LinkKept(s, readable, s.links[i])}
             v == CacheForRole(s, role, backend)
  <1>1. /\ v.tables = [t \in seen |-> cut(t)]
        /\ v.links = Where(s.links, kept)
        /\ v.doc = s.doc /\ v.declared = s.declared
    <2> HIDE DEF cut, seen, readable, kept
    <2>1. v = [tables |-> [t \in seen |-> cut(t)], links |-> Where(s.links, kept), doc |-> s.doc, enums |-> s.enums,
               declared |-> s.declared, roots |-> s.roots, functions |-> s.functions, default |-> s.default, order |-> s.order]
      BY DEF CacheForRole, cut, seen, readable, kept
    <2> HIDE DEF v
    <2> QED BY <2>1
  <1> HIDE DEF v, kept
  <1>2. \A t : Grant(v, role, t) = Grant(s, role, t)
    BY <1>1 DEF Grant
  <1>3. IsSequence(v.links)
    <2> DEFINE S == {s.links[i] : i \in DOMAIN s.links}
               w == Where(s.links, kept)
    <2>1. s.links \in Seq(S)
      BY DEF Ordering, IsSequence
    <2> HIDE DEF S
    <2> DEFINE In == {s.links[i] : i \in kept \cap DOMAIN s.links}
    <2>2. w \in Seq(In)
      BY <2>1, WhereIn
    <2> HIDE DEF w, In
    <2>3. w \in Seq({w[i] : i \in DOMAIN w})
      BY <2>2
    <2> QED BY <1>1, <2>3 DEF IsSequence, w
  <1>4. Ordering(v)
    BY <1>1, <1>3 DEF Ordering
  <1>5. DOMAIN v.tables = seen /\ \A t \in seen : v.tables[t] = cut(t)
    <2> HIDE DEF seen, cut
    <2> QED BY <1>1
  <1> QED BY <1>2, <1>4, <1>5 DEF IsView, v

\* A role the document does not name sees no table.
LEMMA NothingSeen ==
    ASSUME NEW s, NEW role, role \notin DOMAIN s.doc, NEW backend, NEW v, IsView(s, role, backend, v)
    PROVE  DOMAIN v.tables = {}
  BY DEF IsView, Grant

\* What the reduction of a table leaves.
LEMMA ReducedIs ==
    ASSUME NEW s, NEW t, NEW g, NEW backend, NEW T, T = Reduced(s, t, g, backend)
    PROVE  /\ T.columns \subseteq s.tables[t].columns
           /\ \A f \in T.computed : f \in s.tables[t].computed /\ g.select # <<>> /\ f.as \in g.select[1].computed
           /\ T.renamed = s.tables[t].renamed
           /\ T.ins => g.insert # <<>> /\ (backend \/ ~g.insert[1].backendOnly)
           /\ T.upd => g.update # <<>>
           /\ T.del => g.delete
  BY DEF Reduced

LEMMA SourceOfExposed ==
    ASSUME NEW T, FieldsApart(T), NEW c \in T.columns
    PROVE  Source(T, Exposed(T, c)) = c
  <1>1. \A d \in DOMAIN T.renamed : Exposed(T, d) = T.renamed[d] /\ d \in T.columns
    BY DEF FieldsApart, Exposed
  <1>2. \A d \in DOMAIN T.renamed : T.renamed[d] = Exposed(T, c) => d = c
    BY <1>1 DEF FieldsApart
  <1>3. CASE c \in DOMAIN T.renamed
    BY <1>1, <1>2, <1>3 DEF Source
  <1>4. CASE c \notin DOMAIN T.renamed
    BY <1>2, <1>4 DEF Source, Exposed
  <1> QED BY <1>3, <1>4

LEMMA SourceOfComputed ==
    ASSUME NEW T, FieldsApart(T), NEW f \in T.computed
    PROVE  Source(T, f.as) \notin T.columns
  <1>1. \A d \in DOMAIN T.renamed : T.renamed[d] # f.as
    BY DEF FieldsApart, Exposed
  <1> QED BY <1>1 DEF Source, FieldsApart

\* A field that may be read is a column the role may select or a computed
\* field it was granted.
FieldGranted(s, role, t, f) ==
    LET g == Grant(s, role, t)[1]
    IN /\ g.select # <<>>
       /\ \/ Source(s.tables[t], f.name) \in g.select[1].columns
          \/ f.name \in g.select[1].computed /\ Source(s.tables[t], f.name) \notin s.tables[t].columns

LEMMA ReadFieldsGranted ==
    ASSUME NEW s, NEW role, role # WholeSchema, NEW backend, NEW v, IsView(s, role, backend, v),
           NEW t \in DOMAIN v.tables, FieldsApart(s.tables[t]), NEW f \in ReadFields(v, role, t)
    PROVE  FieldGranted(s, role, t, f)
  <1> DEFINE g == Grant(s, role, t)[1]
             T == v.tables[t]
             S == s.tables[t]
  <1>1. Grant(v, role, t) = Grant(s, role, t) /\ Grant(s, role, t) # <<>> /\ T = Reduced(s, t, g, backend)
    BY DEF IsView
  <1>2. f \in AllFields(T) /\ (Source(T, f.name) \in T.columns => MayRead(g, Source(T, f.name)))
    BY <1>1 DEF ReadFields
  <1> HIDE DEF g, T, S
  <1>3. /\ T.columns \subseteq S.columns /\ T.renamed = S.renamed
        /\ \A x \in T.computed : x \in S.computed /\ g.select # <<>> /\ x.as \in g.select[1].computed
    BY <1>1, ReducedIs DEF S
  <1>4. \A name : Source(T, name) = Source(S, name)
    BY <1>3 DEF Source
  <1>5. \A c : Exposed(T, c) = Exposed(S, c)
    BY <1>3 DEF Exposed
  <1>6. CASE \E c \in T.columns : f.name = Exposed(T, c)
    <2>1. PICK c \in T.columns : f.name = Exposed(T, c)
      BY <1>6
    <2>2. Source(S, f.name) = c
      BY <1>3, <1>5, <2>1, SourceOfExposed DEF S
    <2> QED BY <1>2, <1>4, <2>1, <2>2 DEF MayRead, FieldGranted, g, S
  <1>7. CASE \E x \in T.computed : f.name = x.as
    <2>1. PICK x \in T.computed : f.name = x.as
      BY <1>7
    <2>2. Source(S, f.name) \notin S.columns
      BY <1>3, <2>1, SourceOfComputed DEF S
    <2> QED BY <1>3, <2>1, <2>2 DEF FieldGranted, g, S
  <1>8. (\E c \in T.columns : f.name = Exposed(T, c)) \/ \E x \in T.computed : f.name = x.as
    BY <1>2 DEF AllFields
  <1> QED BY <1>6, <1>7, <1>8

-----------------------------------------------------------------------------
(* Roots, and the tables they lead to *)

\* A root's table is there; one that writes is of a table that can be written
\* so.
RootFact(s, r) ==
    /\ r.table \in DOMAIN s.tables
    /\ r.kind = "insert" => s.tables[r.table].ins
    /\ r.kind \in {"update", "update_many", "update_by_pk"} => s.tables[r.table].upd
    /\ r.kind = "delete" => s.tables[r.table].del

LEMMA QueryRootFact ==
    ASSUME NEW s, NEW role, NEW t \in DOMAIN s.tables, NEW r \in QueryRoots(s, role, t)
    PROVE  RootFact(s, r)
  <1>1. r.table = t /\ r.kind \in {"select", "select_aggregate", "select_by_pk"}
    BY DEF QueryRoots
  <1> QED BY <1>1 DEF RootFact

LEMMA MutationRootFact ==
    ASSUME NEW s, NEW role, NEW t \in DOMAIN s.tables, NEW r \in MutationRoots(s, role, t)
    PROVE  RootFact(s, r)
  <1> DEFINE T == s.tables[t]
  <1>1. /\ r.table = t
        /\ \/ r.kind \in {"insert", "insert_one"} /\ T.ins
           \/ r.kind \in {"update", "update_many", "update_by_pk"} /\ T.upd
           \/ r.kind \in {"delete", "delete_by_pk"} /\ T.del
    BY DEF MutationRoots
  <1> QED BY <1>1 DEF RootFact

LEMMA FunctionRootFact ==
    ASSUME NEW s, NEW role, NEW volatile, NEW r \in FunctionRoots(s, role, volatile)
    PROVE  RootFact(s, r)
  <1>1. PICK f \in AddedFunctions(s, role, volatile) :
            r.table = f.returns /\ r.kind \in {"function", "function_aggregate"}
    BY DEF FunctionRoots
  <1>2. IsRootFunction(s, role, f)
    BY <1>1 DEF AddedFunctions, RootFunctions
  <1> QED BY <1>1, <1>2 DEF RootFact, IsRootFunction

LEMMA RootFacts ==
    ASSUME NEW s, NEW role, NEW r \in QueryFields(s, role) \cup MutationFields(s, role)
    PROVE  RootFact(s, r)
  <1>1. CASE r \in FunctionRoots(s, role, FALSE) \cup FunctionRoots(s, role, TRUE)
    BY <1>1, FunctionRootFact
  <1>2. CASE \E t \in DOMAIN s.tables : r \in QueryRoots(s, role, t)
    BY <1>2, QueryRootFact
  <1>3. CASE \E t \in DOMAIN s.tables : r \in MutationRoots(s, role, t)
    BY <1>3, MutationRootFact
  <1>4. \/ r \in FunctionRoots(s, role, FALSE) \cup FunctionRoots(s, role, TRUE)
        \/ \E t \in DOMAIN s.tables : r \in QueryRoots(s, role, t)
        \/ \E t \in DOMAIN s.tables : r \in MutationRoots(s, role, t)
    BY DEF QueryFields, MutationFields
  <1> QED BY <1>1, <1>2, <1>3, <1>4

\* In a schema that builds, a relationship of a row type leads to a row type:
\* its name has to be registered.
LEMMA RowsLeadToRows ==
    ASSUME NEW s, NEW role, Ordering(s), Builds(s, role), TypesApart(s, role),
           NEW t \in DOMAIN s.tables, HasRows(s, role, t), NEW r \in FreeRels(s, role, t)
    PROVE  r.to \in DOMAIN s.tables /\ HasRows(s, role, r.to)
  <1>1. r.to \in DOMAIN s.tables
    BY FreeRelsThere
  <1> DEFINE name == BaseName(s, r.to) \o <<>>
  <1>2. name \in ObjectNames(s, role, t)
    <2> DEFINE along(x) == Of(s, x.to, {<<>>} \cup IF x.list THEN RowArguments \cup {<<"aggregate">>} ELSE {})
                           \cup (IF x.args # "none" THEN Of(s, t, {x.name \o <<"args">>}) ELSE {})
    <2>1. name \in along(r)
      BY DEF Of
    <2>2. UNION {along(x) : x \in FreeRels(s, role, t)} \subseteq ObjectNames(s, role, t)
      BY DEF ObjectNames
    <2> HIDE DEF along, name
    <2> QED BY <2>1, <2>2
  <1>3. <<>> \in RegisteredFor(s, role, t)
    BY DEF RegisteredFor
  <1>4. name \in RegisteredNames(s, role, t)
    BY <1>2, <1>3 DEF RegisteredNames, NamesOf
  <1>5. name \in Registered(s, role)
    <2> HIDE DEF name
    <2> QED BY <1>4 DEF Builds, Named
  <1>6. PICK u \in DOMAIN s.tables : \E suffix \in RegisteredFor(s, role, u) \cup ArgumentTypes(s, role, u) :
            name = BaseName(s, u) \o suffix
    <2> HIDE DEF name
    <2> QED BY <1>5 DEF Registered, Of
  <1>7. PICK suffix \in RegisteredFor(s, role, u) \cup ArgumentTypes(s, role, u) : name = BaseName(s, u) \o suffix
    BY <1>6
  <1>8. Of(s, u, {suffix}) = Of(s, r.to, {<<>>})
    BY <1>7 DEF Of
  <1>9. u = r.to /\ suffix = <<>> /\ suffix \in RegisteredFor(s, role, u)
    BY <1>1, <1>7, <1>8 DEF TypesApart
  <1>10. HasRows(s, role, u)
    BY <1>9 DEF RegisteredFor
  <1> QED BY <1>1, <1>9, <1>10

\* Whatever set the roots are in and no step leaves holds what is met.
LEMMA RowsMet ==
    ASSUME NEW s, NEW role, Ordering(s), Builds(s, role), TypesApart(s, role),
           NEW t \in RowTables(s, role)
    PROVE  t \in DOMAIN s.tables /\ HasRows(s, role, t)
  <1> DEFINE follow(x) == {r.to : r \in FreeRels(s, role, x)}
             roots == {r.table : r \in QueryFields(s, role) \cup MutationFields(s, role)}
             from == {x \in roots : HasRows(s, role, x)}
             met == {x \in DOMAIN s.tables : HasRows(s, role, x)}
  <1>1. \A x \in roots : x \in DOMAIN s.tables
    BY RootFacts DEF RootFact
  <1>2. from \subseteq met
    <2> HIDE DEF roots
    <2> QED BY <1>1
  <1>3. \A x \in met : follow(x) \subseteq met
    BY RowsLeadToRows
  <1>4. t \in DOMAIN s.tables /\ \A m \in SUBSET DOMAIN s.tables :
            (from \subseteq m /\ \A x \in m : follow(x) \subseteq m) => t \in m
    BY DEF RowTables, Closure
  <1>5. met \in SUBSET DOMAIN s.tables
    OBVIOUS
  <1> HIDE DEF from, follow
  <1> QED BY <1>2, <1>3, <1>4, <1>5

LEMMA InsertsMet ==
    ASSUME NEW s, NEW role, Ordering(s), NEW t \in InsertTables(s, role)
    PROVE  t \in DOMAIN s.tables /\ s.tables[t].ins
  <1> DEFINE nested(x) == {r.to : r \in {y \in Rels(s, x) : NestedWrite(s, y)}}
             from == {r.table : r \in {x \in MutationFields(s, role) : x.kind = "insert"}}
             met == {x \in DOMAIN s.tables : s.tables[x].ins}
  <1>1. from \subseteq met
    BY RootFacts DEF RootFact
  <1>2. \A x \in met : nested(x) \subseteq met
    BY RelsThere DEF NestedWrite
  <1>3. t \in DOMAIN s.tables /\ \A m \in SUBSET DOMAIN s.tables :
            (from \subseteq m /\ \A x \in m : nested(x) \subseteq m) => t \in m
    BY DEF InsertTables, Closure
  <1>4. met \in SUBSET DOMAIN s.tables
    OBVIOUS
  <1> HIDE DEF from, nested
  <1> QED BY <1>1, <1>2, <1>3, <1>4

\* The columns a write accepts are those of its own permission.
LEMMA WriteFieldsGranted ==
    ASSUME NEW s, NEW role, role # WholeSchema, NEW backend, NEW v, IsView(s, role, backend, v),
           NEW t \in DOMAIN v.tables, NEW verb, Grant(s, role, t)[1][verb] # <<>>,
           NEW f \in WriteFields(v, role, t, verb)
    PROVE  Source(s.tables[t], f.name) \in Grant(s, role, t)[1][verb][1].columns
  <1> DEFINE g == Grant(s, role, t)[1]
             T == v.tables[t]
  <1>1. Grant(v, role, t) = Grant(s, role, t) /\ Grant(s, role, t) # <<>> /\ T = Reduced(s, t, g, backend)
    BY DEF IsView
  <1>2. Source(T, f.name) \in g[verb][1].columns
    BY <1>1 DEF WriteFields
  <1>3. T.renamed = s.tables[t].renamed
    BY <1>1, ReducedIs
  <1>4. Source(T, f.name) = Source(s.tables[t], f.name)
    BY <1>3 DEF Source
  <1> QED BY <1>2, <1>4

-----------------------------------------------------------------------------
(* Who is answered from which schema *)

\* A caller that is restricted is answered from nobody's schema or from one of
\* its own role, which was built, and a backend's only if it is one.
AnsweredFrom ==
    serving # <<>> /\ HasPermissions(site) /\ asking.role \notin {WholeSchema, AdminRole} =>
        \/ serving = <<Nobody, FALSE>>
        \/ serving \in built /\ serving[1] = asking.role /\ (serving[2] => asking.backend)

SchemaInv ==
    /\ site \in Sites
    /\ toBuild \subseteq Schemas(site)
    /\ built \subseteq {key \in Schemas(site) : Builds(View(site, key), key[1])}
    /\ AnsweredFrom

LEMMA SchemaNextInv == SchemaInv /\ [SchemaNext]_schemaVars => SchemaInv'
  <1> SUFFICES ASSUME SchemaInv, [SchemaNext]_schemaVars PROVE SchemaInv'
    OBVIOUS
  <1>1. ASSUME NEW key \in toBuild, Build(key) PROVE SchemaInv'
    <2>1. /\ UNCHANGED <<site, asking, serving>> /\ toBuild' = toBuild \ {key}
          /\ \/ built' = built
             \/ built' = built \cup {key} /\ Builds(View(site, key), key[1])
      BY <1>1 DEF Build
    <2>2. AnsweredFrom'
      BY <2>1 DEF SchemaInv, AnsweredFrom
    <2> QED BY <2>1, <2>2 DEF SchemaInv
  <1>2. ASSUME NEW role \in Roles(site) \cup Strangers, NEW backend \in BOOLEAN, Serve(role, backend)
        PROVE  SchemaInv'
    <2>1. /\ UNCHANGED <<site, toBuild, built>>
          /\ asking' = [role |-> role, backend |-> backend] /\ serving' = SchemaFor(role, backend)
      BY <1>2 DEF Serve
    <2>2. ASSUME HasPermissions(site), role \notin {WholeSchema, AdminRole}
          PROVE  \/ serving' = <<Nobody, FALSE>>
                 \/ serving' \in built /\ serving'[1] = role /\ (serving'[2] => backend)
      BY <2>1, <2>2 DEF SchemaFor
    <2>3. asking'.role = role /\ asking'.backend = backend
      BY <2>1
    <2>4. AnsweredFrom'
      BY <2>1, <2>2, <2>3 DEF AnsweredFrom
    <2> QED BY <2>1, <2>4 DEF SchemaInv
  <1>3. ASSUME UNCHANGED schemaVars PROVE SchemaInv'
    BY <1>3 DEF SchemaInv, AnsweredFrom, schemaVars
  <1> QED BY <1>1, <1>2, <1>3 DEF SchemaNext

LEMMA PairIs == ASSUME NEW a, NEW b, NEW p, p = <<a, b>> PROVE p[1] = a /\ p[2] = b
  OBVIOUS

\* Of a restricted caller that sees any table: what it is answered from.
OwnSchema(v) ==
    /\ IsView(site, asking.role, serving[2], v)
    /\ Builds(v, asking.role) /\ TypesApart(v, asking.role)
    /\ serving[1] = asking.role /\ asking.role # WholeSchema
    /\ serving[2] => asking.backend

LEMMA OwnSchemaIs ==
    ASSUME SchemaInv, Restricted, NEW t \in DOMAIN View(site, serving).tables
    PROVE  OwnSchema(View(site, serving))
  <1> DEFINE v == View(site, serving)
  <1>1. Ordering(site) /\ Nobody \notin DOMAIN site.doc
    BY SitesAssumption DEF SchemaInv, Ordering
  <1>2. serving[1] # WholeSchema /\ v = CacheForRole(site, serving[1], serving[2])
    <2>1. /\ asking.role \notin {WholeSchema, AdminRole}
          /\ serving = <<Nobody, FALSE>> \/ serving[1] = asking.role
      BY DEF SchemaInv, AnsweredFrom, Restricted
    <2>2. Nobody # WholeSchema
      BY DEF Nobody, WholeSchema
    <2>3. serving[1] # WholeSchema
      <3>1. CASE serving = <<Nobody, FALSE>>
        BY <2>2, <3>1, PairIs
      <3> QED BY <2>1, <3>1
    <2> QED BY <2>3 DEF View
  <1> HIDE DEF v
  <1>3. IsView(site, serving[1], serving[2], v)
    BY <1>1, <1>2, ViewIs
  <1>4. serving[1] # Nobody
    <2>1. t \in DOMAIN v.tables
      BY DEF v
    <2> QED BY <1>1, <1>3, <2>1, NothingSeen
  <1>5. serving \in built /\ serving[1] = asking.role /\ (serving[2] => asking.backend)
    <2>1. \/ serving = <<Nobody, FALSE>>
          \/ serving \in built /\ serving[1] = asking.role /\ (serving[2] => asking.backend)
      BY DEF SchemaInv, AnsweredFrom, Restricted
    <2>2. serving # <<Nobody, FALSE>>
      <3>1. ASSUME serving = <<Nobody, FALSE>> PROVE serving[1] = Nobody
        BY <3>1, PairIs
      <3> QED BY <1>4, <3>1
    <2> QED BY <2>1, <2>2
  <1>6. serving \in Schemas(site) /\ Builds(v, serving[1])
    BY <1>5 DEF SchemaInv, v
  <1>7. serving[1] \in Roles(site)
    <2>1. serving \in {<<WholeSchema, FALSE>>} \cup ((Roles(site) \cup {Nobody}) \X BOOLEAN)
      BY <1>6 DEF Schemas
    <2>2. serving # <<WholeSchema, FALSE>>
      <3>1. ASSUME serving = <<WholeSchema, FALSE>> PROVE serving[1] = WholeSchema
        BY <3>1, PairIs
      <3> QED BY <1>2, <3>1
    <2>3. serving \in (Roles(site) \cup {Nobody}) \X BOOLEAN
      BY <2>1, <2>2
    <2> QED BY <1>4, <2>3
  <1>8. TypesApart(v, serving[1])
    BY <1>6, <1>7, SitesAssumption DEF SchemaInv, v
  <1> QED BY <1>2, <1>3, <1>5, <1>6, <1>8 DEF OwnSchema, v

LEMMA ReadsInv == SchemaInv => ReadsOnlyGranted
  <1> DEFINE v == View(site, serving)
  <1> SUFFICES ASSUME SchemaInv, Restricted, NEW t \in RowTables(v, serving[1])
               PROVE  /\ Granted(asking.role, t) # <<>> /\ Granted(asking.role, t)[1].select # <<>>
                      /\ \A f \in ReadFields(v, serving[1], t) : FieldGranted(site, asking.role, t, f)
    BY DEF ReadsOnlyGranted, FieldGranted, Granted
  <1>1. t \in DOMAIN v.tables
    BY DEF RowTables, Closure
  <1>2. OwnSchema(v)
    BY <1>1, OwnSchemaIs
  <1> HIDE DEF v
  <1>3. HasRows(v, serving[1], t)
    BY <1>2, RowsMet DEF OwnSchema, IsView
  <1>4. FieldsApart(site.tables[t])
    BY <1>1, <1>2, SitesAssumption DEF SchemaInv, OwnSchema, IsView
  <1>5. \A f \in ReadFields(v, serving[1], t) : FieldGranted(site, asking.role, t, f)
    BY <1>1, <1>2, <1>4, ReadFieldsGranted DEF OwnSchema
  <1>6. Grant(site, asking.role, t) # <<>>
    BY <1>1, <1>2 DEF OwnSchema, IsView
  <1>7. Grant(site, asking.role, t)[1].select # <<>>
    BY <1>3, <1>5 DEF HasRows, FieldGranted
  <1> QED BY <1>5, <1>6, <1>7 DEF Granted

LEMMA WritesInv == SchemaInv => WritesOnlyGranted
  <1> DEFINE v == View(site, serving)
             role == asking.role
             columns(t, verb) == {Source(site.tables[t], f.name) : f \in WriteFields(v, serving[1], t, verb)}
  <1> SUFFICES ASSUME SchemaInv, Restricted
               PROVE  /\ \A t \in InsertTables(v, serving[1]) :
                            /\ Granted(role, t) # <<>> /\ Granted(role, t)[1].insert # <<>>
                            /\ Granted(role, t)[1].insert[1].backendOnly => asking.backend
                            /\ columns(t, "insert") \subseteq Granted(role, t)[1].insert[1].columns
                      /\ \A r \in {x \in MutationFields(v, serving[1]) : x.kind \in {"update", "update_many", "update_by_pk"}} :
                            columns(r.table, "update") \subseteq Granted(role, r.table)[1].update[1].columns
                      /\ \A r \in {x \in MutationFields(v, serving[1]) : x.kind = "delete"} : Granted(role, r.table)[1].delete
    BY DEF WritesOnlyGranted
  <1>1. ASSUME NEW t \in DOMAIN v.tables PROVE OwnSchema(v)
    BY OwnSchemaIs
  <1> HIDE DEF v
  <1>2. ASSUME NEW t \in DOMAIN v.tables
        PROVE  /\ Grant(site, role, t) # <<>> /\ serving[1] = role /\ role # WholeSchema
               /\ v.tables[t] = Reduced(site, t, Grant(site, role, t)[1], serving[2])
               /\ IsView(site, role, serving[2], v) /\ (serving[2] => asking.backend)
    BY <1>1 DEF OwnSchema, IsView
  <1>3. ASSUME NEW t \in InsertTables(v, serving[1])
        PROVE  /\ Granted(role, t) # <<>> /\ Granted(role, t)[1].insert # <<>>
               /\ Granted(role, t)[1].insert[1].backendOnly => asking.backend
               /\ columns(t, "insert") \subseteq Granted(role, t)[1].insert[1].columns
    <2>1. t \in DOMAIN v.tables
      BY DEF InsertTables, Closure
    <2>2. v.tables[t].ins
      BY <1>2, <2>1, InsertsMet DEF IsView
    <2>3. Grant(site, role, t)[1].insert # <<>> /\ (serving[2] \/ ~Grant(site, role, t)[1].insert[1].backendOnly)
      BY <1>2, <2>1, <2>2, ReducedIs
    <2>4. columns(t, "insert") \subseteq Grant(site, role, t)[1].insert[1].columns
      BY <1>2, <2>1, <2>3, WriteFieldsGranted
    <2> HIDE DEF columns
    <2> QED BY <1>2, <2>1, <2>3, <2>4 DEF Granted
  <1>4. ASSUME NEW r \in MutationFields(v, serving[1]), r.kind \in {"update", "update_many", "update_by_pk"}
        PROVE  columns(r.table, "update") \subseteq Granted(role, r.table)[1].update[1].columns
    <2>1. r.table \in DOMAIN v.tables /\ v.tables[r.table].upd
      BY <1>4, RootFacts DEF RootFact
    <2>2. Grant(site, role, r.table)[1].update # <<>>
      BY <1>2, <2>1, ReducedIs
    <2> QED BY <1>2, <2>1, <2>2, WriteFieldsGranted DEF Granted
  <1>5. ASSUME NEW r \in MutationFields(v, serving[1]), r.kind = "delete"
        PROVE  Granted(role, r.table)[1].delete
    <2>1. r.table \in DOMAIN v.tables /\ v.tables[r.table].del
      BY <1>5, RootFacts DEF RootFact
    <2> QED BY <1>2, <2>1, ReducedIs DEF Granted
  <1> HIDE DEF columns
  <1> QED BY <1>3, <1>4, <1>5

(***************************************************************************)
(* cache_for_role, build_schema, build_dynamic_schema, schema_for: for any *)
(* catalog, metadata and permission document, whatever a role can reach    *)
(* from a root -- rows, along any chain of relationships, and columns to   *)
(* write, nested at any depth -- is within what the document grants it.    *)
(***************************************************************************)
THEOREM SchemaWithinGrant == SchemaSpec => []NothingBeyondTheGrant
  <1>1. SchemaInit => SchemaInv
    BY DEF SchemaInit, SchemaInv, AnsweredFrom
  <1>2. SchemaInv => NothingBeyondTheGrant
    BY ReadsInv, WritesInv DEF NothingBeyondTheGrant
  <1> QED BY <1>1, <1>2, SchemaNextInv, PTL DEF SchemaSpec
=============================================================================
