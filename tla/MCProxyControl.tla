----------------------------- MODULE MCProxyControl -----------------------------
(* The proxy's control plane, one part at a time: the admin API, the        *)
(* certificate store, and two concurrent calls of the tenants' API.  A      *)
(* behaviour plays one scene; the other parts stay as they started.         *)
EXTENDS ProxyAdmin, CertStore, TenantApi

VARIABLE scene

MCNames == {<<"*", "a", "com">>, <<"x", "a", "com">>}
MCRenewed == {<<"x", "a", "com">>}
MCHellos == {<<>>, <<"x", "a", "com">>, <<"y", "a", "com">>, <<"z", "y", "a", "com">>, <<"a", "com">>}

(* A holds the domain x and B the domain y, whose zone A controls. *)
Jwt(t) == [kind |-> "jwt", secret |-> TRUE, valid |-> TRUE, tenant |-> t, scopes |-> {"*"}, key |-> 0]
KeyCred(k) == [kind |-> "key", secret |-> TRUE, valid |-> TRUE, tenant |-> "", scopes |-> {}, key |-> k]
Call0(op, cred) == [op |-> op, cred |-> cred, d |-> 1, u |-> 1, r |-> 1, name |-> "x", method |-> "dns", addresses |-> {"b1"}]
MCStored ==
  [domains |-> <<[NoDomain EXCEPT !.tenant = "A", !.name = "x"], [NoDomain EXCEPT !.tenant = "B", !.name = "y", !.method = "http"], NoDomain, NoDomain, NoDomain, NoDomain>>,
   routes |-> <<[tenant |-> "A", domain |-> 1, upstream |-> 1, path |-> "/"], NoRoute, NoRoute, NoRoute, NoRoute, NoRoute>>,
   upstreams |-> <<[tenant |-> "A", name |-> "u", backends |-> {"b1"}], [tenant |-> "B", name |-> "u", backends |-> {"b2"}], NoUpstream, NoUpstream, NoUpstream, NoUpstream>>,
   keys |-> <<[NoKey EXCEPT !.tenant = "A", !.scopes = {"domains"}], [NoKey EXCEPT !.tenant = "B", !.scopes = {"*"}, !.expired = TRUE],
              [NoKey EXCEPT !.tenant = "A", !.scopes = {"*"}, !.enabled = FALSE], NoKey, NoKey, NoKey>>]
MCNewId == [c \in {1, 2, 3} |-> 3 + c]
MCMaxDomains == [A |-> 1, B |-> 2]
MCController == [x |-> "A", y |-> "A", z |-> "B"]
AB == {Jwt("A"), Jwt("B")}
MCCalls ==
  {Call0(op, j) : op \in {"delete_domain", "verify_domain", "enable_domain", "disable_domain", "delete_route", "delete_upstream", "add_backend", "remove_backend", "revoke_api_key"}, j \in AB}
  \cup {[Call0("create_domain", j) EXCEPT !.name = n, !.method = m] : j \in AB, n \in {"x", "z"}, m \in {"dns", "http"}}
  \cup {[Call0("update_domain", Jwt("A")) EXCEPT !.method = "http"], [Call0("verify_domain", Jwt("B")) EXCEPT !.d = 2],
        [Call0("create_route", Jwt("A")) EXCEPT !.name = "/a"], [Call0("create_route", Jwt("A")) EXCEPT !.u = 2, !.name = "/a"],
        [Call0("update_route", Jwt("A")) EXCEPT !.u = 2], [Call0("update_route", Jwt("A")) EXCEPT !.u = 0],
        [Call0("update_route", Jwt("B")) EXCEPT !.u = 2],
        [Call0("create_upstream", Jwt("A")) EXCEPT !.name = "v", !.addresses = {"b1", "b2"}],
        [Call0("update_upstream", Jwt("A")) EXCEPT !.name = "v"],
        Call0("create_api_key", Jwt("A")), Call0("list", Jwt("A")),
        Call0("delete_domain", KeyCred(1)), Call0("delete_upstream", KeyCred(1)), Call0("list", KeyCred(2)), Call0("list", KeyCred(3)), Call0("list", KeyCred(4)),
        Call0("list", [Jwt("A") EXCEPT !.secret = FALSE]), Call0("list", [Jwt("A") EXCEPT !.valid = FALSE]), Call0("list", [Jwt("A") EXCEPT !.kind = "basic"])}

(* The two callers are alike: which makes which call does not matter. *)
CallPairs == {{a, b} : a, b \in MCCalls}

NoCall3 == Call0("none", Jwt("A"))
MCCallSet == MCCalls \cup {NoCall3}
(* The domain being verified goes, and another tenant registers its name. *)
Race == <<Call0("verify_domain", Jwt("A")), Call0("delete_domain", Jwt("A")), Call0("create_domain", Jwt("B"))>>

MCInit ==
  /\ scene \in {"admin", "cert", "tenant"}
  /\ AdminInit /\ (scene # "admin" => ~persist /\ running = table)
  \* Two renewals, the first of which does not parse; or one, and a loss.
  /\ IF scene = "cert" THEN CertStart(1, 1, MaxLosses) \/ CertStart(1, 2, 0) ELSE CertStart(0, 0, 0)
  /\ TenantInit
  /\ \E p \in IF scene = "tenant" THEN CallPairs ELSE {{Call0("list", Jwt("A"))}} :
       LET a == CHOOSE call1 \in p : TRUE
           b == IF p = {a} THEN a ELSE CHOOSE call2 \in p : call2 # a
       IN Calls(<<a, b, NoCall3>>) \/ (scene = "tenant" /\ Calls(Race))

MCNext ==
  /\ UNCHANGED scene
  /\ \/ scene = "admin" /\ AdminNext /\ UNCHANGED <<certVars, tenantVars>>
     \/ scene = "cert" /\ CertNext /\ UNCHANGED <<adminVars, tenantVars>>
     \/ scene = "tenant" /\ TenantNext /\ UNCHANGED <<adminVars, certVars>>

MCSpec ==
  /\ MCInit /\ [][MCNext]_<<scene, adminVars, certVars, tenantVars>>
  /\ WF_certVars(scene = "cert" /\ Refresh)
  /\ WF_certVars(scene = "cert" /\ GetSteps)
  /\ WF_certVars(scene = "cert" /\ SaveSteps)
=============================================================================
