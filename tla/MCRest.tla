------------------------------- MODULE MCRest -------------------------------
(* A table of three keys, a second without a key column (its trigger sets   *)
(* the response's status), three functions,                                 *)
(* and the requests that differ in what the pipeline branches on.           *)
EXTENDS RestPipeline

MCKeys == 1..3
MCEmbedMatch == {1, 3}
MCTables == [items |-> [pk |-> TRUE, plain |-> TRUE, guc |-> "ok"],
             log   |-> [pk |-> FALSE, plain |-> FALSE, guc |-> "status"]]
MCRoutines ==
  [touch |-> [writes |-> {2}, rows |-> FALSE, void |-> TRUE, media |-> FALSE, guc |-> "ok"],
   list  |-> [writes |-> {}, rows |-> TRUE, void |-> FALSE, media |-> FALSE, guc |-> "status"],
   pic   |-> [writes |-> {1}, rows |-> FALSE, void |-> FALSE, media |-> TRUE, guc |-> "badstatus"]]
MCContents == {[k \in MCKeys |-> "old"], [k \in MCKeys |-> IF k = 2 THEN "absent" ELSE "old"]}

Cfg(iso, pre, max) == [anon |-> TRUE, aggregates |-> FALSE, maxRows |-> max, isolation |-> iso, preRequest |-> pre]
MCConfigs == {Cfg("rc", "none", None), Cfg("rr", "ok", 2), Cfg("rc", "badheader", None), Cfg("rr", "status", None)}
             \cup {[Cfg("rc", "refuses", None) EXCEPT !.anon = FALSE]}

NoBody == [kind |-> "none", ids |-> <<>>, cols |-> {}]
Rows(ids) == [kind |-> IF Len(ids) = 1 THEN "object" ELSE "array", ids |-> ids, cols |-> {"id", "v"}]
P0 == [ret |-> "minimal", count |-> "none", res |-> "none", max |-> None, strict |-> FALSE, unknown |-> FALSE]
Get == [method |-> "GET", path |-> <<"items">>, profile |-> "default", token |-> "good", body |-> NoBody,
        prefer |-> P0, accept |-> <<"json">>, filters |-> <<>>, limit |-> None, offset |-> None,
        range |-> <<>>, embed |-> "no", aggregate |-> FALSE]
Id(keys) == [field |-> "id", op |-> IF Cardinality(keys) = 1 THEN "eq" ELSE "in", keys |-> keys, tree |-> FALSE]
Clients(op) == [field |-> "clients", op |-> op, keys |-> MCKeys, tree |-> FALSE]

Reads ==
  {[Get EXCEPT !.filters = f, !.limit = w[1], !.offset = w[2], !.range = w[3], !.embed = e, !.prefer.count = c] :
     f \in {<<>>, <<Id({1, 2})>>}, e \in {"no", "left", "inner"}, c \in {"none", "exact", "estimated"},
     w \in {<<None, None, <<>>>>, <<1, None, <<>>>>, <<2, 1, <<>>>>, <<None, 4, <<>>>>, <<None, None, <<1, 1>>>>}}
  \cup {[Get EXCEPT !.embed = "left", !.filters = <<Clients(op)>>, !.accept = <<m>>] :
          op \in {"isnull", "notnull", "eq"}, m \in {"json", "object", "nullable", "custom"}}
  \cup {[Get EXCEPT !.embed = "left", !.filters = <<Clients("isnull")>>, !.offset = 1, !.prefer.count = "exact"],
        [Get EXCEPT !.limit = 1, !.offset = -2, !.prefer.count = "exact"]}
  \cup {[Get EXCEPT !.path = <<"rpc", f>>, !.prefer.count = c, !.accept = <<m>>, !.filters = fs] :
          f \in {"touch", "list", "pic"}, c \in {"none", "exact"}, m \in {"json", "png", "custom"},
          fs \in {<<>>, <<Id({1})>>}}

Writes ==
  LET prefers == {[P0 EXCEPT !.ret = r, !.max = n[1], !.strict = n[2]] :
                   r \in {"minimal", "full"}, n \in {<<None, FALSE>>, <<1, TRUE>>, <<1, FALSE>>}}
  IN {[Get EXCEPT !.method = m, !.prefer = p, !.filters = f, !.accept = <<a>>, !.embed = e,
                  !.body = IF m = "PATCH" THEN [Rows(<<1>>) EXCEPT !.cols = {"v"}] ELSE NoBody] :
        m \in {"PATCH", "DELETE"}, p \in prefers, a \in {"json", "object"}, e \in {"no", "inner"},
        f \in {<<[Id({1}) EXCEPT !.tree = TRUE]>>, <<Id({1, 2}), Clients("isnull")>>}}
     \cup {[Get EXCEPT !.method = "DELETE", !.prefer = p, !.filters = <<Id({1, 2})>>, !.accept = <<a>>] :
        p \in prefers, a \in {"json", "object"}}
     \cup {[Get EXCEPT !.method = "POST", !.body = b, !.prefer = [p EXCEPT !.res = res], !.path = <<t>>] :
        p \in {q \in prefers : q.max = None \/ (q.strict /\ q.ret = "full")}, res \in {"none", "ignore", "merge"}, t \in {"items", "log"},
        b \in {Rows(<<2>>), Rows(<<2, 3>>), Rows(<<2, 2>>), [Rows(<<1>>) EXCEPT !.cols = {}]}}
     \cup {[Get EXCEPT !.method = "PUT", !.body = b, !.prefer = p, !.filters = f] :
        p \in {q \in prefers : q.max = None \/ q.strict}, f \in {<<Id({2})>>, <<Id({1, 2})>>},
        b \in {Rows(<<2>>), Rows(<<3>>), Rows(<<1, 2>>), [Rows(<<2>>) EXCEPT !.cols = {"v"}]}}
     \cup {[Get EXCEPT !.method = "POST", !.path = <<"rpc", f>>, !.prefer.count = c, !.accept = <<m>>] :
        f \in {"touch", "list", "pic"}, c \in {"none", "exact"}, m \in {"json", "png", "object"}}
     \cup {[Get EXCEPT !.method = "PATCH", !.prefer = [P0 EXCEPT !.ret = "full"], !.filters = <<Id({1, 2})>>,
                       !.body = [Rows(<<1>>) EXCEPT !.cols = {"v"}], !.limit = 1],
           [Get EXCEPT !.method = "DELETE", !.prefer = [P0 EXCEPT !.ret = "full"], !.filters = <<Id({1, 2})>>,
                       !.accept = <<"custom">>],
           [Get EXCEPT !.method = "DELETE", !.prefer = [P0 EXCEPT !.max = -2, !.strict = TRUE], !.filters = <<Id({1})>>]}

Faulty ==
  {[Get EXCEPT !.path = p, !.method = m] :
     p \in {<<>>, <<"items">>, <<"none">>, <<"rpc", "none">>, <<"rpc", "list">>, <<"a", "b">>},
     m \in {"GET", "HEAD", "POST", "PUT", "PATCH", "DELETE", "OPTIONS", "TRACE"}}
  \cup {[Get EXCEPT !.token = "bad"], [Get EXCEPT !.token = "none"], [Get EXCEPT !.profile = "hidden"],
        [Get EXCEPT !.limit = -2], [Get EXCEPT !.range = <<2, 1>>], [Get EXCEPT !.aggregate = TRUE],
        [Get EXCEPT !.embed = "unknown"], [Get EXCEPT !.accept = <<"plan">>], [Get EXCEPT !.accept = <<"geo">>],
        [Get EXCEPT !.accept = <<"other">>], [Get EXCEPT !.accept = <<"plan", "csv">>], [Get EXCEPT !.filters = <<Clients("isnull")>>],
        [Get EXCEPT !.prefer.strict = TRUE, !.prefer.unknown = TRUE]}
  \cup {[Get EXCEPT !.method = "POST", !.body.kind = k] : k \in {"toolong", "malformed", "ragged", "none"}}
  \cup {[Get EXCEPT !.method = "POST", !.body = [Rows(<<2>>) EXCEPT !.cols = {"bogus"}]],
        [Get EXCEPT !.method = "POST", !.body = Rows(<<2>>), !.token = "none"],
        [Get EXCEPT !.method = "PUT", !.body = Rows(<<2>>), !.filters = <<Id({2})>>, !.limit = 1],
        [Get EXCEPT !.method = "PUT", !.body = Rows(<<2>>), !.filters = <<[Id({2}) EXCEPT !.op = "isnull"]>>],
        [Get EXCEPT !.method = "PUT", !.body = Rows(<<2>>), !.path = <<"log">>, !.filters = <<Id({2})>>]}

MCRequests == Reads \cup Writes \cup Faulty
=============================================================================
