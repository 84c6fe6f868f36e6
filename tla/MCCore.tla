------------------------------- MODULE MCCore -------------------------------
(***************************************************************************)
(* Small instances of the schema cache and its embeds, the SQL builders,   *)
(* the query-string grammar and the planner.  A behaviour is one scene:    *)
(* the variables of the others stand at one of their initial values.       *)
(***************************************************************************)
EXTENDS Embed, SqlBuild, QueryParse, Planning

VARIABLE scene

(***************************************************************************)
(* Catalogs                                                                *)
(***************************************************************************)
T(n) == <<"api", n>>
H(n) == <<"priv", n>>
K(name, table, far, cols, unique) == [name |-> name, table |-> table, far |-> far, cols |-> cols, unique |-> unique]
V(view, base, column, as) == [view |-> view, base |-> base, column |-> column, as |-> as]

Features == {"hidden", "standin", "junctionView", "twice", "tree", "tree2", "tree3", "fn", "o2o", "second", "composite"}
TableColumns(F) == [t \in {T("users"), T("tasks"), T("ut"), H("ut"), T("utv"), T("usersv"), T("tree"), T("detail"), T("files"), T("touched")} |->
  CASE t = T("users") -> {"id", "mentor"} [] t = T("tasks") -> {"id"} [] t \in {T("ut"), H("ut")} -> {"user_id", "task_id"}
    [] t = T("utv") -> {"uid", "uid2", "tid"} [] t = T("usersv") -> {"id", "id2", "mentor"} [] t = T("tree") -> {"id", "parent", "other"}
    [] t = T("detail") -> {"id", "user_id", "author"} [] t = T("files") -> {"p", "f"} [] t = T("touched") -> {"p", "f", "task"}]
Junction(F) == IF "hidden" \in F THEN H("ut") ELSE T("ut")
Catalog(F) ==
  LET J == Junction(F) IN
  [exposed |-> {T("users"), T("tasks")} \cup (IF "hidden" \in F THEN {} ELSE {T("ut")})
               \cup (IF F \cap {"standin", "junctionView"} # {} THEN {T("utv")} ELSE {})
               \cup (IF "twice" \in F THEN {T("usersv")} ELSE {}) \cup (IF "tree" \in F THEN {T("tree")} ELSE {})
               \cup (IF "o2o" \in F THEN {T("detail")} ELSE {})
               \cup (IF "composite" \in F THEN {T("files"), T("touched")} ELSE {}),
   columns |-> TableColumns(F),
   fks |-> {K("ut_user", J, T("users"), << <<"user_id", "id">> >>, FALSE), K("ut_task", J, T("tasks"), << <<"task_id", "id">> >>, FALSE)}
           \cup (IF "tree" \in F THEN {K("tree_parent", T("tree"), T("tree"), << <<"parent", "id">> >>, FALSE)} ELSE {})
           \cup (IF "tree2" \in F THEN {K("tree_other", T("tree"), T("tree"), << <<"other", "id">> >>, TRUE)} ELSE {})
           \cup (IF "tree3" \in F THEN {K("tree_twin", T("tree"), T("tree"), << <<"other", "id">> >>, FALSE)} ELSE {})
           \cup (IF "o2o" \in F THEN {K("detail_user", T("detail"), T("users"), << <<"user_id", "id">> >>, TRUE)} ELSE {})
           \cup (IF "second" \in F THEN {K("detail_author", T("detail"), T("users"), << <<"author", "id">> >>, FALSE)} ELSE {})
           \cup (IF "composite" \in F THEN {K("touched_file", T("touched"), T("files"), << <<"p", "p">>, <<"f", "f">> >>, FALSE),
                                            K("touched_task", T("touched"), T("tasks"), << <<"task", "id">> >>, FALSE)} ELSE {}),
   functions |-> IF "fn" \in F THEN {[name |-> "tasks", table |-> T("users"), far |-> T("tasks"), toOne |-> FALSE]} ELSE {},
   viewColumns |-> (IF F \cap {"standin", "junctionView"} # {} THEN <<V(T("utv"), J, "user_id", "uid"), V(T("utv"), J, "task_id", "tid")>> ELSE <<>>)
                   \o (IF "junctionView" \in F THEN <<V(T("utv"), J, "user_id", "uid2")>> ELSE <<>>)
                   \o (IF "twice" \in F THEN <<V(T("usersv"), T("users"), "id", "id"), V(T("usersv"), T("users"), "id", "id2"),
                                               V(T("usersv"), T("users"), "mentor", "mentor")>> ELSE <<>>),
   keys |-> [t \in {J, T("users"), T("tasks"), T("touched")} |->
               CASE t = J -> {"user_id", "task_id"} [] t = T("touched") -> {"p", "f", "task"} [] OTHER -> {"id"}]]
MCCatalogs ==
  {Catalog(F) : F \in {G \in SUBSET Features : Cardinality(G) <= 2}
                     \cup {{"hidden", "standin", "twice"}, {"hidden", "junctionView", "fn"}, {"o2o", "second", "twice"}}}

\* The rows of the tables a catalog's keys join, under those keys.
UT(pairs) == {[user_id |-> p[1], task_id |-> p[2]] : p \in pairs}
Tree == {{[id |-> 1, parent |-> a, other |-> 2], [id |-> 2, parent |-> b, other |-> c]} : a \in 0..2, b \in 0..2, c \in 0..1}
Details == {{[id |-> 1, user_id |-> a, author |-> c], [id |-> 2, user_id |-> b, author |-> c]} :
              <<a, b, c>> \in {x \in (0..2) \X (0..2) \X (0..2) : x[1] = 0 \/ x[1] # x[2]}}
Files == {[p |-> 1, f |-> 1], [p |-> 1, f |-> 2]}
Touched(pairs) == {[p |-> 1, f |-> p[1], task |-> p[2]] : p \in pairs}
Links == {{}, {<<1, 2>>}, {<<1, 1>>, <<1, 2>>}, {<<1, 1>>, <<2, 1>>, <<2, 2>>}}
MCContents(cat) ==
  LET has(t) == t \in cat.exposed
  IN {(T("users") :> {[id |-> 1, mentor |-> 2], [id |-> 2, mentor |-> 1]}) @@ (T("tasks") :> {[id |-> 1], [id |-> 2]})
        @@ (IF has(T("ut")) THEN T("ut") :> UT(u) ELSE H("ut") :> UT(u))
        @@ (T("tree") :> tree) @@ (T("detail") :> d) @@ (T("files") :> Files) @@ (T("touched") :> Touched(w)) :
      u \in Links, tree \in IF has(T("tree")) THEN Tree ELSE {{}},
      d \in IF has(T("detail")) THEN Details ELSE {{}}, w \in IF has(T("files")) THEN Links ELSE {{}}}

(***************************************************************************)
(* Statements                                                              *)
(***************************************************************************)
F(name, op, vals) == [col |-> <<name, 0>>, neg |-> FALSE, op |-> op, vals |-> vals, lang |-> ""]
Not(f) == [f EXCEPT !.neg = TRUE]
And(kids) == [logic |-> "AND", neg |-> FALSE, kids |-> kids]
Or(kids) == [logic |-> "OR", neg |-> FALSE, kids |-> kids]
A == F("a", "simple", <<"va">>)
B == F("b", "in", <<"vb1", "vb2">>)
C == [F("c", "fts", <<"vc">>) EXCEPT !.lang = "french"]
D == [F("d", "quant", <<"vd">>) EXCEPT !.col = <<"d", 1>>]
E == F("e", "is", <<>>)
G == F("g", "in", <<>>)
Trees == {A, Not(B), C, D, Or(<<A, B>>), Not(And(<<A, Not(C)>>)), Or(<<And(<<A, B>>), Not(Or(<<C, D>>))>>), And(<<Or(<<A, E>>), B>>), Or(<<G>>)}
Wheres == {<<>>} \cup {<<t>> : t \in Trees} \cup {<<t, u>> : t \in Trees, u \in {F("h", "simple", <<"vh">>), Or(<<F("h", "distinct", <<"vh">>), D>>)}}
Fields == {<<>>, <<[col |-> <<"a", 0>>, agg |-> "", as |-> "x"]>>, <<[col |-> <<"", 0>>, agg |-> "count", as |-> ""], [col |-> <<"b", 0>>, agg |-> "", as |-> ""]>>}
Cols == <<<<"a", 0>>, <<"b", 0>>>>
Plans ==
  {[kind |-> "read", fields |-> f, where |-> w, order |-> o, range |-> r] : f \in Fields, w \in Wheres, o \in {<<>>, <<<<"a", 0>>>>}, r \in BOOLEAN}
  \cup {[kind |-> "insert", cols |-> c, array |-> a, body |-> "vbody", where |-> w, conflict |-> k, returning |-> Cols, range |-> FALSE] :
          c \in {<<>>, Cols}, a \in BOOLEAN, k \in BOOLEAN, w \in {<<>>, <<A>>, <<A, C>>}}
  \cup {[kind |-> "update", cols |-> c, body |-> "vbody", where |-> w, returning |-> <<>>, range |-> FALSE] : c \in {<<>>, Cols}, w \in Wheres}
  \cup {[kind |-> "delete", where |-> w, returning |-> Cols, range |-> FALSE] : w \in Wheres}
  \cup {[kind |-> "call", fields |-> <<>>, body |-> b, args |-> a, where |-> w, order |-> <<>>, range |-> TRUE] :
          b \in {"", "vbody"}, a \in {<<>>, <<<<"x", "vx">>>>, <<<<"x", "vx">>, <<"y", "vy">>>>}, w \in {<<>>, <<A>>, <<Or(<<A, B>>), D>>}}
  \cup {[kind |-> "values", rows |-> r, where |-> <<>>, range |-> FALSE] : r \in {<<<<"v1">>>>, <<<<"v1", "v2">>, <<"v3", "v4">>>>}}
  \cup {[kind |-> "set", sets |-> <<<<<<"a", 0>>, "v1">>, <<<<"b", 0>>, "v2">>>>, where |-> w, range |-> FALSE] : w \in Wheres}
EmbedItem(rel, via, inner, cols, items) == [rel |-> rel, as |-> "", via |-> via, inner |-> inner, cols |-> cols, items |-> items]
Leafs == {<<>>} \cup {<<EmbedItem("tasks", v, i, c, <<>>)>> : v \in {"key", "junction"}, i \in BOOLEAN, c \in {<<>>, <<"id">>}}
Selects == {<<[EmbedItem("clients", v, i, c, l) EXCEPT !.as = a]>> : a \in {"", "cl"}, v \in {"key", "function"}, i \in BOOLEAN, c \in {<<>>, <<"id">>}, l \in Leafs}
       \cup {<<EmbedItem("clients", "key", TRUE, <<"id">>, l), EmbedItem("tags", "junction", i, <<"id">>, <<>>)>> : i \in BOOLEAN, l \in Leafs}
FiltersList == {<<>>, <<<<<<"clients">>, F("p", "simple", <<"vp">>)>>>>,
  <<<<<<"clients", "tasks">>, F("p", "simple", <<"vp">>)>>, <<<<"clients">>, Or(<<F("q", "simple", <<"vq">>), F("r", "simple", <<"vr">>)>>)>>, <<<<"tags">>, F("s", "simple", <<"vs">>)>>>>,
  <<<<<<"clients">>, F("p", "simple", <<"vp">>)>>, <<<<"clients">>, F("q", "simple", <<"vq">>)>>>>}
ReadOf(w) == [kind |-> "read", fields |-> <<>>, where |-> w, order |-> <<>>, range |-> TRUE]
MCJobs == {[plan |-> p, select |-> <<>>, filters |-> <<>>, isNull |-> "", orderBy |-> 0] : p \in Plans}
  \cup {[plan |-> ReadOf(w), select |-> s, filters |-> f, isNull |-> n, orderBy |-> o] : w \in {<<A, B>>}, s \in Selects, f \in FiltersList, n \in {"", "clients"}, o \in 0..1}

(***************************************************************************)
(* Texts                                                                   *)
(***************************************************************************)
PWords == {"a", "b", "inner", "left", "count", "sum", "asc", "select", "order", "and", "or", "not", "eq", "in", "is", "null"}
Nasty == {"a", ",", ".", "(", ")", "\"", "\\", " "}
Raw == {<<x>> : x \in Nasty \ {" "}} \cup {<<x, "a">> : x \in Nasty} \cup {<<"\\", "\"">>, <<"\"", ",">>, <<"a", "\\">>, <<"a", " ">>, <<")", ",">>}
PNames == Raw \cup {<<"a", "-", "b">>, <<"(", ",", ")">>, <<")", "(">>}
Flat(names) == {[Item("field", n, <<>>) EXCEPT !.alias = a, !.cast = c, !.agg = g] : n \in names, a \in {<<>>, <<"b">>, <<"b", ",">>}, c \in {<<>>, <<"a">>}, g \in {"", "sum"}}
Paths == {<<>>, <<<<"->", <<"a">>>>, <<"->>", <<"b", ".">>>>>>}
MFields == {<<i>> : i \in Flat(Raw)} \cup {<<[Item("field", <<"a">>, <<>>) EXCEPT !.path = p, !.cast = <<"b">>], Item("field", <<"*">>, <<>>)>> : p \in Paths}
           \cup {<<[Item("field", <<>>, <<>>) EXCEPT !.agg = "count", !.aggCast = c, !.alias = a]>> : a \in {<<>>, <<"a">>}, c \in {<<>>, <<"b">>}}
Rels(k, inner) == {[Item(k, n, i) EXCEPT !.hint = h, !.join = j] : n \in {<<"b">>, <<"b", ",">>, <<"(", "a">>}, h \in {<<>>, <<"a">>}, j \in {"", "inner", "left"}, i \in inner}
MEmbeds == {<<r, Item("field", <<"b">>, <<>>)>> : r \in Rels("rel", {<<>>} \cup {<<Item("field", n, <<>>)>> : n \in PNames})
              \cup Rels("spread", {<<r, Item("field", <<"a">>, <<>>)>> : r \in Rels("rel", {<<>>, <<Item("field", <<",">>, <<>>)>>, <<Item("field", <<"(", ",", ")">>, <<>>)>>})})}
MOrders == {<<[rel |-> r, name |-> <<"a">>, path |-> p, dir |-> d, nulls |-> n], [rel |-> <<>>, name |-> <<"b">>, path |-> <<>>, dir |-> <<>>, nulls |-> <<>>]>> :
             r \in {<<>>, <<"b">>}, p \in {<<>>, <<<<"->>", <<"b">>>>>>}, d \in {<<>>} \cup Directions, n \in {<<>>} \cup NullOrders}
MOps(vals) == {Op(o, q, <<>>, <<v>>) : o \in QuantOps, q \in {"", "any"}, v \in vals} \cup {Op("neq", "", <<>>, <<v>>) : v \in vals}
             \cup {Op("in", "", <<>>, <<v, <<"b">>>>) : v \in vals} \cup {Op("is", "null", <<>>, <<>>)}
             \cup {Op("fts", "", l, <<v>>) : l \in {<<>>, <<"a">>}, v \in vals}
MFilters(names, vals) == {[path |-> p, field |-> [name |-> n, path |-> j], neg |-> neg, op |-> o] :
   p \in {<<>>, <<<<"b">>>>}, n \in names, j \in {<<>>, <<<<"->", <<"a">>>>>>}, neg \in BOOLEAN, o \in MOps(vals)}
Tree1(kids) == [logic |-> "or", neg |-> FALSE, kids |-> kids]
Leaf == [path |-> <<>>, field |-> [name |-> <<"b">>, path |-> <<>>], neg |-> FALSE, op |-> Op("eq", "", <<>>, <<<<"b">>>>)]
MLeaves == MFilters({<<"a">>}, Raw) \cup MFilters(PNames, {<<"a">>})
MTrees == {[Tree1(<<f, Leaf>>) EXCEPT !.neg = n] : n \in BOOLEAN, f \in MLeaves}
  \cup {[logic |-> "and", neg |-> FALSE, kids |-> <<Leaf, [Tree1(<<f, Leaf>>) EXCEPT !.neg = n], Tree1(<<Leaf>>)>>] : n \in BOOLEAN, f \in MLeaves}
CsvTexts == {CsvNull, <<"text">>} \cup {<<"text", x>> : x \in {"a", "NULL"}} \cup {<<"text", x, y>> : x, y \in {"a", ",", "\"", "\n", "\r"}}
MCsvs == {[kind |-> "csv", eol |-> e, value |-> << <<<<"text", "a">>, <<"text", "b">>>>, <<x, y>>, <<y, x>> >>] : e \in {<<"\n">>, <<"\r", "\n">>}, x \in CsvTexts, y \in {CsvNull, <<"text", "a">>, <<"text", "\"", ",">>}}
  \cup {[kind |-> "csv", eol |-> <<"\n">>, value |-> << <<<<"text", "a">>>>, <<CsvNull>>, <<x>>, <<CsvNull>> >>] : x \in CsvTexts}
MCMeanings == {[kind |-> "select", value |-> v] : v \in MFields} \cup {[kind |-> "select", value |-> v] : v \in MEmbeds}
 \cup {[kind |-> "order", value |-> v] : v \in MOrders} \cup {[kind |-> "filter", value |-> v] : v \in MFilters(PNames, {<<"a">>, <<",", ")">>}) \cup MFilters({<<"a">>}, Raw)}
 \cup MCsvs \cup {[kind |-> "logic", value |-> v] : v \in MTrees}
Toks == {"a", ",", "(", ")", ":", "!", "count"}
MCTexts == {<<<<"select">>, t>> : t \in UNION {[1..n -> Toks] : n \in 1..4}} \cup
           {<<<<"select">>, <<"a", "(">> \o t>> : t \in [1..3 -> Toks \ {"!"}]}

(***************************************************************************)
(* Calls and writes                                                        *)
(***************************************************************************)
Pm(n, t, q, v) == [name |-> n, type |-> t, required |-> q, variadic |-> v]
Sig(ps) == [params |-> ps]
Sigs == {Sig(<<>>), Sig(<<Pm("a", "int", TRUE, FALSE)>>), Sig(<<Pm("a", "int", TRUE, FALSE), Pm("b", "int", FALSE, FALSE)>>),
         Sig(<<Pm("a", "json", FALSE, FALSE), Pm("v", "int[]", FALSE, TRUE)>>), Sig(<<Pm("", "json", TRUE, FALSE)>>), Sig(<<Pm("", "text", TRUE, FALSE)>>)}
Obj(m) == [t |-> "obj", m |-> m]
Arr(s) == [t |-> "arr", s |-> s]
JsonBodies == {None, Obj(<<>>), Obj("a" :> "1"), Obj("a" :> "null"), Obj(("a" :> "1") @@ ("b" :> "2")), Obj(("a" :> "1") @@ ("z" :> "2")),
  Arr(<<>>), Arr(<<Obj("a" :> "1"), Obj("a" :> "2")>>), Arr(<<Obj("a" :> "1"), Obj("b" :> "2")>>), Arr(<<[t |-> "scalar"]>>), [t |-> "scalar"]}
FormBodies == {[t |-> "form", s |-> <<<<"a", "1">>, <<"a", "2">>>>], [t |-> "form", s |-> <<<<"v", "1">>, <<"v", "2">>, <<"b", "3">>>>]}
Lists == {<<x>> : x \in Sigs} \cup {<<x, y>> : x, y \in Sigs}
QS == {<<"a", "1", FALSE>>, <<"a", "2", FALSE>>, <<"a", "gt.1", TRUE>>, <<"v", "7", FALSE>>, <<"v", "8", FALSE>>, <<"z", "9", FALSE>>, <<"c.id", "3", FALSE>>}
Params == {<<>>} \cup {<<x>> : x \in QS} \cup {<<x, y>> : x, y \in QS} \cup {<<<<"v", "7", FALSE>>, x, <<"v", "8", FALSE>>>> : x \in QS}
Call(post, content, body, params, columns, routines) ==
  [post |-> post, content |-> content, body |-> body, params |-> params, embedded |-> {"c.id"}, columns |-> columns, routines |-> routines]
MCCalls == {Call(FALSE, "json", None, p, <<>>, l) : p \in Params, l \in Lists}
  \cup {Call(TRUE, "json", b, <<>>, c, l) : b \in JsonBodies, c \in {<<>>, <<{"a"}>>, <<{"a", "b"}>>}, l \in Lists}
  \cup {Call(TRUE, "form", b, <<>>, <<>>, l) : b \in FormBodies, l \in Lists}
  \cup {Call(TRUE, "text", b, <<>>, <<>>, l) : b \in {[t |-> "raw"], None}, l \in Lists}
TableT == [columns |-> {"id", "x", "y"}, computed |-> {"fn"}, pk |-> {"id"}]
Eq(c, v) == [k |-> "eq", col |-> c, v |-> v]
OrOf(l) == [k |-> "or", kids |-> l]
RowR(i, a, b) == [id |-> i, x |-> a, y |-> b]
WRows == {{RowR("1", "p", "q"), RowR("2", "p", "p"), RowR("3", "q", "q")}, {}}
WBodies == {None, Obj(<<>>), Obj("x" :> "n"), Obj(("id" :> "1") @@ ("x" :> "n")), Obj(("id" :> "4") @@ ("x" :> "n")), Arr(<<Obj("x" :> "n"), Obj("y" :> "n")>>),
  Arr(<<Obj(("id" :> "2") @@ ("x" :> "n")), Obj(("id" :> "4") @@ ("x" :> "m"))>>), [t |-> "form", s |-> <<<<"x", "n">>, <<"x", "m">>>>], Obj("nope" :> "n")}
Wr(m, b, c, f, l, lim, s, o, full, res, d, rows) ==
  [mutation |-> m, table |-> TableT, body |-> b, columns |-> c, filters |-> f, logic |-> l, limit |-> lim, select |-> s, order |-> o,
   full |-> full, resolution |-> res, onConflict |-> <<>>, defaults |-> d, rows |-> rows]
WFilters == {<<>>, <<Eq("id", "1")>>, <<Eq("x", "p"), Eq("y", "q")>>}
WLogic == {<<>>, <<OrOf(<<Eq("id", "1"), Eq("id", "2")>>)>>}
MCWrites == {Wr(m, b, c, f, l, lim, <<>>, <<>>, TRUE, "", FALSE, r) :
     m \in {"update", "delete", "upsert"}, b \in WBodies, c \in {<<>>, <<{"x"}>>, <<{"id", "x"}>>}, f \in WFilters, l \in WLogic, lim \in BOOLEAN, r \in WRows}
  \cup {Wr("create", b, c, <<>>, <<>>, FALSE, <<>>, <<>>, FALSE, res, d, r) : b \in WBodies, c \in {<<>>, <<{"x", "y"}>>}, res \in {"", "merge", "ignore"}, d \in BOOLEAN, r \in WRows}
  \cup {Wr(m, Obj("x" :> "n"), <<>>, <<>>, <<>>, FALSE, s, o, full, "", FALSE, {}) : m \in {"create", "update"}, full \in BOOLEAN,
           s \in {<<>>, <<"x">>, <<"*">>, <<"fn">>, <<"x", "y">>, <<"nope">>}, o \in {<<>>, <<"y">>, <<"id", "x">>}}

(***************************************************************************)
(* Scenes                                                                  *)
(***************************************************************************)
IdleSchema == catalog = Catalog({}) /\ pass = "keys" /\ rels = {} /\ data = <<>>
IdleSql == job = [plan |-> ReadOf(<<>>), select |-> <<>>, filters |-> <<>>, isNull |-> "", orderBy |-> 0] /\ main = Empty /\ stmt = Empty
IdleParse == meant = [kind |-> "text"] /\ text = NotYet /\ read = NotYet
IdlePlan == asked = Call(FALSE, "json", None, <<>>, <<>>, <<>>) /\ plan = Unplanned /\ after = <<>>
CoreInit ==
  \/ scene = "schema" /\ EmbedInit /\ IdleSql /\ IdleParse /\ IdlePlan
  \/ scene = "sql" /\ SqlInit /\ IdleSchema /\ IdleParse /\ IdlePlan
  \/ scene = "parse" /\ ParseInit /\ IdleSchema /\ IdleSql /\ IdlePlan
  \/ scene = "plan" /\ PlanInit /\ IdleSchema /\ IdleSql /\ IdleParse
CoreNext ==
  /\ UNCHANGED scene
  /\ \/ scene = "schema" /\ EmbedNext /\ UNCHANGED <<sqlVars, parseVars, planVars>>
     \/ scene = "sql" /\ SqlNext /\ UNCHANGED <<embedVars, parseVars, planVars>>
     \/ scene = "parse" /\ ParseNext /\ UNCHANGED <<embedVars, sqlVars, planVars>>
     \/ scene = "plan" /\ PlanNext /\ UNCHANGED <<embedVars, sqlVars, parseVars>>
Spec == CoreInit /\ [][CoreNext]_<<scene, embedVars, sqlVars, parseVars, planVars>>
=============================================================================
