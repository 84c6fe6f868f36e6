------------------------------- MODULE Planning -------------------------------
(***************************************************************************)
(* postrust-core/src/plan: which function a call reaches and with which    *)
(* arguments, which rows a write touches and what it reads back.           *)
(*                                                                         *)
(* A body is [t, ...]: "none"; "obj" with m, a function from keys; "arr"   *)
(* with s, a sequence of bodies; "form" with s, pairs; "scalar"; "raw", a  *)
(* text.  A query parameter is <<name, value, filters>>, filters saying    *)
(* whether the value carries an operator.  An option is <<>> or <<x>>.     *)
(***************************************************************************)
EXTENDS Naturals, Sequences, FiniteSets

CONSTANTS
  Calls,    \* [post, content, body, params, embedded, columns, routines]
  Writes    \* [mutation, table, body, columns, filters, logic, limit, select, order, full, resolution, onConflict, defaults, rows]

VARIABLES asked, plan, after

planVars == <<asked, plan, after>>

None == [t |-> "none"]
Null0 == "null"
Refused(why) == [k |-> "refused", why |-> why]
RangeOf(s) == {s[i] : i \in 1..Len(s)}
NamesOf(pairs) == {pairs[i][1] : i \in 1..Len(pairs)}
RECURSIVE SeqOf(_)
SeqOf(S) == IF S = {} THEN <<>> ELSE LET x == CHOOSE y \in S : TRUE IN <<x>> \o SeqOf(S \ {x})

(***************************************************************************)
(* The body                                                                *)
(***************************************************************************)
ExtractKeys(body) ==
  CASE body.t = "obj" -> DOMAIN body.m
    [] body.t = "arr" -> UNION {DOMAIN body.s[i].m : i \in {j \in 1..Len(body.s) : body.s[j].t = "obj"}}
    [] body.t = "form" -> NamesOf(body.s)
    [] OTHER -> {}

\* Every row of an array is an object and names the same columns.
UniformKeys(body) ==
  body.t = "arr" => \A i \in 1..Len(body.s) : body.s[i].t = "obj" /\ DOMAIN body.s[i].m = DOMAIN body.s[1].m

(***************************************************************************)
(* Calls                                                                   *)
(***************************************************************************)
ParamNames(r) == {r.params[i].name : i \in 1..Len(r.params)}
Param(r, name) == r.params[CHOOSE i \in 1..Len(r.params) : r.params[i].name = name]
Required(r) == {n \in ParamNames(r) : Param(r, n).required}
RawContent == {"text", "xml", "bytes"}

\* What the request supplies, as a set: ?columns= over the body's keys, the
\* body's keys over the query string.
SuppliedArguments(c) ==
  CASE c.post /\ c.columns # <<>> -> c.columns[1]
    [] ~(c.post /\ c.columns # <<>>) /\ (c.body # None \/ c.post) -> ExtractKeys(c.body)
    [] OTHER -> {c.params[i][1] : i \in {j \in 1..Len(c.params) : ~c.params[j][3] /\ c.params[j][1] \notin c.embedded}}

MatchesParams(r, supplied, c) ==
  IF r.params = <<>> THEN supplied = {} /\ ~(c.post /\ c.content \in RawContent)
  ELSE Required(r) \subseteq supplied /\ supplied \subseteq ParamNames(r)

TakesWholeBody(r, c) ==
  /\ c.post /\ Len(r.params) = 1 /\ r.params[1].name = ""
  /\ <<c.content, r.params[1].type>> \in {<<"json", "json">>, <<"text", "text">>, <<"xml", "xml">>, <<"bytes", "bytea">>}

\* A signature that names the arguments wins over one that takes the body.
SelectOverload(c) ==
  LET named == {i \in 1..Len(c.routines) : MatchesParams(c.routines[i], SuppliedArguments(c), c)}
      unnamed == {i \in 1..Len(c.routines) : TakesWholeBody(c.routines[i], c)} \ named
      fits == IF named = {} THEN unnamed ELSE named
  IN CASE fits = {} -> Refused("not found")
       [] Cardinality(fits) = 1 -> [k |-> "routine", r |-> c.routines[CHOOSE i \in fits : TRUE]]
       [] OTHER -> Refused("ambiguous")

\* A JSON null is the empty text, unless the parameter is json.
JsonArgument(r, name, v) == IF v = Null0 /\ Param(r, name).type # "json" THEN "" ELSE v

\* A repeated name is one argument: the array of a variadic, the last of any
\* other; names nobody declares are left out.
RECURSIVE NamedArguments(_, _)
NamedArguments(pairs, r) ==
  IF pairs = <<>> THEN <<>>
  ELSE LET n == pairs[1][1]
           values == SelectSeq(pairs, LAMBDA p : p[1] = n)
           rest == NamedArguments(SelectSeq(pairs, LAMBDA p : p[1] # n), r)
       IN IF n \notin ParamNames(r) THEN rest
          ELSE << <<n, IF Param(r, n).variadic THEN [i \in 1..Len(values) |-> values[i][2]]
                       ELSE <<values[Len(values)][2]>> >> >> \o rest
Named(args) == IF args = <<>> THEN [k |-> "none"] ELSE [k |-> "named", args |-> args]

ExtractCallParams(c, r) ==
  LET one == IF c.body.t = "arr" /\ c.body.s # <<>> /\ c.body.s[1].t = "obj" THEN c.body.s[1] ELSE c.body
      keys == {n \in DOMAIN one.m : (c.columns = <<>> \/ n \in c.columns[1]) /\ n \in ParamNames(r)}
      order == SeqOf(keys)
  IN CASE Len(r.params) = 1 /\ r.params[1].name = "" -> [k |-> "unnamed", body |-> IF c.body.t = "form" THEN None ELSE c.body]
       [] ~(Len(r.params) = 1 /\ r.params[1].name = "") /\ c.body.t # "none" ->
            CASE one.t = "obj" -> [k |-> "named", args |-> [i \in 1..Len(order) |-> <<order[i], <<JsonArgument(r, order[i], one.m[order[i]])>> >>]]
              [] one.t = "form" -> Named(NamedArguments(one.s, r))
              [] OTHER -> [k |-> "single", body |-> c.body]
       [] OTHER -> Named(NamedArguments(SelectSeq(c.params, LAMBDA p : ~p[3]), r))

CreateCallPlan(c) ==
  LET chosen == SelectOverload(c)
  IN IF c.columns = <<>> /\ ~UniformKeys(c.body) THEN Refused("keys")
     ELSE IF chosen.k = "refused" THEN chosen
     ELSE [k |-> "call", r |-> chosen.r, call |-> ExtractCallParams(c, chosen.r)]

(***************************************************************************)
(* Writes                                                                  *)
(***************************************************************************)
\* Mutant: only plain filters choose rows.
PlainFilters(w) == w.filters

\* Conditions are [eq, col, v], or [or, kids].
BuildMutationWhere(w) == w.filters \o w.logic
Meets(row, cond) ==
  IF cond.k = "or" THEN \E i \in 1..Len(cond.kids) : row[cond.kids[i].col] = cond.kids[i].v
  ELSE row[cond.col] = cond.v
MeetsAll(row, conds) == \A i \in 1..Len(conds) : Meets(row, conds[i])

PayloadColumns(w) ==
  IF w.body.t \notin {"obj", "arr", "form"} THEN {} ELSE IF w.columns # <<>> THEN w.columns[1] ELSE ExtractKeys(w.body)

\* PUT: no limit, and the filters are equalities on the whole key and nothing
\* else.
ValidatePut(w) ==
  CASE w.limit -> "limit"
    [] ~w.limit /\ (w.logic # <<>> \/ w.table.pk = {} \/ {w.filters[i].col : i \in 1..Len(w.filters)} # w.table.pk) -> "filters"
    [] OTHER -> ""

\* RETURNING: what the response reads, and the key a created row is named by.
ReturningColumns(w) ==
  LET wanted == (IF w.full THEN RangeOf(w.select) \cup RangeOf(w.order) ELSE {})
                \cup (IF w.mutation \in {"create", "upsert"} THEN w.table.pk ELSE {})
  IN IF w.full /\ (w.select = <<>> \/ \E n \in RangeOf(w.select) : n = "*" \/ n \in w.table.computed) THEN w.table.columns
     ELSE wanted \cap w.table.columns

\* The read over the rows a mutation returned: no filters of its own.
ReadForMutation(w) ==
  LET fields == IF w.select = <<>> THEN w.table.columns ELSE RangeOf(w.select)
  IN [select |-> UNION {IF n = "*" THEN w.table.columns ELSE {n} : n \in fields}, order |-> RangeOf(w.order), where |-> <<>>]
OnConflict(w) ==
  CASE w.mutation = "upsert" -> w.table.pk
    [] w.mutation # "upsert" /\ w.resolution # "" -> IF w.onConflict # <<>> THEN w.onConflict[1] ELSE w.table.pk
    [] OTHER -> {}

CreateWritePlan(w) ==
  LET cols == PayloadColumns(w)
      reads == ReadForMutation(w)
      put == IF w.mutation = "upsert" THEN ValidatePut(w) ELSE ""
  IN CASE w.columns = <<>> /\ ~UniformKeys(w.body) -> Refused("keys")
       [] ~(w.columns = <<>> /\ ~UniformKeys(w.body)) /\ w.body = None /\ w.mutation # "delete" -> Refused("body")
       [] ~(w.columns = <<>> /\ ~UniformKeys(w.body)) /\ ~(w.body = None /\ w.mutation # "delete") /\ put # "" -> Refused(put)
       [] OTHER ->
            IF ~(cols \subseteq w.table.columns) \/ (w.full /\ ~(reads.select \subseteq (w.table.columns \cup w.table.computed)))
            THEN Refused("column")
            ELSE [k |-> "write", w |-> w, cols |-> cols, returning |-> ReturningColumns(w), read |-> IF w.full THEN <<reads>> ELSE <<>>,
                  where |-> IF w.mutation = "create" THEN <<>> ELSE BuildMutationWhere(w), conflict |-> OnConflict(w)]

\* The statement's effect.  A row the body does not fill takes the table's
\* default where missing=default asks for it or the column is not written at
\* all, and null elsewhere.
Default(p, c) == IF c \in p.cols /\ ~p.w.defaults THEN Null0 ELSE "default"
Objects(body) ==
  CASE body.t = "obj" -> <<body.m>>
    [] body.t = "arr" -> [i \in 1..Len(body.s) |-> body.s[i].m]
    [] body.t = "form" -> <<[n \in NamesOf(body.s) |-> body.s[CHOOSE i \in 1..Len(body.s) : body.s[i][1] = n /\ \A j \in (i + 1)..Len(body.s) : body.s[j][1] # n][2]]>>
    [] OTHER -> <<>>
NewRow(p, m) ==
  [c \in p.w.table.columns |-> IF c \in p.cols /\ c \in DOMAIN m THEN m[c] ELSE Default(p, c)]
Offered(p) ==
  LET rows == {NewRow(p, m) : m \in RangeOf(Objects(p.w.body))}
  IN IF p.cols = {} THEN rows ELSE {r \in rows : MeetsAll(r, p.where)}

\* ON CONFLICT DO UPDATE SET the body's columns.
Merge(p, old, new) == [c \in p.w.table.columns |-> IF c \in p.cols THEN new[c] ELSE old[c]]
Insert(p) ==
  LET Clash(r, n) == p.conflict # {} /\ \A c \in p.conflict : r[c] = n[c] /\ r[c] # Null0
      merges == p.w.mutation = "upsert" \/ p.w.resolution = "merge"
      kept == {IF merges /\ p.cols # {} /\ \E n \in Offered(p) : Clash(r, n)
               THEN Merge(p, r, CHOOSE n \in Offered(p) : Clash(r, n)) ELSE r : r \in p.w.rows}
  IN kept \cup {n \in Offered(p) : \A r \in p.w.rows : ~Clash(r, n)}
Update(p) ==
  LET body == Objects(p.w.body)
  IN IF p.cols = {} \/ body = <<>> THEN p.w.rows
     ELSE {IF MeetsAll(r, p.where) THEN [c \in p.w.table.columns |-> IF c \in p.cols THEN NewRow(p, body[1])[c] ELSE r[c]] ELSE r : r \in p.w.rows}
Delete(p) == {r \in p.w.rows : ~MeetsAll(r, p.where)}

(***************************************************************************)
(* Behaviour                                                               *)
(***************************************************************************)
Unplanned == [k |-> "unplanned"]
PlanCall == /\ "routines" \in DOMAIN asked /\ plan = Unplanned
            /\ plan' = CreateCallPlan(asked) /\ UNCHANGED <<asked, after>>
PlanWrite == /\ "mutation" \in DOMAIN asked /\ plan = Unplanned
             /\ plan' = CreateWritePlan(asked) /\ UNCHANGED <<asked, after>>
RunWrite == /\ plan.k = "write" /\ after = <<>>
            /\ after' = <<CASE plan.w.mutation \in {"create", "upsert"} -> Insert(plan)
                            [] plan.w.mutation = "update" -> Update(plan)
                            [] plan.w.mutation = "delete" -> Delete(plan)>>
            /\ UNCHANGED <<asked, plan>>
PlanInit == asked \in Calls \cup Writes /\ plan = Unplanned /\ after = <<>>
PlanNext == PlanCall \/ PlanWrite \/ RunWrite

(***************************************************************************)
(* Properties                                                              *)
(***************************************************************************)
\* The overload a call reaches does not depend on the order the catalog listed
\* the signatures in.
OverloadOrderFree ==
  plan.k \in {"call", "refused"} /\ "routines" \in DOMAIN asked =>
    LET n == Len(asked.routines)
        other == CreateCallPlan([asked EXCEPT !.routines = [i \in 1..n |-> asked.routines[n + 1 - i]]])
    IN other = plan

\* A planned call fits the signature chosen for it: no argument it does not
\* declare, every one it requires, each once.  (Not where ?columns= names what
\* the body lacks, and not for a body that is no set of arguments.)
CallFits ==
  plan.k = "call" /\ asked.body.t # "scalar" /\ (asked.columns # <<>> => asked.columns[1] \subseteq ExtractKeys(asked.body) /\ UniformKeys(asked.body))
  /\ ~(asked.body.t = "arr" /\ asked.body.s = <<>>) =>
    LET r == plan.r
        names == IF plan.call.k = "named" THEN NamesOf(plan.call.args) ELSE {}
    IN CASE plan.call.k = "unnamed" -> Len(r.params) = 1 /\ r.params[1].name = ""
         [] plan.call.k = "single" -> Len(r.params) > 0
         [] OTHER -> Required(r) \subseteq names /\ names \subseteq ParamNames(r)
                     /\ (plan.call.k = "named" => Cardinality(names) = Len(plan.call.args))

\* What the client wrote after the last & wins, and a variadic takes all of it:
\* ?v=1&v=2 is one argument, and ?id=5&id=gt.2 an argument and a filter.
RepeatsAreOneArgument ==
  plan.k = "call" /\ ~asked.post =>
    \A n \in ParamNames(plan.r) \ {""} :
      LET given == SelectSeq(asked.params, LAMBDA p : p[1] = n /\ ~p[3])
          passed == IF plan.call.k = "named" THEN SelectSeq(plan.call.args, LAMBDA a : a[1] = n) ELSE <<>>
      IN IF given = <<>> THEN passed = <<>>
         ELSE passed # <<>> /\ passed[1][2] = IF Param(plan.r, n).variadic THEN [i \in 1..Len(given) |-> given[i][2]] ELSE <<given[Len(given)][2]>>

\* "A request that names two rows must never touch a third": a row that does
\* not meet every filter and every group of the URL is as it was.
OnlyTheNamedRows ==
  after # <<>> /\ asked.mutation \in {"update", "delete"} =>
    \A r \in asked.rows : ~MeetsAll(r, asked.filters \o asked.logic) => r \in after[1]

\* A PUT with a body writes no row but the one its URL names, and of that row
\* nothing the body does not mention.
PutWritesItsRow ==
  after # <<>> /\ asked.mutation = "upsert" /\ plan.cols # {} =>
    /\ \A r \in asked.rows : ~MeetsAll(r, asked.filters) => r \in after[1]
    /\ \A n \in after[1] \ asked.rows : MeetsAll(n, asked.filters)
    /\ \A n \in after[1] \ asked.rows, r \in asked.rows :
         (\A c \in asked.table.pk : r[c] = n[c]) => \A c \in asked.table.columns \ plan.cols : n[c] = r[c]

\* Every column the response's read asks of the returned rows is returned.
ReadBackSuffices ==
  plan.k = "write" /\ plan.read # <<>> =>
    (plan.read[1].select \cup plan.read[1].order) \cap asked.table.columns \subseteq plan.returning

\* One statement has one column list: unless ?columns= says otherwise, no row
\* of a bulk insert is filled with nulls for keys only other rows have.
NoRowFilledIn ==
  after # <<>> /\ asked.mutation = "create" /\ asked.columns = <<>> =>
    \A i \in 1..Len(Objects(asked.body)) : DOMAIN Objects(asked.body)[i] = plan.cols

\* A call reaches the one function its arguments fit, and a write the rows and
\* columns the request names.
CallsTheOneThatFits == OverloadOrderFree /\ CallFits /\ RepeatsAreOneArgument
WritesWhatIsNamed == OnlyTheNamedRows /\ PutWritesItsRow /\ ReadBackSuffices /\ NoRowFilledIn
PlannedAsAsked == CallsTheOneThatFits /\ WritesWhatIsNamed
=============================================================================
