---------------------------- MODULE RestRequest ----------------------------
(***************************************************************************)
(* The pure part of a REST request: what parse_request makes of it, what   *)
(* create_action_plan refuses, what the statement built from the plan      *)
(* does to a table, and what the response says about it.                   *)
(*                                                                         *)
(* A request is a record of the choices that matter (method, path,         *)
(* filters, window, preferences, accepted types, body); names and values   *)
(* are members of small sets.  A table is a function from its keys to the  *)
(* version of the row, and a filter is the set of keys it accepts.         *)
(***************************************************************************)
EXTENDS Integers, Sequences, FiniteSets

CONSTANTS
  Keys,          \* primary keys, a set of naturals
  DefaultKey,    \* the key a row inserted without one is given
  EmbedMatch,    \* the keys whose row has a row in the embedded resource
  Tables,        \* name -> [pk, plain, guc]: has a primary key; neither view nor partitioned;
                 \* what its statement trigger sets for the response
  Routines,      \* name -> [writes, rows, void, media, guc]
  Schemas,       \* the schemas the API exposes
  Writers        \* the roles granted to write (the login role is one)

ASSUME KeysAssumption ==
  /\ Keys \subseteq Nat /\ IsFiniteSet(Keys) /\ DefaultKey \in Keys /\ EmbedMatch \subseteq Keys
  /\ \A f \in DOMAIN Routines : Routines[f].writes \subseteq Keys

None == -1                                  \* an optional number left out

\* What a client sends.  An equality with the key accepts one key at most.  Where a
\* number is signed, one below None is a negative number sent.
Filter == {f \in [field : STRING, op : STRING, keys : SUBSET Keys, tree : BOOLEAN] :
             f.field = "id" /\ f.op = "eq" /\ ~f.tree => \E k \in Keys : f.keys \subseteq {k}}
Body == [kind : STRING, ids : Seq(Keys), cols : SUBSET STRING]
Preferences == [ret : {"minimal", "full"}, count : {"none", "exact", "planned", "estimated"},
                res : {"none", "ignore", "merge"}, max : Int, strict : BOOLEAN, unknown : BOOLEAN]
Request == [method : STRING, path : Seq(STRING), profile : STRING, token : {"good", "none", "bad"}, body : Body,
            prefer : Preferences, accept : Seq(STRING) \ {<<>>}, filters : Seq(Filter), limit : Int,
            offset : Int, range : Seq(Nat), embed : {"no", "left", "inner", "unknown"}, aggregate : BOOLEAN]

Version == {"absent", "old", "new"}
Table == [Keys -> Version]
Present(t) == {k \in Keys : t[k] # "absent"}

FirstError(errs) ==
  LET at == {i \in DOMAIN errs : errs[i] # "ok"}
  IN IF at = {} THEN "ok" ELSE errs[CHOOSE i \in at : \A j \in at : i <= j]

(***************************************************************************)
(* Parsing                                                                 *)
(***************************************************************************)
ParseResource(path) ==
  IF path = <<>> THEN [kind |-> "schema", name |-> "none", err |-> "ok"]
  ELSE IF Len(path) = 2 /\ path[1] = "rpc"
  THEN [kind |-> "routine", name |-> path[2], err |-> "ok"]
  ELSE IF Len(path) > 1 THEN [kind |-> "none", name |-> "none", err |-> "InvalidResourcePath"]
  ELSE [kind |-> "relation", name |-> path[1], err |-> "ok"]

SchemaError(h) ==
  IF h.profile # "default" /\ h.profile \notin Schemas THEN "UnacceptableSchema" ELSE "ok"

Mutations == [POST |-> "create", PATCH |-> "update", PUT |-> "upsert", DELETE |-> "delete"]

ParseAction(m, r) ==
  LET act(kind, mutation) == [kind |-> kind, name |-> r.name, mutation |-> mutation, err |-> "ok"]
      refuse(e) == [kind |-> "none", name |-> r.name, mutation |-> "none", err |-> e]
      reads == m \in {"GET", "HEAD"}
  IN CASE r.kind = "schema" /\ (reads \/ m = "OPTIONS") -> act("info", "none")
       [] r.kind = "relation" /\ reads -> act("read", "none")
       [] r.kind = "relation" /\ m \in DOMAIN Mutations -> act("mut", Mutations[m])
       [] r.kind = "relation" /\ m = "OPTIONS" -> act("info", "none")
       [] r.kind = "routine" /\ reads -> act("callread", "none")
       [] r.kind = "routine" /\ m = "POST" -> act("call", "none")
       [] r.kind = "routine" /\ m = "OPTIONS" -> act("info", "none")
       [] r.kind = "routine" -> refuse("InvalidRpcMethod")
       [] OTHER -> refuse("UnsupportedMethod")

\* handling=strict refuses the preferences the server does not know.
PreferError(p) == IF p.strict /\ p.unknown THEN "InvalidPreferences" ELSE "ok"

\* The Range header: <<>> none (or unreadable), <<s>> open-ended, <<s, e>> inclusive.
ParseRange(r) ==
  IF Len(r) > 1 /\ r[2] < r[1] THEN [offset |-> 0, limit |-> None, err |-> "InvalidRange"]
  ELSE [offset |-> IF Len(r) = 0 THEN 0 ELSE r[1],
        limit  |-> IF Len(r) > 1 THEN r[2] - r[1] + 1 ELSE None, err |-> "ok"]

LimitError(h) == IF h.limit < None THEN "InvalidRange" ELSE "ok"

ActionOf(h) == ParseAction(h.method, ParseResource(h.path))

ParseError(h) ==
  FirstError(<<ParseResource(h.path).err, SchemaError(h), ActionOf(h).err,
               LimitError(h), PreferError(h.prefer), ParseRange(h.range).err>>)

\* limit and offset override the Range header; the server's ceiling caps both.
TopLevelRange(h, maxRows) ==
  LET base  == ParseRange(h.range)
      asked == IF h.limit # None THEN h.limit ELSE base.limit
  IN [offset |-> IF h.offset # None THEN h.offset ELSE base.offset,
      limit  |-> IF maxRows = None THEN asked
                 ELSE IF asked = None \/ asked > maxRows THEN maxRows ELSE asked]

(***************************************************************************)
(* The body                                                                *)
(***************************************************************************)
NeedsPayload(a) == a.kind = "mut" /\ a.mutation \in {"create", "update", "upsert"}

BodyError(h, a) ==
  CASE h.body.kind \in {"malformed", "ragged"} -> "InvalidBody"   \* ragged: rows naming different columns
    [] h.body.kind = "none" /\ NeedsPayload(a) -> "InvalidBody"
    [] OTHER -> "ok"

\* Only plans are accepted, and plans are not served.
RequestedPlan(h) == \A i \in DOMAIN h.accept : h.accept[i] = "plan"

(***************************************************************************)
(* Planning                                                                *)
(***************************************************************************)

IsReadOnly(a) == a.kind \in {"read", "callread", "info"}
IsMutation(a) == a.kind = "mut"
IsCall(a) == a.kind \in {"call", "callread"}
IsUpsert(a) == IsMutation(a) /\ a.mutation = "upsert"
NeedsBody(h) == h.prefer.ret = "full"

Embeds(h) == h.embed # "no"
FiltersOf(h) == {h.filters[i] : i \in DOMAIN h.filters}

\* PUT: no window, every filter an eq on the key, nothing else that filters.
ValidatePut(h, t) ==
  CASE h.limit # None \/ (h.offset # None /\ h.offset # 0) -> "PutLimitNotAllowed"
    [] \E f \in FiltersOf(h) : f.op # "eq" \/ f.tree -> "InvalidPutFilters"
    [] ~t.pk \/ {f.field : f \in FiltersOf(h)} # {"id"} -> "InvalidPutFilters"
    [] OTHER -> "ok"

RelationshipError(h) == IF h.embed = "unknown" THEN "RelationshipNotFound" ELSE "ok"

AggregateError(h, aggregates) ==
  IF h.aggregate /\ ~aggregates THEN "AggregatesNotAllowed" ELSE "ok"

PlanError(h, a) ==
  CASE a.kind \in {"read", "mut"} /\ a.name \notin DOMAIN Tables -> "TableNotFound"
    [] IsUpsert(a) /\ ValidatePut(h, Tables[a.name]) # "ok" -> ValidatePut(h, Tables[a.name])
    [] IsMutation(a) /\ "bogus" \in h.body.cols -> "UnknownColumn"
    [] IsCall(a) /\ a.name \notin DOMAIN Routines -> "FunctionNotFound"
    [] OTHER -> "ok"

\* The relation the rows belong to, where a function returns a table's rows too.
HasTarget(a) == \/ a.kind \in {"read", "mut"}
                \/ IsCall(a) /\ Routines[a.name].rows

(***************************************************************************)
(* Content negotiation: a handler the schema declares for any relation,    *)
(* the function's own media type, or a type rendered here.                 *)
(***************************************************************************)
Accepts(h, m) == \E i \in DOMAIN h.accept : h.accept[i] = m
MediaHandler(h, a) == HasTarget(a) /\ Accepts(h, "custom")
DeclaredMediaType(h, a) == IsCall(a) /\ Routines[a.name].media /\ Accepts(h, "png")
RendersWithoutAHandler == {"json", "csv", "object", "nullable", "geo"}
Rendered(h, a) == MediaHandler(h, a) \/ DeclaredMediaType(h, a)
MediaError(h, a) ==
  IF ~Rendered(h, a) /\ \A i \in DOMAIN h.accept : h.accept[i] \notin RendersWithoutAHandler
  THEN "InvalidMediaType" ELSE "ok"
\* No table of the instance has a geometry column.
GeometryError(h, a) ==
  IF ~MediaHandler(h, a) /\ Accepts(h, "geo") /\ HasTarget(a) THEN "MissingGeometryColumn" ELSE "ok"

(***************************************************************************)
(* What the statement means to the database                                *)
(***************************************************************************)
NamesEmbed(f) == f.field = "clients"

\* Mutant: only the plain filters, no or= and and= trees.
PlainFilters(h, a) == {f \in FiltersOf(h) : ~f.tree /\ (IsMutation(a) \/ ~Embeds(h) \/ ~NamesEmbed(f))}

\* build_where_clauses leaves a filter that names an embed to the wrapper;
\* build_mutation_where takes every filter.
WhereClauses(h, a) ==
  {f \in FiltersOf(h) : IsMutation(a) \/ ~Embeds(h) \/ ~NamesEmbed(f)}

\* A column the table does not have is the database's error.
WhereError(h, a) ==
  IF \E f \in WhereClauses(h, a) : NamesEmbed(f) THEN "42703" ELSE "ok"

Satisfies(k, clauses) == \A f \in clauses : k \in f.keys

\* The wrapper's predicates: !inner, and is-null tests of the embed.  Another
\* operator on an embed makes no predicate.
EmbedPredicates(h) ==
  IF ~Embeds(h) THEN {}
  ELSE (IF h.embed = "inner" THEN {EmbedMatch} ELSE {})
       \cup {IF f.op = "isnull" THEN Keys \ EmbedMatch ELSE EmbedMatch :
             f \in {g \in FiltersOf(h) : NamesEmbed(g) /\ g.op # "eq"}}

Survives(k, h) == \A p \in EmbedPredicates(h) : k \in p

\* Rows come in the order of their keys; a page is a stretch of it.  A negative
\* offset is accepted and skips nothing.
Rank(k, S) == Cardinality({j \in S : j <= k})
Skipped(r) == IF r.offset > 0 THEN r.offset ELSE 0
Page(S, r) ==
  {k \in S : Rank(k, S) > Skipped(r) /\ (r.limit = None \/ Rank(k, S) <= Skipped(r) + r.limit)}

\* The page moves out past the wrapper only for a read that joins inner.
PageThenTrim(h, a, S, r) ==
  LET trim(T) == {k \in T : Survives(k, h)}
  IN IF a.kind = "read" /\ h.embed = "inner" THEN Page(trim(S), r) ELSE trim(Page(S, r))

Matching(h, a, t) == {k \in Present(t) : Satisfies(k, WhereClauses(h, a))}

\* What a statement leaves: the table, the rows it returns, those it created
\* and those it wrote.
Result(table, rows, created, touched) ==
  [table |-> table, rows |-> rows, created |-> created, touched |-> touched, err |-> "ok"]
Failed(t, e) == [Result(t, {}, {}, {}) EXCEPT !.err = e]

\* The rows of the body, by their places, and the keys they carry: a body naming
\* no columns is rows of defaults, and a PUT keeps the rows its filters accept.
InsertedKey(h, i) == IF "id" \in h.body.cols THEN h.body.ids[i] ELSE DefaultKey
InsertedRows(h, a) ==
  IF "id" \notin h.body.cols /\ h.body.kind # "array" THEN {1}
  ELSE {i \in DOMAIN h.body.ids : "id" \in h.body.cols /\ IsUpsert(a) => Satisfies(h.body.ids[i], FiltersOf(h))}

\* ON CONFLICT on the key, where the table has one; without columns to write
\* a merge does nothing.
Resolution(h, a) ==
  CASE ~Tables[a.name].pk -> "none"
    [] h.body.cols = {} /\ (IsUpsert(a) \/ h.prefer.res = "merge") -> "ignore"
    [] IsUpsert(a) -> "merge"
    [] OTHER -> h.prefer.res

Insert(h, a, t) ==
  LET named == {InsertedKey(h, i) : i \in InsertedRows(h, a)}
      twice == \E i, j \in InsertedRows(h, a) : i # j /\ InsertedKey(h, i) = InsertedKey(h, j)
      fresh == IF Tables[a.name].pk THEN named \ Present(t) ELSE named
      wrote == IF Resolution(h, a) = "merge" THEN named ELSE fresh
      \* the filters of a PUT may name a column the body does not have
      error == FirstError(<<
        IF IsUpsert(a) /\ h.body.cols # {} /\ "id" \notin h.body.cols THEN "42703" ELSE "ok",
        IF Resolution(h, a) = "none" /\ Tables[a.name].pk /\ (twice \/ fresh # named) THEN "23505" ELSE "ok",
        IF Resolution(h, a) = "merge" /\ twice THEN "21000" ELSE "ok">>)
  IN IF error # "ok" THEN Failed(t, error)
     ELSE Result([k \in Keys |-> IF k \in wrote THEN "new" ELSE t[k]], wrote, fresh, wrote)

\* No column to set selects nothing instead.
Update(h, a, t) ==
  LET hit == IF h.body.cols = {} THEN {} ELSE Matching(h, a, t)
  IN IF h.body.cols # {} /\ WhereError(h, a) # "ok" THEN Failed(t, WhereError(h, a))
     ELSE Result([k \in Keys |-> IF k \in hit THEN "new" ELSE t[k]], hit, {}, hit)

Delete(h, a, t) ==
  LET hit == Matching(h, a, t)
  IN IF WhereError(h, a) # "ok" THEN Failed(t, WhereError(h, a))
     ELSE Result([k \in Keys |-> IF k \in hit THEN "absent" ELSE t[k]], hit, {}, hit)

\* The rows a write affected, read back through the selection when a body was
\* asked for.  Without one there is no WITH to lift, and wrapping the bare
\* statement is a syntax error.
Mutate(h, a, t, r) ==
  LET done == CASE a.mutation \in {"create", "upsert"} -> Insert(h, a, t)
                [] a.mutation = "update" -> Update(h, a, t)
                [] a.mutation = "delete" -> Delete(h, a, t)
  IN IF ~NeedsBody(h) /\ (Embeds(h) \/ MediaHandler(h, a)) THEN Failed(t, "42601")
     ELSE IF NeedsBody(h) THEN [done EXCEPT !.rows = PageThenTrim(h, a, @, r)] ELSE done

\* A function's effect, and the rows it returns: a table's, filtered and paged
\* like the table's own, or one value.
Call(h, a, t, r, readOnly) ==
  LET f     == Routines[a.name]
      table == [k \in Keys |-> IF k \in f.writes THEN "new" ELSE t[k]]
      error == FirstError(<<IF readOnly /\ f.writes # {} THEN "25006" ELSE "ok",
                            IF f.rows THEN WhereError(h, a) ELSE "ok">>)
      rows  == IF f.rows THEN PageThenTrim(h, a, Matching(h, a, table), r) ELSE {DefaultKey}
  IN IF error # "ok" THEN Failed(t, error) ELSE Result(table, rows, {}, f.writes)

Execute(h, a, t, r, readOnly) ==
  CASE a.kind = "read" -> IF WhereError(h, a) # "ok" THEN Failed(t, WhereError(h, a))
                          ELSE Result(t, PageThenTrim(h, a, Matching(h, a, t), r), {}, {})
    [] IsMutation(a) -> IF readOnly THEN Failed(t, "25006") ELSE Mutate(h, a, t, r)
    [] IsCall(a) -> Call(h, a, t, r, readOnly)

\* count(*) over the statement without its page; a call is made again.
Unpaged == [offset |-> 0, limit |-> None]
CountSql(h, a) == h.prefer.count # "none" /\ ~IsMutation(a)
Counted(h, a, t, readOnly) == Execute(h, a, t, Unpaged, readOnly)

(***************************************************************************)
(* The response                                                            *)
(***************************************************************************)
ContentRange(start, end, total) == [start |-> start, end |-> end, total |-> total]
FromPagination(offset, count, total) == ContentRange(offset, offset + count - 1, total)

RangeStatus(cr) ==
  IF cr.total = None THEN 200
  ELSE IF cr.start > cr.total THEN 416
  ELSE IF 1 + cr.end - cr.start < cr.total THEN 206 ELSE 200

\* created: some row was inserted; could: the statement could tell.
MutationStatus(h, a, created, could) ==
  CASE a.mutation = "upsert" ->
         IF ~NeedsBody(h) THEN 204 ELSE IF created \/ ~could THEN 201 ELSE 200
    [] a.mutation = "create" /\ h.prefer.res = "merge" /\ could /\ ~created -> 200
    [] a.mutation = "create" -> 201
    [] OTHER -> IF NeedsBody(h) THEN 200 ELSE 204

\* Whether the statement says which rows it created.
ReportsInserted(h, a) ==
  a.mutation \in {"create", "upsert"} /\ Resolution(h, a) # "none" /\ Tables[a.name].plain

\* A singular response: exactly one row, or none where null is acceptable.
SingularError(n, media) ==
  IF (media = "object" /\ n # 1) \/ (media = "nullable" /\ n > 1)
  THEN "NotSingular" ELSE "ok"

\* A body the schema rendered is not counted; one left out is counted all the same.
FormatError(h, rawBody, n) == IF rawBody THEN "ok" ELSE SingularError(n, h.accept[1])
=============================================================================
