------------------------------- MODULE SqlBuild -------------------------------
(***************************************************************************)
(* postrust-sql and postrust-core/src/query: statements put together from  *)
(* fragments that each number their own placeholders from $1, and the      *)
(* engine's embed expressions that are wrapped around a finished one.      *)
(*                                                                         *)
(* A token is <<kind, text, n>>: "w" a word, "col" a column under its      *)
(* qualifier, "as" and "ref" an alias and a use of it, "ph" the            *)
(* placeholder $n, "$" a quoted name whose text holds $n.  The builders    *)
(* are lists of parts: a token pushed, a value bound, a fragment appended. *)
(***************************************************************************)
EXTENDS Naturals, Sequences, FiniteSets

CONSTANT Jobs   \* [plan, select, filters]: a statement and the embeds around it

VARIABLES job, main, stmt

sqlVars == <<job, main, stmt>>

W(text) == <<"w", text, 0>>
Word(text) == [k |-> "tok", t |-> W(text)]
Name(qualifier, column) ==
  LET text == IF qualifier = "" THEN column[1] ELSE qualifier \o "." \o column[1]
  IN [k |-> "tok", t |-> IF column[2] = 0 THEN <<"col", text, 0>> ELSE <<"$", text, column[2]>>]
Bind(v) == [k |-> "val", v |-> v]
Frag(parts) == [k |-> "frag", parts |-> parts]
When(b, parts) == IF b THEN parts ELSE <<>>

(***************************************************************************)
(* SqlFragment                                                             *)
(***************************************************************************)
Empty == [sql |-> <<>>, params |-> <<>>]
Push(f, tok) == [f EXCEPT !.sql = Append(@, tok)]

PushParam(f, v) == [sql |-> Append(f.sql, <<"ph", "", Len(f.params) + 1>>), params |-> Append(f.params, v)]

\* Every $n of the text moves, in a name as well as in a placeholder.
RenumberParams(sql, offset) ==
  [i \in 1..Len(sql) |-> IF sql[i][1] \in {"ph", "$"} THEN <<sql[i][1], sql[i][2], sql[i][3] + offset>> ELSE sql[i]]

AppendFragment(f, g) == [sql |-> f.sql \o RenumberParams(g.sql, Len(f.params)), params |-> f.params \o g.params]

RECURSIVE Build(_)
Build(parts) ==
  IF parts = <<>> THEN Empty
  ELSE LET f == Build(SubSeq(parts, 1, Len(parts) - 1))
           p == parts[Len(parts)]
       IN CASE p.k = "tok" -> Push(f, p.t)
            [] p.k = "val" -> PushParam(f, p.v)
            [] p.k = "frag" -> AppendFragment(f, Build(p.parts))

\* join: fragments with a separator between them.
RECURSIVE Join(_, _)
Join(sep, lists) ==
  IF lists = <<>> THEN <<>>
  ELSE (IF Len(lists) > 1 THEN Join(sep, SubSeq(lists, 1, Len(lists) - 1)) \o <<Word(sep)>> ELSE <<>>)
       \o <<Frag(lists[Len(lists)])>>
Parens(parts) == <<Word("(")>> \o parts \o <<Word(")")>>

(***************************************************************************)
(* Clauses.  A column is <<name, n>>, with n > 0 where its text holds $n;  *)
(* a filter is [col, neg, op, vals, lang].                                 *)
(***************************************************************************)
\* push_value, for each of an IN's values.
Values(vals) == IF vals = <<>> THEN <<>> ELSE
  [i \in 1..(2 * Len(vals) - 1) |-> IF i % 2 = 1 THEN Bind(vals[(i + 1) \div 2]) ELSE Word(",")]

Operand(f) ==
  CASE f.op \in {"simple", "distinct"} -> <<Word(f.op), Bind(f.vals[1])>>
    [] f.op = "quant" -> <<Word("ANY<"), Bind(f.vals[1]), Word(">")>>
    [] f.op = "in" /\ f.vals = <<>> -> <<Word("=ANY'{}'")>>
    [] f.op = "in" /\ f.vals # <<>> -> <<Word("IN<")>> \o Values(f.vals) \o <<Word(">")>>
    [] f.op = "is" -> <<Word("IS"), Word("NULL")>>
    [] f.op = "fts" -> <<Word("@@ to_tsquery<")>> \o When(f.lang # "", <<Bind(f.lang), Word(",")>>)
                       \o <<Bind(f.vals[1]), Word(">")>>

FilterParts(q, f) ==
  When(f.neg, <<Word("NOT"), Word("(")>>)
  \o When(f.op = "fts", <<Word("to_tsvector<")>> \o When(f.lang # "", <<Bind(f.lang), Word(",")>>))
  \o <<Name(q, f.col)>> \o When(f.op = "fts", <<Word(">")>>)
  \o Operand(f)
  \o When(f.neg, <<Word(")")>>)

\* Mutant: a group is not parenthesised.
RECURSIVE BareLogic(_, _)
BareLogic(q, tree) ==
  IF "col" \in DOMAIN tree THEN FilterParts(q, tree)
  ELSE When(tree.neg, <<Word("NOT")>>) \o Join(tree.logic, [i \in 1..Len(tree.kids) |-> BareLogic(q, tree.kids[i])])

RECURSIVE LogicParts(_, _)
LogicParts(q, tree) ==
  IF "col" \in DOMAIN tree THEN FilterParts(q, tree)
  ELSE LET group == Parens(Join(tree.logic, [i \in 1..Len(tree.kids) |-> LogicParts(q, tree.kids[i])]))
       IN IF tree.neg THEN <<Word("NOT"), Frag(group)>> ELSE group

WhereParts(q, trees) ==
  IF trees = <<>> THEN <<>>
  ELSE <<Word("WHERE")>> \o Join("AND", [i \in 1..Len(trees) |-> LogicParts(q, trees[i])])

\* build_select_field: a column, or an aggregate of one, or count().
SelectField(field) ==
  When(field.agg # "", <<Word(field.agg), Word("<")>>)
  \o (IF field.col[1] = "" THEN <<Word("*")>> ELSE <<Name("", field.col)>>)
  \o When(field.agg # "", <<Word(">")>>)
  \o When(field.agg # "" \/ field.as # "", <<Word("AS"), Word(IF field.as # "" THEN field.as ELSE field.agg)>>)
SelectParts(fields) ==
  IF fields = <<>> THEN <<Word("*")>> ELSE Join(",", [i \in 1..Len(fields) |-> SelectField(fields[i])])
GroupBy(fields) ==
  LET plain == SelectSeq(fields, LAMBDA f : f.agg = "")
  IN When((\E i \in 1..Len(fields) : fields[i].agg # "") /\ plain # <<>>,
          <<Word("GROUP BY")>> \o Join(",", [i \in 1..Len(plain) |-> <<Name("", plain[i].col)>>]))
OrderTerms(order) ==
  IF order = <<>> THEN <<>>
  ELSE <<Word("ORDER BY")>> \o Join(",", [i \in 1..Len(order) |-> <<Name("", order[i])>>])
\* LIMIT and OFFSET are literals.
RangeParts(range) == When(range, <<Word("LIMIT"), Word("OFFSET")>>)

ReadParts(p, range) ==
  <<Word("SELECT")>> \o SelectParts(p.fields) \o <<Word("FROM")>> \o WhereParts("", p.where)
  \o GroupBy(p.fields) \o OrderTerms(p.order) \o RangeParts(range)

\* push_json_body: the body is one value, whatever columns it is read into.
JsonBody(p) == <<Word("FROM (SELECT body"), Bind(p.body), Word("::json) pgrst_body")>>
Columns(cols) == Join(",", [i \in 1..Len(cols) |-> <<Name("", cols[i])>>])
Returning(cols) == <<Word("RETURNING")>> \o (IF cols = <<>> THEN <<Word("1")>> ELSE Columns(cols))

InsertParts(p) ==
  <<Word("INSERT INTO")>>
  \o (IF p.cols = <<>>
      THEN IF p.array THEN <<Word("SELECT FROM"), Bind(p.body), Word("::json")>> ELSE <<Word("DEFAULT VALUES")>>
      ELSE Columns(p.cols) \o <<Word("SELECT")>> \o Columns(p.cols) \o JsonBody(p) \o WhereParts("pgrst_body", p.where))
  \o When(p.conflict, <<Word("ON CONFLICT DO")>> \o (IF p.cols = <<>> THEN <<Word("NOTHING")>> ELSE Columns(p.cols)))
  \o Returning(p.returning)
UpdateParts(p) ==
  IF p.cols = <<>> THEN <<Word("SELECT * WHERE false")>>
  ELSE <<Word("UPDATE SET")>> \o Columns(p.cols) \o JsonBody(p) \o WhereParts("t", p.where) \o Returning(p.returning)
DeleteParts(p) == <<Word("DELETE FROM")>> \o WhereParts("", p.where) \o Returning(p.returning)

\* build_call: named, positional or the whole body as one argument.
CallArguments(p) ==
  IF p.body # "" THEN <<Bind(p.body)>>
  ELSE IF p.args = <<>> THEN <<>>
  ELSE Join(",", [i \in 1..Len(p.args) |-> <<Word(p.args[i][1]), Word("=>"), Bind(p.args[i][2])>>])
CallParts(p) ==
  <<Word("SELECT")>> \o SelectParts(p.fields) \o <<Word("FROM f<")>> \o CallArguments(p) \o <<Word(">")>>
  \o WhereParts("", p.where) \o OrderTerms(p.order) \o RangeParts(p.range)

\* The library's own builders for a caller with values in hand.
ValuesInsert(rows) ==
  <<Word("INSERT INTO"), Word("VALUES")>>
  \o Join(",", [i \in 1..Len(rows) |-> Parens(Join(",", [j \in 1..Len(rows[i]) |-> <<Bind(rows[i][j])>>]))])
SetParts(sets, trees) ==
  <<Word("UPDATE"), Word("SET")>>
  \o Join(",", [i \in 1..Len(sets) |-> <<Name("", sets[i][1]), Word("="), Frag(<<Bind(sets[i][2])>>)>>])
  \o WhereParts("", trees)

StatementParts(p, range) ==
  CASE p.kind = "read" -> ReadParts(p, range)
    [] p.kind = "insert" -> InsertParts(p)
    [] p.kind = "update" -> UpdateParts(p)
    [] p.kind = "delete" -> DeleteParts(p)
    [] p.kind = "call" -> CallParts(p)
    [] p.kind = "values" -> ValuesInsert(p.rows)
    [] p.kind = "set" -> SetParts(p.sets, p.where)

(***************************************************************************)
(* The engine's embeds.  An item is [rel, as, via, inner, spread, cols,    *)
(* orders, items]; ctx is EmbedFilters: the values bound so far and the    *)
(* aliases handed out.                                                     *)
(***************************************************************************)
\* Mutant: placeholders start after the embeds' own values, not the query's.
ShiftFromEmbeds(sql, ctx) == RenumberParams(sql, Len(ctx.params))

ShiftPlaceholders(sql, ctx) == RenumberParams(sql, ctx.base + Len(ctx.params))

Bound(ctx, f) == [ctx EXCEPT !.params = @ \o f.params]

\* next_alias
Alias(n) == <<"e1", "e2", "e3", "e4", "e5", "e6">>[n]

\* predicate_for: the filters addressed at the path, by alias or by name.
RECURSIVE Predicates(_, _)
Predicates(trees, ctx) ==
  IF trees = <<>> THEN [toks |-> <<>>, ctx |-> ctx]
  ELSE LET f == Build(LogicParts("", Head(trees)))
           rest == Predicates(Tail(trees), Bound(ctx, f))
       IN [toks |-> ShiftPlaceholders(f.sql, ctx) \o When(Len(trees) > 1, <<W("AND")>>) \o rest.toks, ctx |-> rest.ctx]
PredicateFor(filters, path, names, ctx) ==
  LET mine == SelectSeq(filters, LAMBDA x : x[1] \in {path, names})
      p == Predicates([i \in 1..Len(mine) |-> mine[i][2]], ctx)
  IN IF mine = <<>> THEN p ELSE [p EXCEPT !.toks = <<W("(")>> \o @ \o <<W(")")>>]

\* What a relationship selects from, correlated to the parent.
Source(item, parent, child) ==
  IF item.via = "function" THEN <<W("f<"), <<"ref", parent, 0>>, W(">"), <<"as", child, 0>>, W("WHERE"), W("true")>>
  ELSE IF item.via = "junction"
  THEN <<<<"as", child, 0>>, W("JOIN"), <<"as", child \o "_j", 0>>, <<"ref", child \o "_j", 0>>, <<"ref", child, 0>>,
         W("WHERE"), <<"ref", child \o "_j", 0>>, <<"ref", parent, 0>>>>
  ELSE <<<<"as", child, 0>>, W("WHERE"), <<"ref", child, 0>>, W("="), <<"ref", parent, 0>>>>

AndWhere(where) == IF where = <<>> THEN <<>> ELSE <<W("AND")>> \o where

Exists(item, parent, child, where) ==
  <<W("EXISTS"), W("(")>> \o Source(item, parent, child) \o AndWhere(where) \o <<W(")")>>
Subselect(item, parent, child, select, where, order) ==
  <<W("(")>> \o select \o <<W("FROM")>> \o Source(item, parent, child) \o AndWhere(where) \o order \o <<W(")")>>

RECURSIVE JoinToks(_, _)
JoinToks(sep, lists) ==
  IF lists = <<>> THEN <<>>
  ELSE Head(lists) \o (IF Len(lists) > 1 THEN <<W(sep)>> \o JoinToks(sep, Tail(lists)) ELSE <<>>)

RECURSIVE YieldsColumns(_)
YieldsColumns(item) == item.cols # <<>> \/ \E i \in 1..Len(item.items) : YieldsColumns(item.items[i])

NoLevel == [exprs |-> <<>>, inner |-> <<>>, filterable |-> <<>>]

\* build_embed_expressions: one item after another, each with its own alias,
\* its filters bound before those of the items inside it.  A nested !inner
\* narrows the child; its own !inner is the caller's to apply.
RECURSIVE EmbedLevel(_, _, _, _, _, _)
LevelOf(item, parent, child, called, own, nested, rest) ==
  LET inner == JoinToks("AND", nested.level.inner)
      where == IF own.toks = <<>> THEN inner ELSE own.toks \o AndWhere(inner)
      select == JoinToks(",", [i \in 1..Len(item.cols) |-> << <<"ref", child, 0>> >>] \o nested.level.exprs)
  IN [level |->
        [exprs |-> When(YieldsColumns(item), <<Subselect(item, parent, child, select, where, <<>>)>>) \o rest.level.exprs,
         inner |-> When(item.inner, <<Exists(item, parent, child, where)>>) \o rest.level.inner,
         filterable |-> << <<called, Exists(item, parent, child, where)>> >> \o rest.level.filterable],
      ctx |-> rest.ctx]
EmbedLevel(parent, items, filters, ctx, path, names) ==
  LET item == Head(items)
      child == Alias(ctx.aliases + 1)
      called == IF item.as # "" THEN item.as ELSE item.rel
      Nested(own) == EmbedLevel(child, item.items, filters, own.ctx, Append(path, called), Append(names, item.rel))
      Whole(own, nested) ==
        LevelOf(item, parent, child, called, own, nested, EmbedLevel(parent, Tail(items), filters, nested.ctx, path, names))
      AfterOwn(own) == Whole(own, Nested(own))
  IN IF items = <<>> THEN [level |-> NoLevel, ctx |-> ctx]
     ELSE AfterOwn(PredicateFor(filters, Append(path, called), Append(names, item.rel), [ctx EXCEPT !.aliases = @ + 1]))

\* build_embed_orders: a scalar subselect under an alias of its own.
OrderSubselect(item, ctx) ==
  LET child == Alias(ctx.aliases + 1)
  IN Subselect(item, "src", child, << <<"ref", child, 0>> >>, <<>>, <<W("LIMIT 1")>>)

\* execute_plan: embeds around the query, !inner and is.null in its WHERE.
WrappedIn(j, query, level, ctx) ==
  LET unpaged == level.inner # <<>> \/ j.orderBy # 0
      body == IF unpaged /\ j.plan.kind = "read" THEN Build(ReadParts(j.plan, FALSE)).sql ELSE query.sql
      nulls == SelectSeq(level.filterable, LAMBDA x : x[1] = j.isNull)
      preds == level.inner \o [i \in 1..Len(nulls) |-> <<W("NOT")>> \o nulls[i][2]]
      sql == JoinToks(",", << <<W("SELECT"), <<"ref", "src", 0>> >> >> \o level.exprs)
             \o <<W("FROM"), W("(")>> \o body \o <<W(")"), <<"as", "src", 0>>>>
             \o (IF preds = <<>> THEN <<>> ELSE <<W("WHERE")>> \o JoinToks("AND", preds))
             \o When(j.orderBy # 0, <<W("ORDER BY")>> \o OrderSubselect(j.select[j.orderBy], ctx))
  IN [sql |-> sql, params |-> query.params \o ctx.params]
Wrapped(j, query) ==
  LET Around(built) == WrappedIn(j, query, built.level, built.ctx)
  IN Around(EmbedLevel("src", j.select, j.filters,
                       [base |-> Len(query.params), params |-> <<>>, aliases |-> 0], <<>>, <<>>))

(***************************************************************************)
(* Behaviour                                                               *)
(***************************************************************************)
BuildMain ==
  /\ main = Empty /\ stmt = Empty
  /\ main' = Build(StatementParts(job.plan, job.plan.range))
  /\ UNCHANGED <<job, stmt>>
Wrap ==
  /\ main # Empty /\ stmt = Empty
  /\ stmt' = IF job.select = <<>> THEN main ELSE Wrapped(job, main)
  /\ UNCHANGED <<job, main>>

SqlInit == job \in Jobs /\ main = Empty /\ stmt = Empty
SqlNext == BuildMain \/ Wrap

(***************************************************************************)
(* Properties                                                              *)
(***************************************************************************)
\* What the parts say, with the values where they are bound.
RECURSIVE Written(_)
Written(parts) ==
  IF parts = <<>> THEN <<>>
  ELSE Written(SubSeq(parts, 1, Len(parts) - 1))
       \o LET p == parts[Len(parts)]
          IN CASE p.k = "tok" -> <<p.t>>
               [] p.k = "val" -> << <<"val", p.v, 0>> >>
               [] p.k = "frag" -> Written(p.parts)
\* The statement as PostgreSQL reads it: the values in the placeholders' places.
AsRead(f) ==
  [i \in 1..Len(f.sql) |->
     CASE f.sql[i][1] = "ph" -> IF f.sql[i][3] <= Len(f.params) THEN <<"val", f.params[f.sql[i][3]], 0>> ELSE <<"unbound", "", 0>>
       [] OTHER -> f.sql[i]]

\* Two quoted names whose text holds $n, alike but for the number.
NamesWithDollar(s, t) == s[1] = "$" /\ t[1] = "$" /\ s[2] = t[2]

\* However deep the fragments nest, each placeholder of the finished statement
\* reads the value its own clause bound ("placeholder N in the wrapped SQL lines
\* up with params[N - 1]"), and every other token is as it was written, with one
\* exception: in a quoted name whose text holds $n, renumber_params and
\* shift_placeholders move that number too, and the statement names another
\* column than the one asked for.
ValuesInPlace ==
  main # Empty =>
    LET read == AsRead(main)
        written == Written(StatementParts(job.plan, job.plan.range))
    IN Len(read) = Len(written) /\ \A i \in 1..Len(read) : read[i] = written[i] \/ NamesWithDollar(read[i], written[i])

\* The values inside the embeds are those the request addressed to each embed,
\* in the predicate of that embed and of no other: each filter's column is
\* followed by its own value (columns without $n in their names, as above).
RECURSIVE FiltersOf(_)
FiltersOf(tree) == IF "col" \in DOMAIN tree THEN {tree} ELSE UNION {FiltersOf(tree.kids[i]) : i \in 1..Len(tree.kids)}
EmbedFilters(j) == UNION {FiltersOf(j.filters[i][2]) : i \in 1..Len(j.filters)}
EmbedValuesInPlace ==
  stmt # Empty =>
    LET read == AsRead(stmt)
    IN \A f \in {g \in EmbedFilters(job) : g.op = "simple"} : \A i \in 1..Len(read) :
         read[i] = <<"col", f.col[1], 0>> => read[i + 2] = <<"val", f.vals[1], 0>>

\* Whether a filter written at this item, or inside it, reaches the statement.
RECURSIVE Applied(_, _, _)
Applied(items, j, top) ==
  \A i \in 1..Len(items) :
    /\ YieldsColumns(items[i]) \/ items[i].inner \/ (top /\ j.isNull = (IF items[i].as # "" THEN items[i].as ELSE items[i].rel))
    /\ Applied(items[i].items, j, FALSE)

\* No value is bound that the statement does not read ("left unapplied, the
\* query is sent with more parameters than it uses"), where every embed
\* contributes to the answer or to the parents kept.
EveryValueRead ==
  (stmt # Empty /\ Applied(job.select, job, TRUE)) =>
    \A n \in 1..Len(stmt.params) : \E i \in 1..Len(stmt.sql) : stmt.sql[i][1] = "ph" /\ stmt.sql[i][3] = n

\* An alias is used only inside the subselect that declares it, an EXISTS
\* repeated elsewhere included ("The child keeps the same alias it has in the
\* embed subselect. The two are sibling scopes, never nested").
RECURSIVE Depths(_)
Depths(ts) ==
  IF ts = <<>> THEN <<0>>
  ELSE LET before == Depths(SubSeq(ts, 1, Len(ts) - 1))
           d == before[Len(before)]
       IN Append(before, IF ts[Len(ts)] = W("(") THEN d + 1 ELSE IF ts[Len(ts)] = W(")") THEN d - 1 ELSE d)
InGroupOf(depths, i, d) ==
  \A k \in (IF i < d THEN i ELSE d)..(IF i < d THEN d ELSE i) : depths[k] >= depths[d]
AliasesInScope ==
  stmt # Empty =>
    \E depths \in {Depths(stmt.sql)} :
      \A i \in {k \in 1..Len(stmt.sql) : stmt.sql[k][1] = "ref"} :
        \E d \in 1..Len(stmt.sql) : stmt.sql[d] = <<"as", stmt.sql[i][2], 0>> /\ InGroupOf(depths, i, d)
\* Two subselects that declare one alias are never one inside the other.
AliasesNeverNest ==
  stmt # Empty =>
    \E depths \in {Depths(stmt.sql)} :
      \A d, e \in {k \in 1..Len(stmt.sql) : stmt.sql[k][1] = "as"} :
        (d # e /\ stmt.sql[d] = stmt.sql[e]) => ~InGroupOf(depths, d, e)

\* SQL's own reading of AND, OR, NOT and parentheses over comparisons.
Splits(ts, word) ==
  IF \A i \in 1..Len(ts) : ts[i] # W(word) THEN {}
  ELSE UNION {{i \in 1..Len(ts) : ts[i] = W(word) /\ depths[i] = 0} : depths \in {Depths(ts)}}
Least(S) == CHOOSE x \in S : \A y \in S : x <= y
RECURSIVE Holds(_, _)
Holds(ts, true) ==
  CASE Splits(ts, "OR") # {} -> LET i == Least(Splits(ts, "OR"))
                                IN Holds(SubSeq(ts, 1, i - 1), true) \/ Holds(SubSeq(ts, i + 1, Len(ts)), true)
    [] Splits(ts, "OR") = {} /\ Splits(ts, "AND") # {} ->
         LET i == Least(Splits(ts, "AND"))
         IN Holds(SubSeq(ts, 1, i - 1), true) /\ Holds(SubSeq(ts, i + 1, Len(ts)), true)
    [] OTHER -> IF ts[1] = W("NOT") THEN ~Holds(Tail(ts), true)
                ELSE IF ts[1] = W("(") THEN Holds(SubSeq(ts, 2, Len(ts) - 1), true)
                ELSE \E c \in true : \E i \in 1..Len(ts) : ts[i][1] \in {"col", "$"} /\ ts[i][2] = c
RECURSIVE Means(_, _)
Means(tree, true) ==
  IF "col" \in DOMAIN tree THEN tree.neg # (tree.col[1] \in true)
  ELSE tree.neg # (IF tree.logic = "AND" THEN \A i \in 1..Len(tree.kids) : Means(tree.kids[i], true)
                   ELSE \E i \in 1..Len(tree.kids) : Means(tree.kids[i], true))

\* The WHERE PostgreSQL evaluates is the tree the request wrote, whichever
\* comparisons hold: negation and grouping survive being joined to the rest
\* (which column a name that holds $n comes to name is not looked at here).
WhereMeansTheTree ==
  main # Empty =>
    LET trees == job.plan.where
        toks == Build(Join("AND", [i \in 1..Len(trees) |-> LogicParts("", trees[i])])).sql
    IN trees # <<>> => \A true \in SUBSET UNION {{f.col[1] : f \in FiltersOf(trees[i])} : i \in 1..Len(trees)} :
         Holds(toks, true) <=> \A i \in 1..Len(trees) : Means(trees[i], true)

\* The statement that is sent means the plan: every value stands in its own
\* clause and every alias in its own scope, and the conditions group as written.
\* Names that hold $n are the exception: they are sent with another number.
StatementMeansThePlan ==
  /\ ValuesInPlace /\ EmbedValuesInPlace /\ EveryValueRead
  /\ AliasesInScope /\ AliasesNeverNest /\ WhereMeansTheTree
=============================================================================
