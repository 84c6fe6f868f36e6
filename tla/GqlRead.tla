------------------------------ MODULE GqlRead ------------------------------
(***************************************************************************)
(* A GraphQL read: a list, a row by key, or an aggregate over a table,     *)
(* with the rows it embeds, as the role that asks is allowed to read them. *)
(* A statement is modelled by the rows it selects.  A boolean expression   *)
(* is the sequence of its object's entries; a condition is true, unknown   *)
(* or false, and an empty one is left out of the SQL.  Tables are          *)
(* sequences of rows, in the order the heap happens to hold them.          *)
(***************************************************************************)
EXTENDS Integers, Sequences, FiniteSets, TLC

CONSTANTS Reads,    \* the reads asked: [db, ctx, query, writes]
          Keys      \* relationships: name -> [from, far, local, foreign, list]

VARIABLES readCase, readDb, readPhase, numbers, answer

readVars == <<readCase, readDb, readPhase, numbers, answer>>

Null == -1
False == 0
Unknown == 1
True == 2
Truth(b) == IF b THEN True ELSE False
Lowest(seq) == CHOOSE v \in {seq[i] : i \in 1..Len(seq)} : \A i \in 1..Len(seq) : v <= seq[i]
Highest(seq) == CHOOSE v \in {seq[i] : i \in 1..Len(seq)} : \A i \in 1..Len(seq) : v >= seq[i]
RowSet(seq) == {seq[i] : i \in 1..Len(seq)}

RECURSIVE Concat(_)
Concat(parts) == IF parts = <<>> THEN <<>> ELSE Head(parts) \o Concat(Tail(parts))

\* Boolean expressions: an entry carries the fields of every kind of entry.
Entry(key) == [key |-> key, name |-> "", op |-> "", vals |-> <<>>, var |-> "", other |-> "", dollar |-> FALSE, of |-> <<>>]
Col(name, op, vals) == [Entry("col") EXCEPT !.name = name, !.op = op, !.vals = vals]

(***************************************************************************)
(* What a role may read                                                    *)
(***************************************************************************)
\* ctx: [role, session, doc]; doc[role][table] is the select permission.
Unrestricted(ctx) == ctx.role \in {"", "admin"}
Grants(ctx, t) == /\ ctx.role \in DOMAIN ctx.doc
                  /\ t \in DOMAIN ctx.doc[ctx.role]

RECURSIVE SessionNames(_)
SessionNames(expr) ==
  UNION {LET x == expr[i] IN (IF x.var = "" THEN {} ELSE {x.var}) \cup UNION {SessionNames(x.of[j]) : j \in 1..Len(x.of)} : i \in 1..Len(expr)}

\* The older spellings, equality written without saying so, and the caller's
\* session variables.
Spelled(key) == CASE key = "$and" -> "_and" [] key = "$or" -> "_or" [] key = "$not" -> "_not" [] OTHER -> key

RECURSIVE Rewrite(_, _)
Rewrite(expr, session) ==
  [i \in 1..Len(expr) |->
    LET x == expr[i]
    IN [x EXCEPT !.key = Spelled(x.key),
                 !.op = IF x.key = "col" /\ x.op = "" THEN "_eq" ELSE x.op,
                 !.vals = IF x.var = "" THEN x.vals ELSE session[x.var],
                 !.var = "",
                 !.of = [j \in 1..Len(x.of) |-> Rewrite(x.of[j], session)]]]

PermissionWhere(filter, session) ==
  LET w == Rewrite(filter, session) IN IF w = <<>> THEN <<>> ELSE <<w>>

ReadPredicate(ctx, t) == IF Unrestricted(ctx) THEN <<>> ELSE PermissionWhere(ctx.doc[ctx.role][t].filter, ctx.session)
ReadLimit(ctx, t) == IF Unrestricted(ctx) THEN <<>> ELSE ctx.doc[ctx.role][t].limit

ReadFault(ctx, t) ==
  CASE Unrestricted(ctx) -> "none"
    [] ~Grants(ctx, t) -> "permission-error"
    [] ~(SessionNames(ctx.doc[ctx.role][t].filter) \subseteq DOMAIN ctx.session) -> "not-found"
    [] OTHER -> "none"

AndPredicates(requested, permission) ==
  LET p == IF permission = <<>> THEN <<>> ELSE <<[Entry("_permission") EXCEPT !.of = permission]>>
  IN CASE requested = <<>> /\ p = <<>> -> <<>>
       [] requested = <<>> -> p
       [] p = <<>> -> requested
       [] OTHER -> <<[Entry("_and") EXCEPT !.of = <<requested, p>>]>>

(***************************************************************************)
(* Conditions                                                              *)
(***************************************************************************)
\* A scope: the row a condition is about, the row `$` names, and the caller
\* whose permissions the rows it reaches are read under.
Scope(row, caller) == [row |-> row, root |-> row, caller |-> caller]
Under(s, row) == [s EXCEPT !.row = row]
AsSystem(s) == [row |-> s.row, root |-> s.row, caller |-> <<>>]

CompareTo(op, x, y) ==
  IF op = "_is_null" THEN Truth((x = Null) = (y = 1))
  ELSE IF x = Null \/ y = Null THEN Unknown
  ELSE Truth(CASE op \in {"_eq", "_ceq"} -> x = y [] op \in {"_neq", "_cne"} -> x # y [] op = "_gt" -> x > y [] op = "_lt" -> x < y)

AnyOf(x, vals) == IF \E i \in 1..Len(vals) : CompareTo("_eq", x, vals[i]) = True THEN True
                  ELSE IF x = Null \/ \E i \in 1..Len(vals) : vals[i] = Null THEN Unknown ELSE False
Comparison(op, x, vals) ==
  CASE op \in {"_in", "_nin"} /\ vals = <<>> -> Truth(op = "_nin")
    [] op = "_in" -> AnyOf(x, vals)
    [] op = "_nin" -> True - AnyOf(x, vals)
    [] OTHER -> CompareTo(op, x, vals[1])

RelatedRows(rel, row, db) ==
  SelectSeq(db[Keys[rel].far], LAMBDA far : CompareTo("_eq", row[Keys[rel].local], far[Keys[rel].foreign]) = True)

RECURSIVE Condition(_, _, _), EntryCondition(_, _, _)

Passes(expr, s, db) == Condition(expr, s, db) \in {<<>>, <<True>>}

\* Mutant: the far table's own permission is not asked.
ExistsAnyRow(x, s, db) ==
  LET rows == RelatedRows(x.name, s.row, db)
  IN Truth(\E i \in 1..Len(rows) : Passes(x.of[1], Under(s, rows[i]), db))

\* EXISTS over a relationship: the far rows the condition holds of, and which
\* the caller may read.
ExistsSql(x, s, db) ==
  LET far == Keys[x.name].far
      own == IF s.caller = <<>> THEN <<>> ELSE ReadPredicate(s.caller[1], far)
      all == AndPredicates(x.of[1], own)
      rows == RelatedRows(x.name, s.row, db)
  IN Truth(\E i \in 1..Len(rows) : Passes(all, Under(s, rows[i]), db))

TableExistsSql(x, s, db) ==
  LET sys == [s EXCEPT !.caller = <<>>]
  IN Truth(\E i \in 1..Len(db[x.name]) : Passes(x.of[1], Under(sys, db[x.name][i]), db))

\* A count of the related rows its filter keeps, compared.
AggregatePredicateSql(x, s, db) ==
  LET rows == SelectSeq(RelatedRows(x.name, s.row, db), LAMBDA far : x.of = <<>> \/ Passes(x.of[1], Under(s, far), db))
  IN Comparison(x.op, Len(rows), x.vals)

\* A bare name is a column of this row, a `$` name one of the row the
\* permission is written on.
OtherColumn(x, s) == IF x.dollar THEN s.root[x.other] ELSE s.row[x.other]

\* What is left of a list of conditions when those that say nothing are gone.
Joined(key, parts) ==
  IF parts # <<>> THEN <<IF key = "_or" THEN Highest(parts) ELSE Lowest(parts)>>
  ELSE IF key = "_or" THEN <<False>> ELSE <<>>
Negated(c) == IF c = <<>> THEN <<>> ELSE <<True - c[1]>>

EntryCondition(x, s, db) ==
  CASE x.key \in {"_and", "_or"} -> Joined(x.key, Concat([i \in 1..Len(x.of) |-> Condition(x.of[i], s, db)]))
    [] x.key = "_not" -> Negated(Condition(x.of[1], s, db))
    [] x.key = "_permission" -> Condition(x.of[1], AsSystem(s), db)
    [] x.key = "_exists" -> <<TableExistsSql(x, s, db)>>
    [] x.key = "rel" -> <<ExistsSql(x, s, db)>>
    [] x.key = "agg" -> <<AggregatePredicateSql(x, s, db)>>
    [] x.key = "col" -> <<Comparison(x.op, s.row[x.name], x.vals)>>
    [] x.key = "other" -> <<CompareTo(x.op, s.row[x.name], OtherColumn(x, s))>>

Condition(expr, s, db) == Joined("_and", Concat([i \in 1..Len(expr) |-> EntryCondition(expr[i], s, db)]))

(***************************************************************************)
(* Ordering, distinct, limits                                              *)
(***************************************************************************)
\* A term: [rel, col, dir]; rel "" is a column of the row itself, and col
\* "count" under a list relationship counts its rows.
TermValue(term, row, db) ==
  IF term.rel = "" THEN row[term.col]
  ELSE LET rows == RelatedRows(term.rel, row, db)
       IN IF Keys[term.rel].list THEN Len(rows) ELSE IF rows = <<>> THEN Null ELSE rows[1][term.col]

NullsFirst(dir) == dir \in {"asc_nulls_first", "desc", "desc_nulls_first"}
Descending(dir) == dir \in {"desc", "desc_nulls_first", "desc_nulls_last"}
Before(dir, x, y) ==
  CASE x = Null \/ y = Null -> x # y /\ (x = Null) = NullsFirst(dir)
    [] OTHER -> IF Descending(dir) THEN x > y ELSE x < y

\* A related column's term is taken apart at its last space, which leaves two
\* words of a three-word direction inside the subselect.
OrderIsSql(order) == \A i \in 1..Len(order) :
  order[i].rel # "" /\ ~Keys[order[i].rel].list => order[i].dir \in {"asc", "desc"}

Precedes(order, a, b, db) ==
  \E i \in 1..Len(order) :
    /\ Before(order[i].dir, TermValue(order[i], a, db), TermValue(order[i], b, db))
    /\ \A j \in 1..(i - 1) : TermValue(order[j], a, db) = TermValue(order[j], b, db)

\* The sort keeps the heap's order among equals, as one plan does.
Sorted(rows, order, db) ==
  LET at == SortSeq([i \in 1..Len(rows) |-> i],
                    LAMBDA i, j : \/ Precedes(order, rows[i], rows[j], db)
                                  \/ ~Precedes(order, rows[j], rows[i], db) /\ i < j)
  IN [i \in 1..Len(rows) |-> rows[at[i]]]

\* The ordering a distinct read runs under, or a refusal.
DistinctOnClause(distinct, order) ==
  LET leading == {order[i].col : i \in {k \in 1..Len(order) : k <= Len(distinct) /\ order[k].rel = ""}}
  IN IF distinct = <<>> THEN [ok |-> TRUE, order |-> order]
     ELSE IF order = <<>> THEN [ok |-> TRUE, order |-> [i \in 1..Len(distinct) |-> [rel |-> "", col |-> distinct[i], dir |-> "asc"]]]
     ELSE [ok |-> Len(order) >= Len(distinct) /\ RowSet(distinct) \subseteq leading, order |-> order]

DistinctRows(rows, distinct) ==
  LET same(i, j) == \A k \in 1..Len(distinct) : rows[i][distinct[k]] = rows[j][distinct[k]]
      pick(at) == [i \in 1..Len(at) |-> rows[at[i]]]
  IN IF distinct = <<>> THEN rows
     ELSE pick(SelectSeq([i \in 1..Len(rows) |-> i], LAMBDA i : \A j \in 1..(i - 1) : ~same(i, j)))

LowerOf(a, b) == IF a = <<>> THEN b ELSE IF b = <<>> THEN a ELSE IF a[1] <= b[1] THEN a ELSE b
Ceiling(ctx, t) == LowerOf(ctx.maxRows, ReadLimit(ctx, t))

Page(rows, limit, offset) ==
  LET rest == SubSeq(rows, offset + 1, Len(rows))
  IN IF limit = <<>> \/ limit[1] >= Len(rest) THEN rest ELSE SubSeq(rest, 1, limit[1])

(***************************************************************************)
(* Embeds and answers                                                      *)
(***************************************************************************)

\* What an embed's arguments and the far table's permission leave of the rows
\* one parent points at.
EmbedNarrowing(e, row, ctx, db) ==
  LET far == Keys[e.rel].far
      own == ReadPredicate(ctx, far)
      kept == SelectSeq(RelatedRows(e.rel, row, db), LAMBDA c : Passes(AndPredicates(e.where, own), Scope(c, <<ctx>>), db))
      clause == DistinctOnClause(e.distinct, e.order)
  IN Page(DistinctRows(Sorted(kept, clause.order, db), e.distinct), LowerOf(e.limit, Ceiling(ctx, far)), e.offset)

RECURSIVE EmbedAnswers(_, _, _, _, _)
\* Rows with the embeds asked of them, read from the row the statement built.
Shown(rows, asked, built, ctx, db) ==
  [i \in 1..Len(rows) |-> [id |-> rows[i].id, embeds |-> EmbedAnswers(asked, built, rows[i], ctx, db)]]
\* The rows an embed answers for one parent, with their own embeds; a to-one
\* relationship's first; an aggregate's count beside them.  What the statement
\* built is keyed by the field's name and not by its alias, so of several
\* selections of one field the last answers them all, and what it does not
\* select is null (an error where that is a list; Reads asks for none such).
EmbedAnswers(asked, built, row, ctx, db) ==
  LET first(e, rows) == IF Keys[e.rel].list \/ rows = <<>> THEN rows ELSE <<rows[1]>>
      one(e, b, rows) == [rel |-> e.rel, count |-> IF e.agg THEN Len(rows) ELSE 0, rows |-> Shown(first(e, rows), e.embeds, b.embeds, ctx, db)]
      named(e) == SelectSeq(built, LAMBDA b : b.rel = e.rel /\ b.agg = e.agg)
      last(e) == named(e)[Len(named(e))]
  IN [k \in 1..Len(asked) |-> IF named(asked[k]) = <<>> THEN [rel |-> asked[k].rel, count |-> 0, rows |-> <<>>]
                               ELSE one(asked[k], last(asked[k]), EmbedNarrowing(last(asked[k]), row, ctx, db))]

SourceRows(q, ctx, db) ==
  LET keyed == IF q.kind = "by_pk" THEN SelectSeq(db[q.table], LAMBDA r : r.id = q.pk) ELSE db[q.table]
      requested == IF q.kind = "by_pk" THEN <<>> ELSE q.where
      predicate == AndPredicates(requested, ReadPredicate(ctx, q.table))
  IN SelectSeq(keyed, LAMBDA r : Passes(predicate, Scope(r, <<ctx>>), db))

QueryRows(q, ctx, db) ==
  LET clause == DistinctOnClause(q.distinct, q.order)
      limit == IF q.kind = "by_pk" THEN <<1>> ELSE LowerOf(q.limit, Ceiling(ctx, q.table))
      rows == Page(DistinctRows(Sorted(SourceRows(q, ctx, db), clause.order, db), q.distinct), limit, q.offset)
  IN Shown(rows, q.embeds, q.embeds, ctx, db)

\* What `aggregate` counts: the requested page of the rows, whatever the ceiling.
CountedRows(q, ctx, db) == Page(Sorted(SourceRows(q, ctx, db), q.order, db), q.limit, q.offset)
NodeRows(q, ctx, db) == Shown(Page(Sorted(SourceRows(q, ctx, db), q.order, db), LowerOf(q.limit, Ceiling(ctx, q.table)), q.offset), q.embeds, q.embeds, ctx, db)

RECURSIVE ExprTables(_), EmbedTables(_), EmbedClauses(_)
ExprTables(expr) ==
  UNION {(IF expr[i].key = "rel" THEN {Keys[expr[i].name].far} ELSE {})
           \cup UNION {ExprTables(expr[i].of[j]) : j \in 1..Len(expr[i].of)} : i \in 1..Len(expr)}
EmbedTables(embeds) == UNION {{Keys[embeds[k].rel].far} \cup ExprTables(embeds[k].where) \cup EmbedTables(embeds[k].embeds) : k \in 1..Len(embeds)}
EmbedClauses(embeds) == \A k \in 1..Len(embeds) : DistinctOnClause(embeds[k].distinct, embeds[k].order).ok /\ EmbedClauses(embeds[k].embeds)

\* The tables whose permission the statement is compiled with, and why it is
\* refused before it is sent.
TablesRead(q) == {q.table} \cup ExprTables(q.where) \cup EmbedTables(q.embeds)
ReadRefusal(q, ctx) ==
  LET faults == {ReadFault(ctx, t) : t \in TablesRead(q)} \ {"none"}
  IN CASE faults # {} -> CHOOSE f \in faults : TRUE
       [] ~DistinctOnClause(q.distinct, q.order).ok \/ ~EmbedClauses(q.embeds) -> "validation-failed"
       [] ~OrderIsSql(q.order) -> "syntax-error"
       [] OTHER -> "none"

(***************************************************************************)
(* The state machine                                                       *)
(***************************************************************************)
Asked == readCase

ReadInit ==
  /\ readCase \in Reads
  /\ readDb = readCase.db
  /\ readPhase = "asked"
  /\ numbers = <<>>
  /\ answer = <<>>

RefuseRead ==
  /\ readPhase = "asked"
  /\ ReadRefusal(Asked.query, Asked.ctx) # "none"
  /\ readPhase' = "refused"
  /\ UNCHANGED <<readCase, readDb, numbers, answer>>

ResolveQuery ==
  /\ readPhase = "asked"
  /\ Asked.query.kind \in {"list", "by_pk"}
  /\ ReadRefusal(Asked.query, Asked.ctx) = "none"
  /\ answer' = QueryRows(Asked.query, Asked.ctx, readDb)
  /\ readPhase' = "done"
  /\ UNCHANGED <<readCase, readDb, numbers>>

\* An aggregate's two halves are two statements, each its own transaction.
ResolveAggregate ==
  /\ readPhase = "asked"
  /\ Asked.query.kind = "aggregate"
  /\ ReadRefusal(Asked.query, Asked.ctx) = "none"
  /\ numbers' = <<Len(CountedRows(Asked.query, Asked.ctx, readDb))>>
  /\ readPhase' = "counted"
  /\ UNCHANGED <<readCase, readDb, answer>>

ResolveNodes ==
  /\ readPhase = "counted"
  /\ answer' = NodeRows(Asked.query, Asked.ctx, readDb)
  /\ readPhase' = "done"
  /\ UNCHANGED <<readCase, readDb, numbers>>

\* Somebody else commits.
OtherCommit ==
  /\ readPhase = "counted"
  /\ \E d \in Asked.writes : readDb' = d /\ readDb # d
  /\ UNCHANGED <<readCase, readPhase, numbers, answer>>

ReadNext == RefuseRead \/ ResolveQuery \/ ResolveAggregate \/ ResolveNodes \/ OtherCommit

(***************************************************************************)
(* Properties                                                              *)
(***************************************************************************)
\* The rows each table holds for a role, by its permissions and nothing else,
\* and the same caller with nothing left to filter.
GrantedDb(ctx, db) ==
  [t \in DOMAIN db |->
    IF Unrestricted(ctx) THEN db[t]
    ELSE IF ~Grants(ctx, t) \/ ReadFault(ctx, t) # "none" THEN <<>>
    ELSE SelectSeq(db[t], LAMBDA r : Passes(Rewrite(ctx.doc[ctx.role][t].filter, ctx.session), AsSystem(Scope(r, <<>>)), db))]
Opened(ctx) == IF Unrestricted(ctx) THEN ctx
               ELSE [ctx EXCEPT !.doc[ctx.role] = [t \in DOMAIN @ |-> [@[t] EXCEPT !.filter = <<>>]]]

RECURSIVE Plain(_), PlainEmbeds(_)
Plain(expr) == \A i \in 1..Len(expr) : expr[i].key # "agg" /\ \A j \in 1..Len(expr[i].of) : Plain(expr[i].of[j])
PlainEmbeds(embeds) == \A k \in 1..Len(embeds) : Plain(embeds[k].where) /\ PlainEmbeds(embeds[k].embeds)
PlainQuery(q) == Plain(q.where) /\ PlainEmbeds(q.embeds) /\ \A i \in 1..Len(q.order) : q.order[i].rel = ""

RECURSIVE OnlyGranted(_, _, _)
OnlyGranted(rows, t, granted) ==
  \A i \in 1..Len(rows) :
    /\ rows[i].id \in {r.id : r \in RowSet(granted[t])}
    /\ \A k \in 1..Len(rows[i].embeds) : OnlyGranted(rows[i].embeds[k].rows, Keys[rows[i].embeds[k].rel].far, granted)

\* role.rs, handler.rs permission_predicate and exists_sql: whatever a role
\* asks, every row it is shown, by key, listed or embedded at any depth, is one
\* its permissions grant.  And where what it asks is Plain, filters across
\* relationships and counts included, it is answered as an unfiltered reader
\* of a database that holds only those rows would be.  Not Plain, because the
\* code reads the far table there without the role's permission on it, against
\* what :7273-7276 says of EXISTS: an aggregate of a relationship in a
\* condition (:7405) and an ordering by a relationship (:8138-8220).  Which
\* rows are chosen, and their order, may then tell of others.  (_exists reads
\* without it too, and says so (:7328); only a permission can write it.)
RoleReadsItsOwnRows ==
  LET q == Asked.query
      granted == GrantedDb(Asked.ctx, readDb)
      from(ctx, mine) ==
       /\ readPhase = "done" /\ q.kind # "aggregate" => answer = QueryRows(q, ctx, mine)
       /\ readPhase = "done" /\ q.kind = "aggregate" => answer = NodeRows(q, ctx, mine)
       /\ readPhase = "counted" /\ readDb = Asked.db => numbers = <<Len(CountedRows(q, ctx, mine))>>
  IN /\ readPhase = "done" => OnlyGranted(answer, q.table, granted)
     /\ PlainQuery(q) => from(Opened(Asked.ctx), granted)

\* build_embed_expressions: the rows embedded under a parent are the rows the
\* far table's own root field answers when asked for that parent's key with
\* the same arguments, and a nested count is their number: of selections of
\* one field under several aliases, for the last, which answers them all.
EmbedMatchesRoot ==
  (readPhase = "done" /\ Asked.query.kind = "list") =>
    \A i \in 1..Len(answer), k \in {n \in 1..Len(Asked.query.embeds) : \A m \in (n + 1)..Len(Asked.query.embeds) :
         <<Asked.query.embeds[m].rel, Asked.query.embeds[m].agg>> # <<Asked.query.embeds[n].rel, Asked.query.embeds[n].agg>>} :
      LET e == Asked.query.embeds[k]
          rel == Keys[e.rel]
          row == CHOOSE r \in RowSet(readDb[rel.from]) : r.id = answer[i].id
          key == Col(rel.foreign, "_eq", <<row[rel.local]>>)
          agrees(root) == /\ rel.list => answer[i].embeds[k].rows = root
                          /\ e.agg => answer[i].embeds[k].count = Len(root)
      IN agrees(QueryRows([kind |-> "list", table |-> rel.far, pk |-> 0, order |-> e.order, distinct |-> e.distinct, limit |-> e.limit,
                             offset |-> e.offset, embeds |-> e.embeds,
                             where |-> <<[Entry("_and") EXCEPT !.of = <<<<key>>, e.where>>]>>], Asked.ctx, readDb))

\* aggregate_value: the count is of every row the role may read that the
\* request's own limit and offset leave, whatever the ceilings; and unless
\* someone commits between the two halves it covers the nodes beside it, and
\* is their number when no ceiling is lower.
CountDescribesNodes ==
  (readPhase \in {"counted", "done"} /\ Asked.query.kind = "aggregate" /\ readDb = Asked.db) =>
    LET q == Asked.query
        ceiling == Ceiling(Asked.ctx, q.table)
        left == Len(SourceRows(q, Asked.ctx, readDb)) - q.offset
    IN /\ numbers[1] = Highest(<<0, IF q.limit = <<>> THEN left ELSE Lowest(<<left, q.limit[1]>>)>>)
       /\ readPhase = "done" => Len(answer) <= numbers[1]
       /\ (readPhase = "done" /\ (ceiling = <<>> \/ ceiling[1] >= numbers[1])) => Len(answer) = numbers[1]

\* aggregate_predicate_sql beside exists_sql: for a reader no permission
\* narrows, "no related row" and "a count of zero" are the same condition, and
\* so are "some" and "more than zero", under any filter and any nulls.
CountAgreesWithExists ==
  Unrestricted(Asked.ctx) =>
    \A rel \in {k \in DOMAIN Keys : Keys[k].list} : \A row \in RowSet(readDb[Keys[rel].from]) :
      LET s == Scope(row, <<Asked.ctx>>)
          inner == IF Asked.query.table = Keys[rel].far THEN Asked.query.where ELSE <<>>
          some == [Entry("rel") EXCEPT !.name = rel, !.of = <<inner>>]
          counted(op) == [Entry("agg") EXCEPT !.name = rel, !.of = <<inner>>, !.op = op, !.vals = <<0>>]
      IN /\ Condition(<<some>>, s, readDb) = Condition(<<counted("_gt")>>, s, readDb)
         /\ Condition(<<[Entry("_not") EXCEPT !.of = <<<<some>>>>]>>, s, readDb) = Condition(<<counted("_eq")>>, s, readDb)

\* However rows are reached -- at a root, by key, embedded, counted or in a
\* condition -- they are the same rows, and the ones the role is granted, but
\* for the conditions and orderings RoleReadsItsOwnRows names.
EveryReadAgrees == RoleReadsItsOwnRows /\ EmbedMatchesRoot /\ CountDescribesNodes /\ CountAgreesWithExists
=============================================================================
