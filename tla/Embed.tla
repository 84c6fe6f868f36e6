-------------------------------- MODULE Embed --------------------------------
(***************************************************************************)
(* postrust-core/src/embed.rs: what an embedded relationship contains.     *)
(* The SQL fragments EmbedPlan writes are given by the rows PostgreSQL     *)
(* answers them with: a row is a function from its columns, Null the NULL  *)
(* that equals nothing, and a view's rows are its base's under the names   *)
(* the view gives the columns.                                             *)
(***************************************************************************)
EXTENDS SchemaCache, TLC

CONSTANT Contents(_)   \* the data a catalog's tables may hold: table -> set of rows

VARIABLE data          \* <<>> until the tables are filled

embedVars == <<schemaVars, data>>

Null == 0

\* The first base a view is over; its columns that come from it.
BaseOf(v) == VC[CHOOSE i \in 1..Len(VC) : VC[i].view = v].base
ViewRow(v, row) ==
  LET from == {i \in 1..Len(VC) : VC[i].view = v}
  IN [c \in {VC[i].as : i \in from} |-> row[VC[CHOOSE i \in from : VC[i].as = c].column]]
RowsOf(t) ==
  IF t \in DOMAIN data THEN data[t] ELSE {ViewRow(t, row) : row \in data[BaseOf(t)]}
Equal(a, b) == a = b /\ a # Null

(***************************************************************************)
(* EmbedPlan                                                               *)
(***************************************************************************)
Plan(local, foreign, r, isList, columns, parentCols, childCols) ==
  [local |-> local, foreign |-> foreign, table |-> r.far, isList |-> isList, columns |-> columns,
   junction |-> r.via, parentCols |-> parentCols, childCols |-> childCols, function |-> r.fn]

Resolve(r) ==
  CASE Computed(r) -> Plan("", "", r, r.card = "computed-many", <<>>, <<>>, <<>>)
    [] r.card = "many-to-many" -> Plan(r.cols[1][1], r.tgt[1][2], r, TRUE, <<>>, r.cols, r.tgt)
    [] OTHER -> Plan(r.cols[1][1], r.cols[1][2], r, ~IsToOne(r), r.cols, <<>>, <<>>)
\* What a plan is refused for: a key to a table the API does not expose.
ResolveError(r) == ~Computed(r) /\ r.card # "many-to-many" /\ r.far \notin catalog.exposed

\* One equality per pair of columns.
\* Mutant: only the first pair.
FirstPair(pairs, near, far) == Equal(near[pairs[1][1]], far[pairs[1][2]])

Equalities(pairs, near, far) == \A i \in 1..Len(pairs) : Equal(near[pairs[i][1]], far[pairs[i][2]])

Correlation(plan, parent, child) == Equalities(plan.columns, parent, child)
ChildJoin(plan, j, child) == Equalities(plan.childCols, j, child)
\* Mutant: a junction is entered by the first column of its key alone.
FirstOfParent(plan, parent, j) == FirstPair(plan.parentCols, parent, j)

ParentCorrelation(plan, parent, j) == Equalities(plan.parentCols, parent, j)

\* A set-returning function of the parent's row: here, the tasks a user is
\* assigned.
ComputedRows(parent) ==
  {task \in data[<<"api", "tasks">>] :
     \E t \in {u \in DOMAIN data : u[2] = "ut"} : \E j \in data[t] :
        j.user_id = parent.id /\ j.task_id = task.id}

\* The rows of one parent before LIMIT and OFFSET: the key's, or those the
\* junction leads to, or the function's, that child_where accepts.
Related(plan, parent, where) ==
  {child \in RowsOf(plan.table) :
     /\ CASE plan.function # "" -> child \in ComputedRows(parent)
          [] plan.function = "" /\ plan.junction # NoTable ->
               \E j \in RowsOf(plan.junction) :
                 ParentCorrelation(plan, parent, j) /\ ChildJoin(plan, j, child)
          [] OTHER -> Correlation(plan, parent, child)
     /\ child \in where}

\* LIMIT (<<>> is none) and OFFSET in the order the rows are sorted in.
Ranks(rows) == CHOOSE f \in [rows -> 0..(Cardinality(rows) - 1)] : \A a, b \in rows : f[a] = f[b] => a = b
Window(rows, limit, offset) ==
  LET rank == Ranks(rows)
  IN {row \in rows : offset <= rank[row] /\ (limit # <<>> => rank[row] < offset + limit[1])}

\* correlated_rows: a to-one relationship without a limit takes one row.
CorrelatedRows(plan, parent, limit, offset, where) ==
  Window(Related(plan, parent, where),
         IF limit = <<>> /\ ~plan.isList THEN <<1>> ELSE limit, offset)

\* embed_expression: [] for a to-many with no rows, null for a to-one.
EmbedExpression(plan, parent, limit, offset, where) ==
  LET rows == CorrelatedRows(plan, parent, limit, offset, where)
  IN IF plan.isList THEN [list |-> rows] ELSE IF rows = {} THEN [null |-> TRUE] ELSE [one |-> rows]

\* aggregate_expression, of count: the rows are the limited ones.
AggregateCount(plan, parent, limit, offset, where) ==
  Cardinality(CorrelatedRows(plan, parent, limit, offset, where))

\* order_expression: a column of the first related row PostgreSQL comes upon.
OrderValues(plan, parent, column) ==
  LET rows == Related(plan, parent, RowsOf(plan.table))
  IN IF rows = {} THEN {Null} ELSE {row[column] : row \in rows}

InnerJoinPredicate(plan, parent, where) == Related(plan, parent, where) # {}

(***************************************************************************)
(* The two-query form                                                      *)
(***************************************************************************)
KeyToText(v) == IF v = Null THEN "" ELSE ToString(v)
ParentKeys(parents, column) == {KeyToText(p[column]) : p \in {q \in parents : q[column] # Null}}

\* children_grouped_sql: refused where one column does not say which parent.
GroupedError(plan) == Len(plan.parentCols) > 1 \/ Len(plan.columns) # 1
ChildrenGrouped(plan, keys) ==
  {<<child[plan.foreign], child>> :
     child \in {c \in RowsOf(plan.table) : c[plan.foreign] # Null /\ KeyToText(c[plan.foreign]) \in keys}}
GroupFromAggregated(pairs) ==
  [k \in {KeyToText(p[1]) : p \in pairs} |-> {p[2] : p \in {q \in pairs : KeyToText(q[1]) = k}}]

AttachToParent(plan, parent, grouped) ==
  LET key == KeyToText(parent[plan.local])
      matches == IF key # "" /\ key \in DOMAIN grouped THEN grouped[key] ELSE {}
  IN IF plan.isList THEN [list |-> matches] ELSE IF matches = {} THEN [null |-> TRUE] ELSE [one |-> matches]

(***************************************************************************)
(* Behaviour: a loaded cache, then tables with something in them           *)
(***************************************************************************)
Fill ==
  /\ pass = "loaded" /\ data = <<>>
  /\ data' \in Contents(catalog)
  /\ UNCHANGED schemaVars

EmbedInit == SchemaInit /\ data = <<>>
EmbedNext == (SchemaNext /\ UNCHANGED data) \/ Fill

(***************************************************************************)
(* Properties                                                              *)
(***************************************************************************)
Usable == {r \in rels : data # <<>> /\ ~ResolveError(r) /\ r.table \in catalog.exposed}
Everything(r) == RowsOf(r.far)

\* A row is embedded in another exactly where the other is embedded in it the
\* way back, through keys of several columns, junctions and views alike.
EmbedsMutual ==
  \A r \in {u \in Usable : ~Computed(u)} :
    \A b \in {s \in Usable : /\ s.table = r.far /\ s.far = r.table /\ s.constraint = r.constraint
                             /\ IF r.card = "many-to-many" THEN s.cols = Swap(r.tgt) /\ s.tgt = Swap(r.cols) /\ s.via = r.via
                                ELSE s.card \notin {"many-to-many", r.card} /\ s.cols = Swap(r.cols)} :
      \A p \in RowsOf(r.table), c \in RowsOf(r.far) :
        c \in Related(Resolve(r), p, Everything(r)) <=> p \in Related(Resolve(b), c, Everything(b))

\* "A to-one relationship takes the first row": there is never a second, so
\* LIMIT 1 drops nothing and the answer does not depend on the scan's order.
ToOneHasOne ==
  \A r \in {u \in Usable : IsToOne(u)} : \A p \in RowsOf(r.table) :
    Cardinality(Related(Resolve(r), p, Everything(r))) <= 1

\* The four things one relationship is used for agree on its rows: an inner
\* join keeps the parents whose embed is not empty, under the same filter; a
\* count counts the rows the same window embeds; an order by the embed's column
\* sorts a to-one by the value it shows.
UsesAgree ==
  \A r \in Usable : \A p \in RowsOf(r.table) :
    LET plan == Resolve(r)
    IN /\ \A where \in {Everything(r)} \cup {{c} : c \in Everything(r)} :
            LET shown == EmbedExpression(plan, p, <<>>, 0, where)
            IN InnerJoinPredicate(plan, p, where) <=> shown \notin {[list |-> {}], [null |-> TRUE]}
       /\ \A limit \in {<<0>>, <<1>>, <<2>>}, offset \in 0..1 :
            plan.isList => AggregateCount(plan, p, limit, offset, Everything(r))
                             = Cardinality(EmbedExpression(plan, p, limit, offset, Everything(r)).list)
       /\ ~plan.isList /\ ~Computed(r) => \A c \in ColumnsOf(r.far) :
            OrderValues(plan, p, c) =
              LET shown == EmbedExpression(plan, p, <<>>, 0, Everything(r))
              IN IF "null" \in DOMAIN shown THEN {Null} ELSE {row[c] : row \in shown.one}

\* Fetching the children of all parents at once and attaching them answers
\* what the correlated form answers, for every key it accepts ("The key goes
\* through key_to_text, ... so the two agree").
TwoQueriesAgree ==
  \A r \in {u \in Usable : ~Computed(u) /\ ~GroupedError(Resolve(u))} :
    LET plan == Resolve(r)
        keys == ParentKeys(RowsOf(r.table), plan.local)
        grouped == GroupFromAggregated(ChildrenGrouped(plan, keys))
    IN \A p \in RowsOf(r.table) :
         AttachToParent(plan, p, grouped) = EmbedExpression(plan, p, <<>>, 0, Everything(r))

\* A view's embedding is its base's: what a parent sees through a projection
\* of a relationship is what it sees through the relationship, under the view's
\* column names.
ViewsEmbedAsTheirBase ==
  \A r \in {u \in Usable : u.farView /\ ~u.self} :
    \A b \in {s \in Usable : s.table = r.table /\ s.far = BaseOf(r.far) /\ s.constraint = r.constraint
                             /\ s.card = r.card /\ s.via = r.via /\ s.c1 = r.c1 /\ s.c2 = r.c2 /\ Firsts(s.cols) = Firsts(r.cols)
                             /\ ~Computed(s)} :
      \A p \in RowsOf(r.table) :
        Related(Resolve(r), p, Everything(r))
          = {ViewRow(r.far, row) : row \in Related(Resolve(b), p, Everything(b))}

\* Every way to read one relationship gives the same rows: from either end, by
\* a view or its base, to embed, join, count or order, in one query or in two.
EmbedsAgree == EmbedsMutual /\ ToOneHasOne /\ UsesAgree /\ TwoQueriesAgree /\ ViewsEmbedAsTheirBase
=============================================================================
