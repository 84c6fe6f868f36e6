------------------------------ MODULE GqlWrite ------------------------------
(***************************************************************************)
(* A GraphQL mutation: its root fields run one after another in one        *)
(* transaction, each row it writes is held to the role's permission after  *)
(* the statement that wrote it has run, and the transaction is settled by  *)
(* the answer as a whole.  Conditions and rows are those of GqlRead.       *)
(***************************************************************************)
EXTENDS GqlRead

CONSTANTS Mutations,    \* the mutations asked: [db, ctx, fields]
          References    \* foreign keys of a table: [local, far]

VARIABLES job,          \* the mutation being answered
          committed,    \* what the database holds
          working,      \* what the open transaction sees, <<>> when none is open
          aborted,      \* PostgreSQL refuses the rest of the transaction
          fieldNo,      \* the next root field
          results,      \* what each field answered
          outcome,      \* "running" | "answered" | "failed" | "abandoned"
          log           \* every statement's effect, for the properties

writeVars == <<job, committed, working, aborted, fieldNo, results, outcome, log>>

\* ctx.doc[role][table]: [ins, upd, del], each <<>> or one grant.
WriteGrant(ctx, t, verb) ==
  IF ctx.role \in DOMAIN ctx.doc /\ t \in DOMAIN ctx.doc[ctx.role] THEN ctx.doc[ctx.role][t][verb] ELSE <<>>
Resolved(expr, ctx) == Rewrite(expr, ctx.session)

PermissionFilter(ctx, t, verb) ==
  IF Unrestricted(ctx) THEN <<>>
  ELSE LET f == WriteGrant(ctx, t, verb)[1].filter IN IF f = <<>> THEN <<>> ELSE <<Resolved(f, ctx)>>

\* An update with no check of its own is held to its filter.
WriteCheck(ctx, t, verb) ==
  IF Unrestricted(ctx) THEN <<>>
  ELSE LET g == WriteGrant(ctx, t, verb)[1]
       IN Resolved(IF verb = "upd" /\ g.check = <<>> THEN g.filter ELSE g.check, ctx)

\* Columns the server fills in, whatever the request said.
Presets(ctx, t, verb) ==
  IF Unrestricted(ctx) THEN <<>>
  ELSE LET set == WriteGrant(ctx, t, verb)[1].set
       IN [c \in DOMAIN set |-> IF set[c].var = "" THEN set[c].val ELSE ctx.session[set[c].var][1]]

\* The caller has the grant a statement is compiled with, and carries the
\* session variables of the parts of it that the statement reads.
NoFault(ctx, t, verb, parts) ==
  \/ Unrestricted(ctx)
  \/ /\ WriteGrant(ctx, t, verb) # <<>>
     /\ LET g == WriteGrant(ctx, t, verb)[1]
            named(part) == CASE part = "set" -> {g.set[c].var : c \in DOMAIN g.set} \ {""}
                             [] part = "filter" -> SessionNames(g.filter)
                             [] part = "check" -> SessionNames(IF verb = "upd" /\ g.check = <<>> THEN g.filter ELSE g.check)
        IN UNION {named(part) : part \in parts} \subseteq DOMAIN ctx.session

NoInsertFault(ctx, t, conflict) ==
  /\ NoFault(ctx, t, "ins", {"set", "check"})
  /\ (conflict # <<>> /\ conflict[1].columns # {}) => NoFault(ctx, t, "upd", {"set", "filter"})

(***************************************************************************)
(* Statements, on the rows one of them sees                                *)
(***************************************************************************)
RowAt(rows, id) == {r \in RowSet(rows) : r.id = id}
FreshId(rows) == Highest(<<0>> \o [i \in 1..Len(rows) |-> rows[i].id]) + 1
KeysHold(db) == \A t \in DOMAIN db : \A r \in RowSet(db[t]) : \A k \in References[t] : r[k.local] = Null \/ RowAt(db[k.far], r[k.local]) # {}

\* One statement's effect: which rows it changed, from what, to what, seen
\* against which database.
Effect(verb, t, by, before, pairs) == [verb |-> verb, table |-> t, by |-> by, before |-> before, pairs |-> pairs]
Stuck(db, why, seen) == [db |-> db, err |-> why, rows |-> <<>>, count |-> 0, log |-> seen]
Done(db) == Stuck(db, "", <<>>)

\* A step of a field and what follows it, which counts and logs on top.
AndThen(r, Rest(_)) == IF r.err # "" THEN r ELSE LET after(rest) == [rest EXCEPT !.count = @ + r.count, !.log = r.log \o @] IN after(Rest(r))
BothRows(r, rest) == [rest EXCEPT !.rows = r.rows \o @]

\* RETURNING evaluates the check over the new row; what it looks up elsewhere
\* is as it was before the statement.
Checked(check, row, before) == LET c == Condition(check, Scope(row, <<>>), before) IN c = <<>> \/ c = <<True>>
RefuseUncheckedRows(rows, check, before) == \A i \in 1..Len(rows) : Checked(check, rows[i], before)

InsertedRow(db, t, cols) ==
  [c \in DOMAIN db[t][1] |-> IF c \in DOMAIN cols THEN cols[c] ELSE IF c = "id" THEN FreshId(db[t]) ELSE Null]
Replaced(rows, new) == [i \in 1..Len(rows) |-> IF \E r \in new : r.id = rows[i].id THEN CHOOSE r \in new : r.id = rows[i].id ELSE rows[i]]

\* ON CONFLICT: the row that stands in the way, and what becomes of it.
ConflictUpdate(db, t, row, conflict, ctx) ==
  LET old == CHOOSE r \in RowAt(db[t], row.id) : TRUE
      where == AndPredicates(conflict.where, PermissionFilter(ctx, t, "upd"))
      preset == Presets(ctx, t, "upd")
      new == [c \in DOMAIN old |-> IF c \in DOMAIN preset THEN preset[c] ELSE IF c \in conflict.columns THEN row[c] ELSE old[c]]
  IN IF conflict.columns = {} \/ ~Passes(where, Scope(old, <<>>), db) THEN <<>> ELSE <<old, new>>

WithPresets(cols, preset) == [c \in DOMAIN cols \cup DOMAIN preset |-> IF c \in DOMAIN preset THEN preset[c] ELSE cols[c]]

\* A statement that has run: its keys are looked at by the database, its
\* check, on whatever came back, by the server.
Ran(verb, db, t, pairs, after, check, ctx) ==
  LET new == [i \in 1..Len(pairs) |-> pairs[i][2]]
      mark == <<Effect(verb, t, ctx, db, pairs)>>
  IN IF ~KeysHold(after) THEN Stuck(db, "database", <<>>)
     ELSE IF ~RefuseUncheckedRows(new, check, db) THEN Stuck(after, "check", mark)
     ELSE [db |-> after, err |-> "", rows |-> new, count |-> Len(pairs), log |-> mark]

Inserted(db, t, row, ctx) == Ran("ins", db, t, <<<<row, row>>>>, [db EXCEPT ![t] = Append(@, row)], WriteCheck(ctx, t, "ins"), ctx)
Upserted(db, t, pair, ctx) ==
  IF pair = <<>> THEN Done(db)
  ELSE Ran("ups", db, t, <<pair>>, [db EXCEPT ![t] = Replaced(@, {pair[2]})], WriteCheck(ctx, t, "ins"), ctx)

\* The one INSERT of a row, its columns filled in and its conflict resolved.
InsertStatement(db, t, given, conflict, ctx) ==
  LET place(row) == IF RowAt(db[t], row.id) = {} THEN Inserted(db, t, row, ctx)
                    ELSE IF conflict = <<>> THEN Stuck(db, "database", <<>>)
                    ELSE Upserted(db, t, ConflictUpdate(db, t, row, conflict[1], ctx), ctx)
  IN place(InsertedRow(db, t, WithPresets(given, Presets(ctx, t, "ins"))))

RECURSIVE InsertRow(_, _, _, _), InsertParents(_, _, _, _, _), InsertChildren(_, _, _, _)

WithKey(cols, column, value) == WithPresets(cols, [c \in {column} |-> value])
Given(cols, column) == column \in DOMAIN cols /\ cols[column] # Null

\* The rows this one points at are written first and their keys read back,
\* into the columns that are left as the result's one row.
InsertParents(db, t, nested, cols, ctx) ==
  IF nested = <<>> THEN [Done(db) EXCEPT !.rows = <<cols>>]
  ELSE LET n == Head(nested)
           rel == Keys[n.rel]
           keyed(r) == IF r.rows = <<>> THEN cols ELSE WithKey(cols, rel.local, r.rows[1][rel.foreign])
       IN IF rel.list THEN InsertParents(db, t, Tail(nested), cols, ctx)
          ELSE IF Given(cols, rel.local) THEN Stuck(db, "validation", <<>>)
          ELSE AndThen(InsertRow(db, rel.far, [n.data[1] EXCEPT !.conflict = n.conflict], ctx),
                       LAMBDA r : InsertParents(r.db, t, Tail(nested), keyed(r), ctx))

\* The rows that point at this one, with its key pushed down.
InsertChildren(db, row, todo, ctx) ==
  IF todo = <<>> THEN Done(db)
  ELSE LET rel == Keys[todo[1].rel]
           child == todo[1].object
       IN IF Given(child.cols, rel.foreign) THEN Stuck(db, "validation", <<>>)
          ELSE AndThen(InsertRow(db, rel.far, [child EXCEPT !.cols = WithKey(@, rel.foreign, row[rel.local])], ctx),
                       LAMBDA r : InsertChildren(r.db, row, Tail(todo), ctx))

ChildrenOf(nested) ==
  Concat([i \in 1..Len(nested) |-> IF ~Keys[nested[i].rel].list THEN <<>>
            ELSE [j \in 1..Len(nested[i].data) |-> [rel |-> nested[i].rel, object |-> [nested[i].data[j] EXCEPT !.conflict = nested[i].conflict]]]])

\* A row that a conflict kept out has no key to push down.
WithChildren(here, object, ctx) ==
  IF here.rows = <<>> THEN Done(here.db)
  ELSE [InsertChildren(here.db, here.rows[1], ChildrenOf(object.nested), ctx) EXCEPT !.rows = here.rows]

InsertRow(db, t, object, ctx) ==
  AndThen(InsertParents(db, t, object.nested, object.cols, ctx),
          LAMBDA up : IF ~NoInsertFault(ctx, t, object.conflict) THEN Stuck(up.db, "permission", <<>>)
                      ELSE AndThen(InsertStatement(up.db, t, up.rows[1], object.conflict, ctx),
                                   LAMBDA here : WithChildren(here, object, ctx)))

RECURSIVE ExecuteInsert(_, _, _, _)
ExecuteInsert(db, t, objects, ctx) ==
  IF objects = <<>> THEN Done(db)
  ELSE AndThen(InsertRow(db, t, Head(objects), ctx),
               LAMBDA r : BothRows(r, ExecuteInsert(r.db, t, Tail(objects), ctx)))

\* The whole condition compiles to nothing, however it is spelled.
SaysNothing(where, t, db) == Condition(where, Scope(db[t][1], <<>>), db) = <<>>

\* One UPDATE.  A column written by two operators, and a condition that says
\* nothing, are refused before it is sent; nothing to set is nothing to do.
Assigned(old, f, preset) ==
  [c \in DOMAIN old |-> IF c \in DOMAIN preset THEN preset[c]
                        ELSE IF c \in DOMAIN f.set THEN f.set[c]
                        ELSE IF c \in DOMAIN f.inc /\ old[c] # Null THEN old[c] + f.inc[c] ELSE old[c]]
ExecuteUpdate(db, t, f, where, ctx) ==
  LET hit == SelectSeq(db[t], LAMBDA r : Passes(where, Scope(r, <<>>), db))
      run(pairs) == Ran("upd", db, t, pairs, [db EXCEPT ![t] = Replaced(@, {p[2] : p \in RowSet(pairs)})], WriteCheck(ctx, t, "upd"), ctx)
      sent(preset) ==
        IF (DOMAIN f.set \cap DOMAIN f.inc) \ DOMAIN preset # {} THEN Stuck(db, "validation", <<>>)
        ELSE IF DOMAIN f.set \cup DOMAIN f.inc \cup DOMAIN preset = {} THEN Done(db)
        ELSE IF SaysNothing(where, t, db) THEN Stuck(db, "validation", <<>>)
        ELSE run([i \in 1..Len(hit) |-> <<hit[i], Assigned(hit[i], f, preset)>>])
  IN sent(Presets(ctx, t, "upd"))

RECURSIVE ExecuteUpdates(_, _, _, _)
\* update_many: each entry is a statement of its own, under its own `where`.
ExecuteUpdates(db, t, entries, ctx) ==
  IF entries = <<>> THEN Done(db)
  ELSE AndThen(ExecuteUpdate(db, t, Head(entries), Head(entries).where, ctx),
               LAMBDA r : BothRows(r, ExecuteUpdates(r.db, t, Tail(entries), ctx)))

\* A delete has no check to pass.
ExecuteDelete(db, t, where, ctx) ==
  LET hit(r) == Passes(where, Scope(r, <<>>), db)
      run(gone) == Ran("del", db, t, [i \in 1..Len(gone) |-> <<gone[i], gone[i]>>],
                       [db EXCEPT ![t] = SelectSeq(@, LAMBDA r : ~hit(r))], <<>>, ctx)
  IN IF SaysNothing(where, t, db) THEN Stuck(db, "validation", <<>>) ELSE run(SelectSeq(db[t], hit))

\* Mutant: a write by key is not narrowed to what the role may change.
WhereAsAsked(f, ctx) == IF f.pk # 0 THEN <<Col("id", "_eq", <<f.pk>>)>> ELSE AndPredicates(f.where, PermissionFilter(ctx, f.table, f.verb))

\* What an update or a delete is narrowed to.
MutationWhere(f, ctx) ==
  LET asked == IF f.pk # 0 THEN <<Col("id", "_eq", <<f.pk>>)>> ELSE f.where
  IN AndPredicates(asked, PermissionFilter(ctx, f.table, f.verb))

ResolveMutation(f, db, ctx) ==
  CASE f.kind = "insert" -> ExecuteInsert(db, f.table, f.objects, ctx)
    [] f.kind = "update" -> IF NoFault(ctx, f.table, "upd", {"set", "filter", "check"})
                            THEN ExecuteUpdate(db, f.table, f, MutationWhere(f, ctx), ctx) ELSE Stuck(db, "permission", <<>>)
    [] f.kind = "delete" -> IF NoFault(ctx, f.table, "del", {"filter"})
                            THEN ExecuteDelete(db, f.table, MutationWhere(f, ctx), ctx) ELSE Stuck(db, "permission", <<>>)
    [] f.kind = "update_many" -> IF f.updates = <<>> \/ NoFault(ctx, f.table, "upd", {"set", "check"})
                                 THEN ExecuteUpdates(db, f.table, f.updates, ctx) ELSE Stuck(db, "permission", <<>>)

\* The rows are read again, by key, when the selection asks for more than
\* their columns; a deleted row is embedded by the statement that deletes it.
RereadReturning(f, r) ==
  IF f.kind = "delete" \/ ~f.embeds THEN {row.id : row \in RowSet(r.rows)}
  ELSE {row.id : row \in {x \in RowSet(r.db[f.table]) : \E y \in RowSet(r.rows) : y.id = x.id}}

(***************************************************************************)
(* The operation                                                           *)
(***************************************************************************)
WriteInit ==
  /\ job \in Mutations
  /\ committed = job.db
  /\ working = <<>> /\ aborted = FALSE
  /\ fieldNo = 1 /\ results = <<>> /\ outcome = "running" /\ log = <<>>

\* write_tx: the first field that writes opens the one transaction.
Seen == IF working = <<>> THEN committed ELSE working[1]
Failed == \E i \in 1..Len(results) : results[i].err # ""

ResolveField ==
  /\ outcome = "running" /\ fieldNo <= Len(job.fields)
  /\ LET f == job.fields[fieldNo]
     IN \E r \in {IF aborted THEN Stuck(Seen, "aborted", <<>>) ELSE ResolveMutation(f, Seen, job.ctx)} :
          /\ working' = <<r.db>>
          /\ aborted' = (aborted \/ r.err = "database")
          /\ log' = log \o r.log
          /\ results' = Append(results, [err |-> r.err, affected |-> r.count, ids |-> IF r.err = "" THEN RereadReturning(f, r) ELSE {}])
  /\ fieldNo' = fieldNo + 1
  /\ UNCHANGED <<job, committed, outcome>>

\* Mutant: the transaction is committed once the fields have run.
CommitAnyway == working # <<>> /\ ~aborted

MayCommit == ~Failed

SettleWrite ==
  /\ outcome = "running" /\ fieldNo > Len(job.fields)
  /\ committed' = IF working # <<>> /\ MayCommit THEN working[1] ELSE committed
  /\ outcome' = IF Failed THEN "failed" ELSE "answered"
  /\ working' = <<>>
  /\ UNCHANGED <<job, aborted, fieldNo, results, log>>

\* The commit's answer never comes: the operation is reported as failed,
\* whether or not PostgreSQL had committed it.
CommitLost ==
  /\ outcome = "running" /\ fieldNo > Len(job.fields) /\ MayCommit /\ working # <<>>
  /\ \E done \in BOOLEAN : committed' = IF done THEN working[1] ELSE committed
  /\ outcome' = "failed"
  /\ working' = <<>>
  /\ UNCHANGED <<job, aborted, fieldNo, results, log>>

\* The request goes away; the transaction is dropped with it.
AbandonWrite ==
  /\ outcome = "running"
  /\ outcome' = "abandoned" /\ working' = <<>>
  /\ UNCHANGED <<job, committed, aborted, fieldNo, results, log>>

WriteNext == ResolveField \/ SettleWrite \/ CommitLost \/ AbandonWrite

(***************************************************************************)
(* Properties                                                              *)
(***************************************************************************)
RECURSIVE AllEffects(_, _, _)
AllEffects(fields, db, ctx) == IF fields = <<>> THEN db ELSE AllEffects(Tail(fields), ResolveMutation(Head(fields), db, ctx).db, ctx)

\* settle_write: a mutation that is answered has done all of its fields, one
\* that is abandoned or refused has done none, and one whose commit was lost
\* is one or the other.
AllFieldsOrNone ==
  /\ outcome \in {"running", "abandoned"} => committed = job.db
  /\ outcome = "answered" => ~Failed
  /\ outcome \in {"answered", "failed"} =>
       \/ outcome = "failed" /\ committed = job.db
       \/ ~Failed /\ committed = AllEffects(job.fields, job.db, job.ctx)

Holds(expr, row, db) == Passes(expr, Scope(row, <<>>), db)
ByMany(e) == \E i \in 1..Len(job.fields) : job.fields[i].kind = "update_many" /\ job.fields[i].table = e.table /\ e.verb = "upd"

\* refuse_unchecked_rows, permission_filter, presets: a row a role deletes or
\* changes is one its filter names, a row it inserts or updates passes the
\* check, and the columns the server fills in hold what it filled in.  Two
\* writes are held to less, as the code holds them: update_many never adds
\* permission_filter (:4490-4550, against :4648-4650), so what it changes need
\* not be a row the filter names, only pass the check; and the row an upsert
\* leaves passes the insert's check, the update's is not asked.
NothingOutsideTheGrant ==
  (committed # job.db /\ ~Unrestricted(job.ctx)) =>
    \A i \in 1..Len(log) : LET e == log[i] IN \A j \in 1..Len(e.pairs) :
      LET old == e.pairs[j][1] new == e.pairs[j][2]
          grant(verb) == WriteGrant(job.ctx, e.table, verb)[1]
          preset(verb) == Presets(job.ctx, e.table, verb)
      IN /\ e.verb \in {"ins", "ups"} => Holds(Resolved(grant("ins").check, job.ctx), new, e.before)
         /\ e.verb = "ins" => \A c \in DOMAIN preset("ins") : new[c] = preset("ins")[c]
         /\ e.verb = "del" => Holds(Resolved(grant("del").filter, job.ctx), old, e.before)
         /\ (e.verb = "ups" \/ (e.verb = "upd" /\ ~ByMany(e))) => Holds(Resolved(grant("upd").filter, job.ctx), old, e.before)
         /\ e.verb = "upd" => Holds(WriteCheck(job.ctx, e.table, "upd"), new, e.before)
         /\ e.verb \in {"ups", "upd"} => \A c \in DOMAIN preset("upd") : new[c] = preset("upd")[c]

RECURSIVE Pairs(_), Objects(_)
Objects(object) == 1 + LET n == object.nested IN
  LET kids == Concat([i \in 1..Len(n) |-> n[i].data]) IN IF kids = <<>> THEN 0 ELSE Pairs(kids)
Pairs(objects) == IF objects = <<>> THEN 0 ELSE Objects(Head(objects)) + Pairs(Tail(objects))

\* insert_row's written_count: affected_rows is the number of rows the field
\* wrote, nested ones included, and no row is written that the field's objects
\* do not ask for.
AffectedIsWritten ==
  \A i \in 1..Len(results) : results[i].err = "" /\ Len(results) = 1 =>
    /\ results[i].affected = Len(Concat([k \in 1..Len(log) |-> log[k].pairs]))
    /\ job.fields[i].kind = "insert" => results[i].affected <= Pairs(job.fields[i].objects)

\* insert_row's two orders: every row a committed insert nests under another
\* points at it, and the row its parent was given is the one nested there,
\* unless the role's permission fills in the linking column itself.
NestedRowsLinked ==
  (outcome = "answered" /\ \A i \in 1..Len(job.fields) : job.fields[i].kind = "insert") =>
    \A i \in 1..Len(job.fields) : \A o \in RowSet(job.fields[i].objects) : \A n \in RowSet(o.nested) :
      LET linking == IF Keys[n.rel].list THEN Presets(job.ctx, Keys[n.rel].far, "ins") ELSE Presets(job.ctx, job.fields[i].table, "ins")
          column == IF Keys[n.rel].list THEN Keys[n.rel].foreign ELSE Keys[n.rel].local
      IN (n.conflict = <<>> /\ o.conflict = <<>> /\ column \notin DOMAIN linking) =>
        LET rel == Keys[n.rel]
            mine == {r \in RowSet(committed[job.fields[i].table]) : r \notin RowSet(job.db[job.fields[i].table])}
            theirs == {r \in RowSet(committed[rel.far]) : r \notin RowSet(job.db[rel.far])}
        IN /\ \A d \in RowSet(n.data) : \E m \in mine, r \in theirs :
                 m[rel.local] = r[rel.foreign] /\ \A c \in DOMAIN d.cols : r[c] = d.cols[c] \/ c \in {"owner"}
           /\ Len(job.fields) = 1 => \A r \in theirs : \E m \in mine : m[rel.local] = r[rel.foreign]

\* execute_update, execute_delete: a caller no permission narrows cannot
\* change or delete rows with a condition that says nothing, however it is
\* spelled.
NoBlankCondition ==
  (committed # job.db /\ Unrestricted(job.ctx)) =>
    \A i \in 1..Len(job.fields) : LET f == job.fields[i] IN
      f.kind \in {"update", "delete"} => f.pk # 0 \/ \E r \in RowSet(job.db[f.table]) : Condition(f.where, Scope(r, <<>>), job.db) # <<>>

\* A mutation has done what its answer says, and all of it or nothing.
AnswerIsTheEffect == AllFieldsOrNone /\ AffectedIsWritten /\ NestedRowsLinked

\* A mutation writes nothing its caller may not, but for the update_many and
\* the upsert NothingOutsideTheGrant names: of a role what its grants allow,
\* and of an administrator nothing under a condition that says nothing.
WritesAreAllowed == NothingOutsideTheGrant /\ NoBlankCondition
=============================================================================
