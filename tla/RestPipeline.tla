---------------------------- MODULE RestPipeline ----------------------------
(***************************************************************************)
(* One REST request through process_request and execute_plan, from its     *)
(* token to its response, over a table other transactions write at the     *)
(* same time.  Every step is what runs between two awaits; a failure at    *)
(* any of them drops the transaction, which rolls it back.                 *)
(***************************************************************************)
EXTENDS RestRequest

CONSTANTS
  Requests,     \* the requests a client may send
  Configs,      \* server configurations: records described by Config
  Contents,     \* what the table may hold at the start
  MaxOthers,    \* bound: writes other transactions commit meanwhile
  GucStatus     \* the status a pre-request, a function or a trigger sets where it sets one

Config == [anon : BOOLEAN, aggregates : BOOLEAN, maxRows : Nat \cup {None},
           isolation : {"rc", "rr"}, preRequest : {"none", "ok", "refuses", "status", "badheader"}]

ASSUME ConfigsAssumption ==
  Requests \subseteq Request /\ Configs \subseteq Config /\ Contents \subseteq Table /\ MaxOthers \in Nat
  /\ GucStatus \in 100..999                 \* StatusCode::from_u16 takes these

VARIABLES
  h, cfg,       \* the request and the configuration it meets
  pc,           \* the next step of process_request
  role,         \* the role the token gave
  db,           \* the committed rows
  tx,           \* the transaction: open, snapshot, rows it has written
  out,          \* what the statement returned: rows, total
  resp,         \* the response: status, error, window
  others,       \* writes committed by other transactions
  final         \* how the transaction ended, and what it wrote

vars == <<h, cfg, pc, role, db, tx, out, resp, others, final>>

act == ActionOf(h)
NoWrites == [k \in Keys |-> "same"]
Overlay(own, t) == [k \in Keys |-> IF own[k] = "same" THEN t[k] ELSE own[k]]
NoResponse == [status |-> 0, err |-> "ok", window |-> ContentRange(0, -1, None), n |-> 0]

Init ==
  /\ h \in Requests /\ cfg \in Configs /\ db \in Contents
  /\ pc = "authenticate" /\ role = "none"
  /\ tx = [open |-> FALSE, snap |-> db, own |-> NoWrites, touched |-> {}]
  /\ out = [rows |-> {}, created |-> {}, total |-> None, calls |-> 0]
  /\ resp = NoResponse /\ others = 0
  /\ final = [outcome |-> "none", keys |-> {}]

(***************************************************************************)
(* The status of a failure: Error::status_code, and PgError's by SQLSTATE. *)
(***************************************************************************)
StatusOf(e) ==
  CASE e \in {"InvalidBody", "UnknownColumn", "InvalidPreferences", "PutLimitNotAllowed",
              "PutMatchingPk", "MaxAffectedExceeded", "AggregatesNotAllowed",
              "MissingGeometryColumn", "RelationshipNotFound"} -> 400
    [] e \in {"InvalidJwt", "MissingAuth", "42501"} -> 401
    [] e \in {"TableNotFound", "FunctionNotFound", "InvalidResourcePath"} -> 404
    [] e \in {"UnsupportedMethod", "InvalidRpcMethod", "InvalidPutFilters"} -> 405
    [] e \in {"UnacceptableSchema", "NotSingular", "InvalidMediaType"} -> 406
    [] e = "InvalidRange" -> 416
    [] e \in {"InvalidGucHeaders", "InvalidGucStatus", "ConnectionPool"} -> 500
    [] e \in {"23503", "23505"} -> 409
    [] e = "25006" -> 405
    [] e \in {"21000", "25001", "40001"} -> 500
    [] e = "08006" -> 503
    [] OTHER -> 400                         \* P0001, 42703, 42601 and the rest

Closed == [tx EXCEPT !.open = FALSE]

\* Leave with an error; a transaction still open is dropped and so rolled back.
Refuse(e) ==
  /\ pc' = "done"
  /\ resp' = [NoResponse EXCEPT !.status = StatusOf(e), !.err = e]
  /\ tx' = Closed
  /\ final' = IF tx.open THEN [final EXCEPT !.outcome = "rolledback"] ELSE final
  /\ UNCHANGED <<h, cfg, role, db, others>>

Goto(l) == pc' = l /\ UNCHANGED <<h, cfg, db, tx, resp, others, final>>

(***************************************************************************)
(* Before the database                                                     *)
(***************************************************************************)
AuthError ==
  CASE h.token = "bad" -> "InvalidJwt"
    [] h.token = "none" /\ ~cfg.anon -> "MissingAuth"
    [] OTHER -> "ok"

Authenticate ==
  /\ pc = "authenticate"
  /\ \/ AuthError # "ok" /\ Refuse(AuthError) /\ UNCHANGED out
     \/ AuthError = "ok" /\ role' = (IF h.token = "none" THEN "anon" ELSE "user")
        /\ Goto("body") /\ UNCHANGED out

\* Limited::collect: a body over the limit, or cut off, is the same error.
ReadBody ==
  /\ pc = "body" /\ UNCHANGED out
  /\ \/ h.body.kind = "toolong" /\ Refuse("InvalidBody")
     \/ h.body.kind # "toolong" /\ Goto("parse") /\ UNCHANGED role

RequestError ==
  FirstError(<<ParseError(h), BodyError(h, act),
               IF RequestedPlan(h) THEN "InvalidMediaType" ELSE "ok",
               RelationshipError(h), AggregateError(h, cfg.aggregates), PlanError(h, act)>>)

\* parse_request, parse_payload and the plan, up to the guard's release.
ParseAndPlan ==
  /\ pc = "parse" /\ UNCHANGED out
  /\ \/ RequestError # "ok" /\ Refuse(RequestError)
     \/ /\ RequestError = "ok" /\ act.kind = "info"
        /\ resp' = [NoResponse EXCEPT !.status = 200, !.n = 1]
        /\ pc' = "format" /\ UNCHANGED <<h, cfg, role, db, tx, others, final>>
     \/ RequestError = "ok" /\ act.kind # "info" /\ Goto("negotiate") /\ UNCHANGED role

\* Content negotiation and the statement, before a connection is taken.
Negotiate ==
  /\ pc = "negotiate" /\ UNCHANGED out
  /\ LET e == FirstError(<<MediaError(h, act), GeometryError(h, act)>>)
     IN \/ e # "ok" /\ Refuse(e)
        \/ e = "ok" /\ Goto("begin") /\ UNCHANGED role

(***************************************************************************)
(* The transaction                                                         *)
(***************************************************************************)
Begin ==
  /\ pc = "begin" /\ UNCHANGED out
  /\ \/ Refuse("ConnectionPool")
     \/ /\ tx' = [tx EXCEPT !.open = TRUE] /\ pc' = "flight"
        /\ UNCHANGED <<h, cfg, role, db, resp, others, final>>

readOnly == IsReadOnly(act)
PageRange == TopLevelRange(h, cfg.maxRows)

\* Mutant: every statement sees what is committed.
ViewCommitted(snap) == Overlay(tx.own, db)

View(snap) == Overlay(tx.own, IF cfg.isolation = "rr" THEN snap ELSE db)

\* The statements sent ahead of the query, and the query, in the order queued.
Order == <<"isolation", "readonly", "settings", "prerequest", "query">>
Queued(stmt) ==
  /\ stmt = "isolation" => cfg.isolation = "rr"
  /\ stmt = "readonly" => readOnly
  /\ stmt = "prerequest" => cfg.preRequest # "none"

\* What a statement finds in force.  PostgreSQL takes SET TRANSACTION only
\* before the first query of the transaction; the pre-request function may raise.
SetsTransaction(stmt) == stmt \in {"isolation", "readonly"}
At(stmt) == CHOOSE i \in DOMAIN Order : Order[i] = stmt
Before(stmt) == {Order[i] : i \in {j \in DOMAIN Order : j < At(stmt) /\ Queued(Order[j])}}
Session(stmt) ==
  [role |-> IF "settings" \in Before(stmt) THEN role ELSE "login",
   ro   |-> "readonly" \in Before(stmt),
   err  |-> CASE \E s \in Before(stmt) : SetsTransaction(s) /\ \E q \in Before(s) : ~SetsTransaction(q) -> "25001"
              [] "prerequest" \in Before(stmt) /\ cfg.preRequest = "refuses" -> "P0001"
              [] OTHER -> "ok"]

\* What the query returns, under the session the statements before it made.
QueryResult ==
  LET s == Session("query")
      r == Execute(h, act, View(db), PageRange, s.ro)
  IN IF s.err # "ok" THEN Failed(View(db), s.err)
     ELSE IF IsMutation(act) /\ s.role \notin Writers THEN Failed(View(db), "42501")
     ELSE r

ReadsResponseSettings == IsMutation(act) \/ IsCall(act) \/ cfg.preRequest # "none"
Counts == CountSql(h, act)
EndsWithTheQuery == readOnly /\ ~Counts /\ ~Rendered(h, act)

AfterFlight == IF Rendered(h, act) THEN "count" ELSE "settings"

\* The query and what goes out with it, in one flight: a plain read's commit too.
Flight ==
  /\ pc = "flight"
  /\ \E r \in {QueryResult} :
        \/ /\ r.err # "ok" /\ Refuse(r.err) /\ UNCHANGED out
        \* a row another transaction wrote after the snapshot and before the query
        \/ /\ r.err = "ok" /\ cfg.isolation = "rr" /\ r.touched # {} /\ others < MaxOthers
           /\ Refuse("40001") /\ UNCHANGED out
        \/ /\ r.err = "ok"
           /\ out' = [rows |-> r.rows, created |-> r.created, total |-> None, calls |-> IF IsCall(act) THEN 1 ELSE 0]
           /\ tx' = [open |-> ~EndsWithTheQuery, snap |-> db, touched |-> r.touched,
                     own |-> [k \in Keys |-> IF k \in r.touched THEN r.table[k] ELSE "same"]]
           /\ final' = IF EndsWithTheQuery THEN [final EXCEPT !.outcome = "committed"] ELSE final
           /\ pc' = AfterFlight
           /\ UNCHANGED <<h, cfg, role, db, resp, others>>

\* The connection breaks under a statement: the server rolls the work back.
ConnectionLost ==
  /\ pc \in {"flight", "count"} /\ tx.open
  /\ Refuse("08006") /\ UNCHANGED out

\* What the function called, or the trigger of the table written, sets.
OwnSetting ==
  CASE IsCall(act) -> Routines[act.name].guc
    [] IsMutation(act) -> Tables[act.name].guc
    [] OTHER -> "ok"

\* guc_status: it runs after the pre-request function and so has the last word.
StatusSetting == IF OwnSetting \in {"status", "badstatus"} THEN OwnSetting ELSE cfg.preRequest

GucError ==
  CASE "badheader" \in {OwnSetting, cfg.preRequest} -> "InvalidGucHeaders"
    [] StatusSetting = "badstatus" -> "InvalidGucStatus"
    [] OTHER -> "ok"

\* What a function or a trigger set for the response, checked before the commit.
CheckSettings ==
  /\ pc = "settings" /\ UNCHANGED out
  /\ \/ ReadsResponseSettings /\ GucError # "ok" /\ Refuse(GucError)
     \/ ~(ReadsResponseSettings /\ GucError # "ok") /\ Goto("count") /\ UNCHANGED role

\* resolve_count: exact counts the unpaged statement, planned asks the planner
\* (any number), estimated takes the larger of the two above the ceiling.
CountOutcomes(exact) ==
  CASE h.prefer.count = "exact" -> {exact}
    [] h.prefer.count = "planned" -> {0, 1, Cardinality(Keys)}
    [] cfg.maxRows # None /\ exact <= cfg.maxRows -> {exact}
    [] OTHER -> {exact, exact + 1}

RunsTheStatement == h.prefer.count \in {"exact", "estimated"}

Count ==
  /\ pc = "count"
  /\ \/ /\ ~Counts
        /\ Goto(IF Rendered(h, act) THEN "rendered" ELSE "checks") /\ UNCHANGED <<role, out>>
     \/ /\ Counts /\ tx.open
        /\ LET r == Counted(h, act, View(tx.snap), readOnly)
           IN \/ r.err # "ok" /\ Refuse(r.err) /\ UNCHANGED out
              \/ /\ r.err = "ok"
                 /\ \E n \in CountOutcomes(Cardinality(r.rows)) :
                      out' = [out EXCEPT !.total = n,
                                         !.calls = @ + (IF IsCall(act) /\ RunsTheStatement THEN 1 ELSE 0)]
                 /\ Goto(IF Rendered(h, act) THEN "rendered" ELSE "checks") /\ UNCHANGED role

(***************************************************************************)
(* The checks on what came back                                            *)
(***************************************************************************)

MaxAffectedError ==
  IF /\ h.prefer.max # None /\ h.prefer.strict
     /\ IsMutation(act) \/ IsCall(act)
     /\ Cardinality(out.rows) > h.prefer.max
  THEN "MaxAffectedExceeded" ELSE "ok"

PutError == IF IsUpsert(act) /\ Cardinality(out.rows) # 1 THEN "PutMatchingPk" ELSE "ok"

ReturnsVoid == IsCall(act) /\ Routines[act.name].void

\* A mutation reports no page: nothing, or how many rows an update changed.
Window ==
  CASE IsMutation(act) /\ act.mutation = "update" -> ContentRange(0, Cardinality(out.rows) - 1, out.total)
    [] IsMutation(act) -> ContentRange(1, 0, out.total)
    [] OTHER -> FromPagination(PageRange.offset, Cardinality(out.rows), out.total)

RangeError == IF ~IsMutation(act) /\ RangeStatus(Window) = 416 THEN "InvalidRange" ELSE "ok"

\* A status the schema set outright wins, on a plain read too.
ResultStatus ==
  CASE StatusSetting = "status" -> GucStatus
    [] ReturnsVoid -> 204
    [] IsMutation(act) ->
         MutationStatus(h, act, ReportsInserted(h, act) /\ out.created \cap out.rows # {},
                        ReportsInserted(h, act))
    [] OTHER -> RangeStatus(Window)

CheckResult ==
  /\ pc = "checks" /\ UNCHANGED out
  /\ LET e == FirstError(<<MaxAffectedError, PutError, RangeError>>)
     IN \/ e # "ok" /\ Refuse(e)
        \/ /\ e = "ok"
           /\ resp' = [status |-> ResultStatus, err |-> "ok", window |-> Window, n |-> Cardinality(out.rows)]
           /\ pc' = "readcommit" /\ UNCHANGED <<h, cfg, role, db, tx, others, final>>

\* A body the schema rendered: 200, and a window over the rows it rendered.
Render ==
  /\ pc = "rendered"
  /\ resp' = [status |-> 200, err |-> "ok", n |-> Cardinality(out.rows),
              window |-> FromPagination(PageRange.offset, Cardinality(out.rows), out.total)]
  /\ pc' = "readcommit" /\ UNCHANGED <<h, cfg, role, db, tx, out, others, final>>

(***************************************************************************)
(* The end                                                                 *)
(***************************************************************************)
\* COMMIT: done; refused (a deferred constraint); or unknown, the connection
\* having broken before its answer.
Commit(next) ==
  \/ /\ db' = Overlay(tx.own, db)
     /\ final' = [outcome |-> "committed", keys |-> tx.touched]
     /\ tx' = Closed /\ next
     /\ UNCHANGED <<h, cfg, role, out, others>>
  \/ tx.touched # {} /\ Refuse("23503") /\ UNCHANGED out
  \/ /\ resp' = [NoResponse EXCEPT !.status = StatusOf("08006"), !.err = "08006"]
     /\ \/ db' = Overlay(tx.own, db) /\ final' = [outcome |-> "unknown", keys |-> tx.touched]
        \/ db' = db /\ final' = [final EXCEPT !.outcome = "unknown"]
     /\ tx' = Closed /\ pc' = "done"
     /\ UNCHANGED <<h, cfg, role, out, others>>

\* Mutant: every transaction ends before the response is written.
CommitBeforeFormat ==
  /\ pc = "readcommit"
  /\ \/ tx.open /\ Commit(pc' = "format" /\ UNCHANGED resp)
     \/ ~tx.open /\ Goto("format") /\ UNCHANGED <<role, out>>

\* A read gives its connection back before its response is written.
CommitRead ==
  /\ pc = "readcommit"
  /\ \/ tx.open /\ readOnly /\ Commit(pc' = "format" /\ UNCHANGED resp)
     \/ ~(tx.open /\ readOnly) /\ Goto("format") /\ UNCHANGED <<role, out>>

Format ==
  /\ pc = "format" /\ UNCHANGED out
  /\ LET e == FormatError(h, Rendered(h, act), resp.n)
     IN \/ e # "ok" /\ Refuse(e)
        \/ e = "ok" /\ Goto("commit") /\ UNCHANGED role

\* The transaction commits last, once nothing is left that can refuse.
CommitLast ==
  /\ pc = "commit"
  /\ \/ tx.open /\ Commit(pc' = "done" /\ UNCHANGED resp)
     \/ ~tx.open /\ Goto("done") /\ UNCHANGED <<role, out>>

\* The client goes away: the host drops the future where it stands.
Disconnect ==
  /\ pc \notin {"done", "gone"}
  /\ pc' = "gone" /\ tx' = Closed
  /\ \/ /\ final' = (IF tx.open THEN [final EXCEPT !.outcome = "rolledback"] ELSE final)
        /\ db' = db
     \/ /\ pc = "commit" /\ tx.open                  \* COMMIT was already on its way
        /\ db' = Overlay(tx.own, db) /\ final' = [outcome |-> "unknown", keys |-> tx.touched]
  /\ UNCHANGED <<h, cfg, role, out, resp, others>>

\* Another transaction commits a write to a row this one holds no lock on.
\* (Before this one begins, that is only another initial content.)
Other ==
  /\ others < MaxOthers /\ tx.open
  /\ \E k \in Keys \ tx.touched, v \in {"absent", "old"} :
       v # db[k] /\ db' = [db EXCEPT ![k] = v]
  /\ others' = others + 1
  /\ UNCHANGED <<h, cfg, pc, role, tx, out, resp, final>>

Step ==
  \/ Authenticate \/ ReadBody \/ ParseAndPlan \/ Negotiate
  \/ Begin \/ Flight \/ CheckSettings \/ Count
  \/ CheckResult \/ Render \/ CommitRead \/ Format \/ CommitLast

Next == Step \/ ConnectionLost \/ Disconnect \/ Other

Spec == Init /\ [][Next]_vars

(***************************************************************************)
(* Properties                                                              *)
(***************************************************************************)
Labels == {"authenticate", "body", "parse", "negotiate", "begin", "flight", "settings", "count",
           "checks", "rendered", "readcommit", "format", "commit", "done", "gone"}

\* The variables keep their types.
TypeOK ==
  /\ pc \in Labels /\ role \in {"none", "anon", "user"}
  /\ db \in Table /\ others \in 0..MaxOthers
  /\ tx \in [open : BOOLEAN, snap : Table, touched : SUBSET Keys,
              own : [Keys -> Version \cup {"same"}]]
  /\ out.total \in Int /\ out.calls \in 0..2
  /\ resp.status \in Nat /\ resp.n \in Nat
  /\ final \in [outcome : {"none", "committed", "rolledback", "unknown"}, keys : SUBSET Keys]

Answered == pc = "done" /\ resp.err = "ok"
Unranged == ~NeedsBody(h) \/ (PageRange = Unpaged /\ EmbedPredicates(h) = {})

\* A request the client is told failed has written nothing, wherever it was
\* refused, unless the connection broke under its COMMIT (process_request).
RefusedWritesNothing ==
  pc = "done" /\ resp.err # "ok" /\ final.outcome # "unknown" => final.keys = {}

\* A response that reports success is sent after the transaction committed.
SuccessIsCommitted == Answered /\ act.kind # "info" => final.outcome = "committed"

\* A GET or HEAD writes nothing, whatever the function it calls does.
ReadsWriteNothing == h.method \in {"GET", "HEAD"} => final.keys = {} /\ tx.touched = {}

\* What was written was written with the caller's own privileges, and the
\* pre-request function ran as the caller and under the caller's limits.
CallerPrivileges ==
  /\ IsMutation(act) /\ final.keys # {} => (IF h.token = "good" THEN "user" ELSE "anon") \in Writers
  /\ pc = "flight" /\ cfg.preRequest # "none" =>
       LET s == Session("prerequest") IN s.role = role /\ s.ro = (h.method \in {"GET", "HEAD"})

\* PATCH and DELETE touch only the rows every filter of the request accepts;
\* PUT writes the one row its URL names (a body without columns and a body
\* the schema renders are not checked by the code: see the README).
WriteWithinFilter ==
  /\ h.method \in {"PATCH", "DELETE"} => \A k \in final.keys : Satisfies(k, FiltersOf(h))
  /\ h.method = "PUT" /\ Answered /\ h.body.cols # {} /\ ~Rendered(h, act) =>
       \E k \in Keys : final.keys = {k} /\ Satisfies(k, FiltersOf(h))

\* Under handling=strict no more rows than max-affected are committed (none
\* where it is negative), where
\* the rows counted are the rows written (no page, no embed predicate, no
\* rendered body).
MaxAffectedHolds ==
  h.prefer.max # None /\ h.prefer.strict /\ IsMutation(act) /\ Unranged /\ ~Rendered(h, act) /\ final.keys # {}
    => Cardinality(final.keys) <= h.prefer.max

\* A client that asked for one object and was answered changed one row.
OneObjectOneRow ==
  Answered /\ h.accept[1] = "object" /\ IsMutation(act) /\ Unranged /\ ~Rendered(h, act)
    => Cardinality(final.keys) = 1

\* No test of an embed for null is left to be applied to a page.
TrimmedBeforePaged == PageRange = Unpaged \/ \A f \in FiltersOf(h) : ~NamesEmbed(f)

\* The page of a read is what the filters and the joins accept, offset and
\* limited, in the state the statement saw; a test of an embed for null is
\* applied after the page (README).
PageIsTheWindow ==
  act.kind = "read" /\ Answered /\ TrimmedBeforePaged
    => LET kept == Cardinality({k \in Present(tx.snap) :
                     /\ \A f \in FiltersOf(h) : NamesEmbed(f) \/ k \in f.keys
                     /\ Survives(k, h)})
           left == IF Skipped(PageRange) > kept THEN 0 ELSE kept - Skipped(PageRange)
       IN resp.n = IF PageRange.limit = None \/ PageRange.limit > left THEN left ELSE PageRange.limit

\* The window reported lies within the total reported, and the status says
\* whether there is more, when nobody wrote meanwhile or the transaction
\* reads one snapshot; again but for a page that is trimmed afterwards.  Where
\* the pre-request function sets response.status, that is the status instead,
\* and it says nothing of the window (only the range reported does).
WindowWithinTotal ==
  Answered /\ act.kind = "read" /\ h.prefer.count = "exact" /\ ~Rendered(h, act)
  /\ (others = 0 \/ cfg.isolation = "rr") /\ TrimmedBeforePaged
    => /\ resp.n > 0 => resp.window.end < resp.window.total
       /\ IF cfg.preRequest = "status" THEN resp.status = GucStatus
          ELSE (resp.status = 206) <=> (resp.n < resp.window.total)

\* The answer is what happened: a request the client is told failed has written
\* nothing, and one it is told succeeded has committed.  (Failure is an error of
\* the pipeline's: a 4xx or 5xx the schema set as response.status goes out with
\* the rows over a transaction that commits.)
AnswerIsTrue == RefusedWritesNothing /\ SuccessIsCommitted

\* A request writes what its caller asked for and may write: nothing for a
\* read, no row its filters do not accept, no more rows than it allowed, and
\* never with privileges other than the caller's.
WritesAsAsked ==
  ReadsWriteNothing /\ CallerPrivileges /\ WriteWithinFilter /\ MaxAffectedHolds /\ OneObjectOneRow

\* What a read's response says of its rows is so: the page is the window asked
\* for, and lies as reported within the total reported, and the status tells
\* whether there is more unless the pre-request function set one of its own.
ResponseDescribesRows == PageIsTheWindow /\ WindowWithinTotal
=============================================================================
