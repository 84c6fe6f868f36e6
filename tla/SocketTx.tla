------------------------------ MODULE SocketTx ------------------------------
(***************************************************************************)
(* The pipelining driver of postrust-core/src/db/socket.rs: transactions   *)
(* that each own a connection, send BEGIN and the queued statements ahead  *)
(* of the next one in as few flights as they can, and run a failed         *)
(* transaction again when a type lookup hid the failing statement's error. *)
(*                                                                         *)
(* A flight is one step: its statements are written before any answer is   *)
(* read, and PostgreSQL runs them in order.  What other transactions do to *)
(* RESULT_TYPES, which is shared by the process, happens between steps.    *)
(***************************************************************************)
EXTENDS PgSession, FiniteSets

CONSTANTS
    Txs,        \* transactions running concurrently in the process
    Kept,       \* RESULT_TYPES_KEPT
    MaxStmts,   \* how many statements one transaction runs
    Transient   \* whether what makes a statement fail may pass

ASSUME SocketAssumption ==
    /\ Kept \in Nat \ {0}
    /\ MaxStmts \in Nat
    /\ Transient \in BOOLEAN

VARIABLES
    fault,      \* what becomes of each statement
    custom,     \* statements whose result has a type that is not built in
    known,      \* RESULT_TYPES
    tx,         \* SocketTx, and where its `send` is
    session,    \* the PostgreSQL session of its connection
    due,        \* history: queued or called, and not answered yet
    queuedDue,  \* history: how many of `due` were queued
    done,       \* history: answered
    ranIn,      \* history: for each answered statement, the run that answered it
    reply       \* the last answer given to the caller

vars == <<fault, custom, known, tx, session, due, queuedDue, done, ranIn, reply>>

\* Where a transaction is, as its caller sees it.
Phase(t) == CASE tx[t].pc \in {"new", "ready"} -> "idle"
              [] tx[t].pc = "over" -> "ended"
              [] OTHER -> "busy"

Contract(t) == INSTANCE TxContract WITH
    due <- due[t], queuedDue <- queuedDue[t], done <- done[t],
    durable <- session[t].durable, reply <- reply[t], phase <- Phase(t)

Replies == Contract(CHOOSE t \in Txs : TRUE)!Reply
Calls == Contract(CHOOSE t \in Txs : TRUE)!Calls

NoReply == [kind |-> "none", stmt |-> "none", queued |-> FALSE]
Ok == [kind |-> "ok", stmt |-> "none", queued |-> FALSE]
ConnectionFailed == [kind |-> "connection", stmt |-> "none", queued |-> FALSE]

Busy == {"begin", "prepare", "fly", "masked", "rollback"}

\* `queued` and `sent` are the fields of SocketTx; the rest is what `send` and
\* `flights` hold while they run.  `typed` is the client's own cache of looked
\* up types, by the statement that needs them.
Tx == [pc : {"new", "ready", "over"} \cup Busy,
       queued : Seq(Sql), sent : Seq(Sql), ahead : Seq(Sql), stmts : Seq(Sql),
       start : Nat, end : Nat, prepared : BOOLEAN, runs : Nat, limit : Nat,
       masked : Nat, typed : SUBSET Sql]

NewTx == [pc |-> "new", queued |-> <<>>, sent |-> <<>>, ahead |-> <<>>, stmts |-> <<>>,
          start |-> 1, end |-> 1, prepared |-> FALSE, runs |-> 0, limit |-> 0,
          masked |-> 0, typed |-> {}]

TypeOK ==
    /\ fault \in Faults
    /\ custom \subseteq Stmts
    /\ known \subseteq Stmts /\ Cardinality(known) <= Kept
    /\ DOMAIN tx = Txs /\ \A t \in Txs : tx[t] \in Tx
    /\ DOMAIN session = Txs /\ \A t \in Txs : session[t] \in Session
    /\ \A t \in Txs : reply[t] \in Replies

Init ==
    /\ fault \in Faults
    /\ custom \in SUBSET Stmts
    /\ known = {}
    /\ tx = [t \in Txs |-> NewTx]
    /\ session = [t \in Txs |-> NewSession]
    /\ due = [t \in Txs |-> <<>>]
    /\ queuedDue = [t \in Txs |-> 0]
    /\ done = [t \in Txs |-> <<>>]
    /\ ranIn = [t \in Txs |-> <<>>]
    /\ reply = [t \in Txs |-> NoReply]

-----------------------------------------------------------------------------
(* The caller *)

\* PgSocketDb::begin: the connection is opened, and BEGIN waits to be sent with
\* the first statement.
OpenConnection(t) ==
    /\ tx[t].pc = "new"
    /\ tx' = [tx EXCEPT ![t] = [@ EXCEPT !.pc = "ready", !.queued = <<Begin>>]]
    /\ UNCHANGED <<fault, custom, known, session, due, queuedDue, done, ranIn, reply>>

\* begin fails, or times out.
ConnectFails(t) ==
    /\ tx[t].pc = "new"
    /\ tx' = [tx EXCEPT ![t].pc = "over"]
    /\ session' = [session EXCEPT ![t] = Closed(@)]
    /\ reply' = [reply EXCEPT ![t] = ConnectionFailed]
    /\ UNCHANGED <<fault, custom, known, due, queuedDue, done, ranIn>>

QueueStatement(t, s) ==
    /\ tx[t].pc = "ready"
    /\ Len(done[t]) + Len(due[t]) < MaxStmts
    /\ tx' = [tx EXCEPT ![t].queued = Append(@, s)]
    /\ due' = [due EXCEPT ![t] = Append(@, s)]
    /\ UNCHANGED <<fault, custom, known, session, queuedDue, done, ranIn, reply>>

\* How often `send` runs the transaction again.
Limit(t, stmts) == Len(tx[t].queued) + Len(stmts) + Len(tx[t].sent)

\* execute, fetch_json and the rest enter `send` with one to three statements.
Send(t, stmts) ==
    /\ tx[t].pc = "ready"
    /\ Len(done[t]) + Len(due[t]) + Len(stmts) <= MaxStmts
    /\ tx' = [tx EXCEPT ![t] =
                [@ EXCEPT !.pc = "begin", !.ahead = tx[t].queued, !.queued = <<>>,
                          !.stmts = stmts, !.start = 1, !.runs = 0,
                          !.limit = Limit(t, stmts)]]
    /\ due' = [due EXCEPT ![t] = @ \o stmts]
    /\ queuedDue' = [queuedDue EXCEPT ![t] = Len(due[t])]
    /\ reply' = [reply EXCEPT ![t] = NoReply]
    /\ UNCHANGED <<fault, custom, known, session, done, ranIn>>

\* The transaction is dropped, and its connection with it: PostgreSQL rolls
\* back what is open.
DropTx(t) ==
    /\ tx[t].pc \in {"ready", "over"}
    /\ session[t].state # "closed"
    /\ session' = [session EXCEPT ![t] = Closed(@)]
    /\ tx' = [tx EXCEPT ![t].pc = "over"]
    /\ UNCHANGED <<fault, custom, known, due, queuedDue, done, ranIn, reply>>

-----------------------------------------------------------------------------
(* `flights` *)

All(t) == tx[t].ahead \o tx[t].stmts

\* A failure of statement k of All(t), as the caller hears of it.
Report(t, kind, k) ==
    /\ reply' = [reply EXCEPT ![t] = [kind |-> kind, stmt |-> All(t)[k],
                                      queued |-> k <= Len(tx[t].ahead)]]
    /\ UNCHANGED <<due, queuedDue, done, ranIn>>

\* A mutant: everything goes at once.
FlightToTheEnd(t) == Len(All(t)) + 1

\* The flight ends short of the next statement that has to be prepared.
FlightEnd(t) ==
    LET later == {k \in (tx[t].start + 1)..Len(All(t)) : All(t)[k] \in known} IN
    IF later = {} THEN Len(All(t)) + 1
                  ELSE CHOOSE k \in later : \A j \in later : k <= j

BeginFlight(t) ==
    /\ tx[t].pc = "begin"
    /\ LET prepare == All(t)[tx[t].start] \in known IN
       tx' = [tx EXCEPT ![t] = [@ EXCEPT !.end = FlightEnd(t), !.prepared = prepare,
                                         !.pc = IF prepare THEN "prepare" ELSE "fly"]]
    /\ UNCHANGED <<fault, custom, known, session, due, queuedDue, done, ranIn, reply>>

\* What follows the prepare: the flight the statement starts.
AfterPrepare == "fly"

\* prepare: the statement is parsed and its result's types are looked up.
Prepare(t) ==
    LET s == All(t)[tx[t].start] IN
    /\ tx[t].pc = "prepare"
    /\ \/ /\ fault[s] # "parse"
          /\ tx' = [tx EXCEPT ![t] = [@ EXCEPT !.pc = AfterPrepare,
                                               !.typed = tx[t].typed \cup {s}]]
          /\ UNCHANGED <<session, due, queuedDue, done, ranIn, reply>>
       \/ /\ fault[s] = "parse"
          /\ tx' = [tx EXCEPT ![t].pc = "over"]
          /\ session' = [session EXCEPT ![t] = After(@, s, fault)]
          /\ Report(t, "failed", tx[t].start)
    /\ UNCHANGED <<fault, custom, known>>

Flight(t) == SubSeq(All(t), tx[t].start, tx[t].end - 1)

\* in_order: a statement that fails on its first poll was never sent, and
\* nothing behind it is.
SentOf(flight) ==
    LET unsent == {k \in DOMAIN flight : fault[flight[k]] = "encode"} IN
    IF unsent = {} THEN Len(flight) ELSE (CHOOSE k \in unsent : \A j \in unsent : k <= j) - 1

\* The session before the flight, and after each statement of it that was sent.
Sessions(t, flight) ==
    LET after[k \in 0..SentOf(flight)] ==
            IF k = 0 THEN session[t] ELSE After(after[k - 1], flight[k], fault)
    IN after

\* The result of statement k is described before it runs, and its types are
\* looked up unless it was prepared or the client knows them.
LooksUp(t, flight, after, k) ==
    LET s == flight[k]
        outcome == Outcome(after[k - 1], s, fault)
    IN /\ s \in custom \ tx[t].typed
       /\ ~(k = 1 /\ tx[t].prepared)
       /\ outcome = "ok" \/ (outcome = "error" /\ fault[s] = "exec")

\* The lookup runs behind the whole flight: where that has aborted the
\* transaction it is refused, and its refusal is what the driver sees.
AnswerTo(t, flight, after, k) ==
    LET sent == SentOf(flight) IN
    IF k > sent THEN "error"
    ELSE IF LooksUp(t, flight, after, k) /\ after[sent].state = "aborted" THEN "25P02"
    ELSE Outcome(after[k - 1], flight[k], fault)

\* Whether the flight was the last of the call.
LastFlight(t) == tx[t].end > Len(All(t))

\* Where the next flight starts.
NextStart(t) == tx[t].end

\* Every answer is an `Ok`: on to the next flight, or back to the caller.
FlightAnswers(t) ==
    LET flight == Flight(t)
        after == Sessions(t, flight)
        sent == SentOf(flight)
        typed == tx[t].typed \cup
                   {flight[k] : k \in {j \in 1..sent : LooksUp(t, flight, after, j)}}
    IN
    /\ tx[t].pc = "fly"
    /\ \A k \in DOMAIN flight : AnswerTo(t, flight, after, k) = "ok"
    /\ session' = [session EXCEPT ![t] = after[sent]]
    /\ \/ /\ ~LastFlight(t)
          /\ tx' = [tx EXCEPT ![t] = [@ EXCEPT !.pc = "begin", !.start = NextStart(t),
                                               !.typed = typed]]
          /\ UNCHANGED <<due, queuedDue, done, ranIn, reply>>
       \/ /\ LastFlight(t)
          /\ tx' = [tx EXCEPT ![t] =
                      [@ EXCEPT !.pc = IF All(t)[Len(All(t))] = Commit THEN "over" ELSE "ready",
                                !.sent = tx[t].sent \o All(t), !.typed = typed]]
          /\ due' = [due EXCEPT ![t] = <<>>]
          /\ done' = [done EXCEPT ![t] = @ \o due[t]]
          /\ ranIn' = [ranIn EXCEPT ![t] = @ \o [k \in DOMAIN due[t] |-> tx[t].runs]]
          /\ reply' = [reply EXCEPT ![t] = Ok]
          /\ UNCHANGED queuedDue
    /\ UNCHANGED <<fault, custom, known>>

\* The first answer that is an error.  A 25P02 where everything before it
\* answered is its type lookup's, and its own error is not known.
FlightFails(t) ==
    LET flight == Flight(t)
        after == Sessions(t, flight)
        bad == {k \in DOMAIN flight : AnswerTo(t, flight, after, k) # "ok"}
        k == CHOOSE j \in bad : \A i \in bad : j <= i
        answer == AnswerTo(t, flight, after, k)
        at == tx[t].start + k - 1
    IN
    /\ tx[t].pc = "fly"
    /\ bad # {}
    /\ session' = [session EXCEPT ![t] = after[SentOf(flight)]]
    /\ \/ /\ answer = "25P02" /\ ~(k = 1 /\ tx[t].prepared)
          /\ tx' = [tx EXCEPT ![t] = [@ EXCEPT !.pc = "masked", !.masked = at]]
          /\ UNCHANGED <<due, queuedDue, done, ranIn, reply>>
       \/ /\ answer = "error" \/ (k = 1 /\ tx[t].prepared)
          /\ tx' = [tx EXCEPT ![t].pc = "over"]
          /\ Report(t, IF answer = "error" THEN "failed" ELSE "masked", at)
    /\ UNCHANGED <<fault, custom, known>>

-----------------------------------------------------------------------------
(* `send`, after a flight lost an error *)

\* RESULT_TYPES with the statement: a full set is emptied first.
Remembered(s) == (IF Cardinality(known) >= Kept THEN {} ELSE known) \cup {s}

\* RESULT_TYPES.remember: false, and the error as it is, where the statement
\* is already there.
Remember(t) ==
    LET s == All(t)[tx[t].masked] IN
    /\ tx[t].pc = "masked"
    /\ \/ /\ s \in known
          /\ tx' = [tx EXCEPT ![t].pc = "over"]
          /\ Report(t, "masked", tx[t].masked)
          /\ UNCHANGED known
       \/ /\ s \notin known
          /\ known' = Remembered(s)
          /\ tx' = [tx EXCEPT ![t].pc = "rollback"]
          /\ UNCHANGED <<due, queuedDue, done, ranIn, reply>>
    /\ UNCHANGED <<fault, custom, session>>

\* A mutant: only the call is run again.
CallAgain(t) == tx[t].ahead

\* What goes ahead of the call when the transaction is run again: everything
\* since the BEGIN.
AllAgain(t) == tx[t].sent \o tx[t].ahead

\* ROLLBACK, and the loop of send again from the BEGIN, at most limit + 1 times.
RunAgain(t) ==
    /\ tx[t].pc = "rollback"
    /\ session' = [session EXCEPT ![t] = RolledBack(@)]
    /\ \/ /\ tx[t].runs < tx[t].limit
          /\ tx' = [tx EXCEPT ![t] = [@ EXCEPT !.pc = "begin", !.ahead = AllAgain(t),
                                               !.sent = <<>>, !.start = 1,
                                               !.runs = tx[t].runs + 1]]
          /\ UNCHANGED <<due, queuedDue, done, ranIn, reply>>
       \/ /\ tx[t].runs >= tx[t].limit
          /\ tx' = [tx EXCEPT ![t].pc = "over"]
          /\ Report(t, "lost", tx[t].masked)
    /\ UNCHANGED <<fault, custom, known>>

\* The connection breaks, or the caller's future is dropped where it waits, with
\* any part of the flight already run.
ConnectionBreaks(t) ==
    /\ tx[t].pc \in {"prepare", "fly", "rollback"}
    /\ \E k \in IF tx[t].pc = "fly" THEN 0..SentOf(Flight(t)) ELSE {0} :
         session' = [session EXCEPT ![t] =
                       Closed(IF tx[t].pc = "fly" THEN Sessions(t, Flight(t))[k] ELSE @)]
    /\ tx' = [tx EXCEPT ![t].pc = "over"]
    /\ reply' \in {reply, [reply EXCEPT ![t] = ConnectionFailed]}
    /\ UNCHANGED <<fault, custom, known, due, queuedDue, done, ranIn>>

\* A lock is released, a conflicting transaction ends: what failed once would
\* not fail again.
FaultPasses(s) ==
    /\ Transient
    /\ fault[s] = "exec"
    /\ fault' = [fault EXCEPT ![s] = "none"]
    /\ UNCHANGED <<custom, known, tx, session, due, queuedDue, done, ranIn, reply>>

Driver(t) ==
    \/ BeginFlight(t) \/ Prepare(t) \/ FlightAnswers(t) \/ FlightFails(t)
    \/ Remember(t) \/ RunAgain(t)

Next ==
    \/ \E t \in Txs :
        \/ OpenConnection(t) \/ ConnectFails(t) \/ DropTx(t)
        \/ \E s \in Stmts : QueueStatement(t, s)
        \/ \E stmts \in Calls : Send(t, stmts)
        \/ Driver(t)
        \/ ConnectionBreaks(t)
    \/ \E s \in Stmts : FaultPasses(s)

Spec == Init /\ [][Next]_vars

-----------------------------------------------------------------------------
(* Properties *)

\* "As if they had been sent one at a time": the driver implements the contract
\* of the Tx trait, reruns and pipelining included.
ImplementsContract ==
    /\ \A t \in Txs : Contract(t)!CInit
    /\ [][\A t \in Txs : Contract(t)!CNext \/ UNCHANGED Contract(t)!cvars]_vars

\* What the caller is told is what the database did: what is committed is every
\* statement called or queued, once each and in order, or nothing, however often
\* the transaction was run again and whenever the connection broke; a call that
\* said it committed has committed, and a transaction of which a statement was
\* reported to have failed has left nothing behind.
OutcomeIsTrue ==
    \A t \in Txs :
        LET all == done[t] \o due[t] IN
        /\ session[t].durable # <<>> =>
              Contract(t)!EndsTransaction(all) /\ session[t].durable = Contract(t)!Statements(all)
        /\ reply[t].kind = "ok" /\ Contract(t)!EndsTransaction(done[t]) =>
              session[t].durable = Contract(t)!Statements(done[t])
        /\ reply[t].kind \in {"failed", "masked", "lost"} => session[t].durable = <<>>

\* "the same statements in the same order fail the same way": a transaction that
\* was run again to find a lost error commits nothing, so the answers its caller
\* already has are never those of a run that was rolled back.  It needs failures
\* that do happen again (Transient = FALSE): a lock or a conflict need not.
AnswersStand ==
    \A t \in Txs :
        session[t].durable # <<>> => \A k \in DOMAIN ranIn[t] : ranIn[t][k] = tx[t].runs

=============================================================================
