------------------------------- MODULE SqlxTx -------------------------------
(***************************************************************************)
(* The sqlx driver of postrust-core/src/db/sqlx_impl.rs: a transaction on  *)
(* a pooled connection that runs what was queued, and then the statements  *)
(* of the call, one at a time, each answered before the next is sent.      *)
(***************************************************************************)
EXTENDS PgSession

CONSTANTS
    MaxStmts    \* how many statements the transaction runs

ASSUME SqlxAssumption == MaxStmts \in Nat

VARIABLES
    fault,      \* what becomes of each statement
    tx,         \* SqlxTx, and where its call is
    session,    \* the PostgreSQL session of its connection
    due,        \* history: queued or called, and not answered yet
    queuedDue,  \* history: how many of `due` were queued
    done,       \* history: answered
    reply       \* the last answer given to the caller

vars == <<fault, tx, session, due, queuedDue, done, reply>>

\* Where the transaction is, as its caller sees it.
Phase == CASE tx.pc \in {"new", "ready"} -> "idle"
           [] tx.pc = "over" -> "ended"
           [] OTHER -> "busy"

Contract == INSTANCE TxContract WITH durable <- session.durable, phase <- Phase

NoReply == [kind |-> "none", stmt |-> "none", queued |-> FALSE]
Ok == [kind |-> "ok", stmt |-> "none", queued |-> FALSE]
ConnectionFailed == [kind |-> "connection", stmt |-> "none", queued |-> FALSE]

\* `queued` is the field of SqlxTx; `left` is what the loop of `flush` has
\* still to run, and `stmts` what the call has.
Tx == [pc : {"new", "ready", "flush", "run", "over"},
       queued : Seq(Stmts), left : Seq(Stmts), stmts : Seq(Sql)]

\* Nothing waits to be sent that the caller has an answer to.
TypeOK ==
    /\ fault \in Faults
    /\ tx \in Tx /\ session \in Session
    /\ reply \in Contract!Reply
    /\ Len(tx.queued) + Len(tx.left) <= Len(due)

Init ==
    /\ fault \in Faults
    /\ tx = [pc |-> "new", queued |-> <<>>, left |-> <<>>, stmts |-> <<>>]
    /\ session = NewSession
    /\ due = <<>> /\ queuedDue = 0 /\ done = <<>>
    /\ reply = NoReply

\* PgPool::begin: a connection of the pool, and BEGIN on it.
BeginTx ==
    /\ tx.pc = "new"
    /\ tx' = [tx EXCEPT !.pc = "ready"]
    /\ session' = After(session, Begin, fault)
    /\ UNCHANGED <<fault, due, queuedDue, done, reply>>

BeginFails ==
    /\ tx.pc = "new"
    /\ tx' = [tx EXCEPT !.pc = "over"]
    /\ reply' = ConnectionFailed
    /\ UNCHANGED <<fault, session, due, queuedDue, done>>

QueueStatement(s) ==
    /\ tx.pc = "ready"
    /\ Len(done) + Len(due) < MaxStmts
    /\ tx' = [tx EXCEPT !.queued = Append(@, s)]
    /\ due' = Append(due, s)
    /\ UNCHANGED <<fault, session, queuedDue, done, reply>>

\* mem::take leaves the queue empty.
TakeQueued == <<>>

\* A call of the Tx trait: `flush` first.
StartCall(stmts) ==
    /\ tx.pc = "ready"
    /\ Len(done) + Len(due) + Len(stmts) <= MaxStmts
    /\ tx' = [pc |-> "flush", queued |-> TakeQueued, left |-> tx.queued, stmts |-> stmts]
    /\ due' = due \o stmts
    /\ queuedDue' = Len(due)
    /\ reply' = NoReply
    /\ UNCHANGED <<fault, session, done>>

\* The statement fails, and the call with it; one whose parameters do not
\* encode is not sent.
FailWith(s, queued) ==
    /\ session' = IF fault[s] = "encode" THEN session ELSE After(session, s, fault)
    /\ tx' = [tx EXCEPT !.pc = "over", !.left = <<>>]
    /\ reply' = [kind |-> IF Outcome(session, s, fault) = "25P02" THEN "masked" ELSE "failed",
                 stmt |-> s, queued |-> queued]
    /\ UNCHANGED <<fault, due, queuedDue, done>>

\* A mutant: a failure of a queued statement is passed over.
FlushIgnoringErrors ==
    /\ tx.pc = "flush" /\ tx.left # <<>>
    /\ session' = IF fault[Head(tx.left)] = "encode" THEN session
                  ELSE After(session, Head(tx.left), fault)
    /\ tx' = [tx EXCEPT !.left = Tail(@)]
    /\ UNCHANGED <<fault, due, queuedDue, done, reply>>

\* One round of flush's loop.
FlushStatement ==
    /\ tx.pc = "flush" /\ tx.left # <<>>
    /\ LET s == Head(tx.left) IN
       \/ /\ Outcome(session, s, fault) = "ok"
          /\ session' = After(session, s, fault)
          /\ tx' = [tx EXCEPT !.left = Tail(@)]
          /\ UNCHANGED <<fault, due, queuedDue, done, reply>>
       \/ /\ Outcome(session, s, fault) # "ok"
          /\ FailWith(s, TRUE)

\* The queue is flushed.
Flushed ==
    /\ tx.pc = "flush" /\ tx.left = <<>>
    /\ tx' = [tx EXCEPT !.pc = "run"]
    /\ UNCHANGED <<fault, session, due, queuedDue, done, reply>>

\* The next statement of the call itself.  The last one answers it; commit
\* takes the transaction with it.
RunStatement ==
    /\ tx.pc = "run"
    /\ LET s == Head(tx.stmts) IN
       \/ /\ Outcome(session, s, fault) = "ok"
          /\ session' = After(session, s, fault)
          /\ \/ /\ Len(tx.stmts) > 1
                /\ tx' = [tx EXCEPT !.stmts = Tail(@)]
                /\ UNCHANGED <<due, done, reply>>
             \/ /\ Len(tx.stmts) = 1
                /\ tx' = [tx EXCEPT !.pc = IF s = Commit THEN "over" ELSE "ready", !.stmts = <<>>]
                /\ due' = <<>>
                /\ done' = done \o due
                /\ reply' = Ok
          /\ UNCHANGED <<fault, queuedDue>>
       \/ /\ Outcome(session, s, fault) # "ok"
          /\ FailWith(s, FALSE)

\* Dropped without commit: the connection is rolled back and given back.
DropTx ==
    /\ tx.pc \in {"ready", "over"}
    /\ session.state \in {"open", "aborted"}
    /\ tx' = [tx EXCEPT !.pc = "over"]
    /\ session' = RolledBack(session)
    /\ UNCHANGED <<fault, due, queuedDue, done, reply>>

\* The connection breaks, or the caller's future is dropped where it waits,
\* before or after the statement in hand took effect.
ConnectionBreaks ==
    /\ tx.pc \in {"flush", "run"}
    /\ LET s == IF tx.pc = "run" THEN Head(tx.stmts)
                ELSE IF tx.left # <<>> THEN Head(tx.left) ELSE Begin IN
       session' \in {Closed(session)} \cup
                    (IF fault[s] = "encode" THEN {} ELSE {Closed(After(session, s, fault))})
    /\ tx' = [tx EXCEPT !.pc = "over", !.left = <<>>]
    /\ reply' \in {reply, ConnectionFailed}
    /\ UNCHANGED <<fault, due, queuedDue, done>>

\* A lock is released, a conflicting transaction ends.
FaultPasses(s) ==
    /\ fault[s] = "exec"
    /\ fault' = [fault EXCEPT ![s] = "none"]
    /\ UNCHANGED <<tx, session, due, queuedDue, done, reply>>

Next ==
    \/ BeginTx \/ BeginFails \/ DropTx
    \/ \E s \in Stmts : QueueStatement(s)
    \/ \E stmts \in Contract!Calls : StartCall(stmts)
    \/ FlushStatement \/ Flushed \/ RunStatement
    \/ ConnectionBreaks
    \/ \E s \in Stmts : FaultPasses(s)

Spec == Init /\ [][Next]_vars

-----------------------------------------------------------------------------
(* Properties *)

\* "the two must answer every request alike": the sqlx driver implements the
\* contract of the Tx trait that SocketTx implements, failures that pass while
\* the transaction runs included.
ImplementsContract == Contract!CSpec

=============================================================================
