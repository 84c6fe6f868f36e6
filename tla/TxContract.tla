---------------------------- MODULE TxContract -----------------------------
(***************************************************************************)
(* What a transaction of postrust-core/src/db/mod.rs promises its caller,  *)
(* whichever driver is behind it: the Tx trait.  Statements take effect    *)
(* in the order they were queued and called, as if sent one at a time; the *)
(* first failure is reported with its own error, marked if the statement   *)
(* had been queued; after a failure nothing is kept; and the transaction   *)
(* is committed by the call that says so and by nothing else.              *)
(*                                                                         *)
(* A caller drops the transaction at the first error, as every caller in   *)
(* postrust-engine and postrust-core does with `?`.                        *)
(***************************************************************************)
EXTENDS PgSession

CONSTANTS
    MaxStmts    \* how many statements one transaction runs

VARIABLES
    fault,      \* what becomes of each statement
    due,        \* statements queued or called, and not answered yet
    queuedDue,  \* how many of `due` were queued
    done,       \* statements answered
    durable,    \* what is committed
    phase,      \* "idle" | "busy" | "ended"
    reply       \* the last answer

cvars == <<fault, due, queuedDue, done, durable, phase, reply>>

Reply == [kind : {"none", "ok", "failed", "masked", "lost", "connection"},
          stmt : Sql \cup {"none"}, queued : BOOLEAN]

NoReply == [kind |-> "none", stmt |-> "none", queued |-> FALSE]
Ok == [kind |-> "ok", stmt |-> "none", queued |-> FALSE]
ConnectionFailed == [kind |-> "connection", stmt |-> "none", queued |-> FALSE]

\* The statements a call sends: execute, fetch_json, fetch_values, fetch_raw;
\* fetch_json_then; and the forms that commit.
Calls == {<<s>> : s \in Stmts} \cup {<<s, t>> : s, t \in Stmts} \cup {<<Commit>>}
         \cup {<<s, Commit>> : s \in Stmts} \cup {<<s, t, Commit>> : s, t \in Stmts}

Fails(stmts, k) == fault[stmts[k]] # "none"

FirstFailure(stmts) ==
    CHOOSE k \in DOMAIN stmts : Fails(stmts, k) /\ \A j \in 1..(k-1) : ~Fails(stmts, j)

Succeeds(stmts) == \A k \in DOMAIN stmts : ~Fails(stmts, k)

EndsTransaction(stmts) == stmts # <<>> /\ stmts[Len(stmts)] = Commit

\* What a transaction that ends with COMMIT has run before it.
Statements(stmts) == SubSeq(stmts, 1, Len(stmts) - 1)

CInit ==
    /\ fault \in Faults
    /\ due = <<>> /\ queuedDue = 0 /\ done = <<>> /\ durable = <<>>
    /\ phase = "idle" /\ reply = NoReply

Queue(s) ==
    /\ phase = "idle"
    /\ Len(done) + Len(due) < MaxStmts
    /\ due' = Append(due, s)
    /\ UNCHANGED <<fault, queuedDue, done, durable, phase, reply>>

Call(stmts) ==
    /\ phase = "idle"
    /\ Len(done) + Len(due) + Len(stmts) <= MaxStmts
    /\ due' = due \o stmts
    /\ queuedDue' = Len(due)
    /\ phase' = "busy"
    /\ reply' = NoReply
    /\ UNCHANGED <<fault, done, durable>>

AnswerOk ==
    /\ phase = "busy"
    /\ Succeeds(due)
    /\ done' = done \o due
    /\ due' = <<>>
    /\ reply' = Ok
    /\ IF EndsTransaction(due)
       THEN phase' = "ended" /\ durable' = Statements(done \o due)
       ELSE phase' = "idle" /\ UNCHANGED durable
    /\ UNCHANGED <<fault, queuedDue>>

AnswerFailed ==
    /\ phase = "busy"
    /\ ~Succeeds(due)
    /\ LET k == FirstFailure(due) IN
       reply' = [kind |-> "failed", stmt |-> due[k], queued |-> k <= queuedDue]
    /\ phase' = "ended"
    /\ UNCHANGED <<fault, due, queuedDue, done, durable>>

\* The connection broke, or the call was abandoned: whether a COMMIT took effect
\* is not known.
AnswerConnection ==
    /\ phase = "busy"
    /\ reply' \in {reply, ConnectionFailed}
    /\ phase' = "ended"
    /\ \/ UNCHANGED durable
       \/ /\ Succeeds(due) /\ EndsTransaction(due)
          /\ durable' = Statements(done \o due)
    /\ UNCHANGED <<fault, due, queuedDue, done>>

\* The connection could not be had, or the caller is done with it.
Drop ==
    /\ phase = "idle"
    /\ phase' = "ended"
    /\ reply' \in {reply, ConnectionFailed}
    /\ UNCHANGED <<fault, due, queuedDue, done, durable>>

\* What made a statement fail -- a lock, a conflict -- may pass.
FaultPasses ==
    /\ \E s \in Stmts : fault[s] = "exec" /\ fault' = [fault EXCEPT ![s] = "none"]
    /\ UNCHANGED <<due, queuedDue, done, durable, phase, reply>>

CNext ==
    \/ \E s \in Stmts : Queue(s)
    \/ \E stmts \in Calls : Call(stmts)
    \/ AnswerOk \/ AnswerFailed \/ AnswerConnection \/ Drop
    \/ FaultPasses

CSpec == CInit /\ [][CNext]_cvars

=============================================================================
