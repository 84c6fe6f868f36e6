----------------------------- MODULE PgSession -----------------------------
(***************************************************************************)
(* One PostgreSQL session, as the drivers of postrust-core/src/db use it:  *)
(* what a statement does to the session, and what it answers.              *)
(*                                                                         *)
(* A statement is a name.  What becomes of it is `fault`:                  *)
(*   "none"    it succeeds                                                 *)
(*   "parse"   it is refused before its result is described                *)
(*   "exec"    it is refused after its result was described                *)
(*   "encode"  a parameter does not encode, and it is never sent           *)
(***************************************************************************)
EXTENDS Naturals, Sequences

CONSTANTS
    Stmts,    \* the statements a caller may run
    Begin,    \* BEGIN
    Commit    \* COMMIT

ASSUME StatementAssumption == Begin \notin Stmts /\ Commit \notin Stmts /\ Begin # Commit

Sql == Stmts \cup {Begin, Commit}

Faults == {f \in [Sql -> {"none", "parse", "exec", "encode"}] :
             /\ f[Begin] = "none"
             /\ f[Commit] \in {"none", "exec"}}

\* `work` is what the open transaction has done, `durable` what is committed.
Session == [state : {"idle", "open", "aborted", "closed"},
            work : Seq(Stmts), durable : Seq(Stmts)]

NewSession == [state |-> "idle", work |-> <<>>, durable |-> <<>>]

\* What the session answers to a statement that reaches it.  COMMIT of an
\* aborted transaction is answered without an error: it rolls back.
Outcome(session, s, fault) ==
    CASE s = Commit -> IF session.state = "open" /\ fault[s] # "none" THEN "error" ELSE "ok"
      [] s # Commit /\ session.state = "aborted" -> "25P02"
      [] s # Commit /\ session.state # "aborted" -> IF fault[s] # "none" THEN "error" ELSE "ok"

\* The session once the statement has been answered.  Outside a transaction
\* every statement commits on its own.
After(session, s, fault) ==
    CASE s = Begin /\ session.state = "idle" -> [session EXCEPT !.state = "open"]
      [] s = Commit ->
            [session EXCEPT !.state = "idle", !.work = <<>>,
                            !.durable = IF session.state = "open" /\ fault[s] = "none"
                                        THEN @ \o session.work ELSE @]
      [] s \in Stmts /\ session.state = "open" ->
            IF fault[s] = "none" THEN [session EXCEPT !.work = Append(@, s)]
                                 ELSE [session EXCEPT !.state = "aborted", !.work = <<>>]
      [] s \in Stmts /\ session.state = "idle" /\ fault[s] = "none" ->
            [session EXCEPT !.durable = Append(@, s)]
      [] OTHER -> session

\* ROLLBACK, and the end of the connection, which rolls back.
RolledBack(session) == [session EXCEPT !.state = "idle", !.work = <<>>]
Closed(session) == [session EXCEPT !.state = "closed", !.work = <<>>]

=============================================================================
