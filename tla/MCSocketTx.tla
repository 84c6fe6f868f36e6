----------------------------- MODULE MCSocketTx -----------------------------
(* SocketTx on small instances. *)
EXTENDS SocketTx, TLC

Symmetry == Permutations(Stmts) \cup Permutations(Txs)

=============================================================================
