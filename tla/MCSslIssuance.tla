-------------------------- MODULE MCSslIssuance --------------------------
(* Instances of SslIssuance for TLC. *)
EXTENDS SslIssuance, TLC

\* Row ids, workers and callers are interchangeable.
Symmetry == Permutations(Ids) \cup Permutations(Workers) \cup Permutations(Callers)
=============================================================================
