-------------------------- MODULE MCPgTransactions --------------------------
(* Instances of PgTransactions for TLC. *)
EXTENDS PgTransactions, TLC

Symmetry == Permutations(Tx) \cup Permutations(Calls)
=============================================================================
