-------------------------- MODULE MCPendingSignups --------------------------
(***************************************************************************)
(* Two workers over a table of two rows and one rescue per row.            *)
(***************************************************************************)
EXTENDS PendingSignups, TLC

Symmetry == Permutations(Worker) \cup Permutations(Id) \cup Permutations(Email)
=============================================================================
