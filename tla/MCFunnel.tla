------------------------------ MODULE MCFunnel ------------------------------
(***************************************************************************)
(* One worker over a table of two rows, with the thresholds of             *)
(* config/ops_config.yaml.                                                 *)
(***************************************************************************)
EXTENDS Funnel, TLC

Symmetry == Permutations(Id)
=============================================================================
