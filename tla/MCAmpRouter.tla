---------------------------- MODULE MCAmpRouter ----------------------------
(***************************************************************************)
(* Three concurrent kickoffs, one module with a cap of two executions, and *)
(* two customers whose events both belong to it.                           *)
(***************************************************************************)
EXTENDS AmpRouter, TLC

CONSTANTS lead, acme, bolt, salesTriage

MCModuleOf == lead :> salesTriage
MCMaxDaily == salesTriage :> 2
WorkerSymmetry == Permutations(Worker)
=============================================================================
