---------------------------- MODULE MCFulfilment ----------------------------
(***************************************************************************)
(* Two workers, one row and its account, and a Stage 2 that can stop half  *)
(* way.                                                                    *)
(***************************************************************************)
EXTENDS Fulfilment
=============================================================================
