---------------------------- MODULE MCActivation ----------------------------
(***************************************************************************)
(* Two flows over two accounts, one of whose customers has a payment       *)
(* method on file, and a Stage 2 of the three steps it has.                *)
(***************************************************************************)
EXTENDS Activation
=============================================================================
