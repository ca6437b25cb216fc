---------------------------- MODULE MCCanHealth -----------------------------
(***************************************************************************)
(* CanHealth with small frame sets and a limit of two rounds.              *)
(***************************************************************************)
EXTENDS CanHealth
=============================================================================
