--------------------------- MODULE MCRequestFile ---------------------------
(***************************************************************************)
(* RequestFile with numbers for its bounds.                                *)
(***************************************************************************)
EXTENDS RequestFile

=============================================================================
