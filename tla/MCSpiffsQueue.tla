--------------------------- MODULE MCSpiffsQueue ---------------------------
(***************************************************************************)
(* SpiffsQueue with one connector, a request file of three lines and fault *)
(* logs of two: small enough to fill and overfill every file, large enough *)
(* for an entry between two others to leave.                               *)
(***************************************************************************)
EXTENDS SpiffsQueue, TLC

UuidSymmetry == Permutations(Uuid)

=============================================================================
