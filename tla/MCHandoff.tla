----------------------------- MODULE MCHandoff -----------------------------
(***************************************************************************)
(* Handoff with sessions of three frames and faults of two: one frame that *)
(* opens a record, one that closes it, and one between them.               *)
(***************************************************************************)
EXTENDS Handoff

MCFrames  == [ch \in Channel |-> IF ch = "session" THEN 3 ELSE 2]
MCRecords == [ch \in Channel |-> IF ch = "session" THEN 3 ELSE 2]

=============================================================================
