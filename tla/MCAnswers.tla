---------------------------- MODULE MCAnswers ----------------------------
(* An instance of Answers for TLC. *)
EXTENDS Answers

CONSTANTS cfg, periodic

Call(c, i) == [component |-> c, id |-> i]

\* All connectors, and one below the first
FewCalls == {Call(2, 0), Call(2, -1)}
============================================================================
