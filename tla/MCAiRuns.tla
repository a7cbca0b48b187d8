------------------------------ MODULE MCAiRuns -------------------------------
(* Instances of AiRuns for TLC: names for the conversations and the top-up. *)
EXTENDS AiRuns

CONSTANTS c1, c2, t1
=============================================================================
