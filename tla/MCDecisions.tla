---------------------------- MODULE MCDecisions ----------------------------
(* A small instance of Decisions, with the thresholds scaled down.         *)
EXTENDS Decisions

MCLengths == {1, 2}
MCEffects == -1 .. 2
MCReportedGaps == {Unknown, 0, 3}
=============================================================================
