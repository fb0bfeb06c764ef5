--------------------------- MODULE MCTraceJournal ---------------------------
(* Small instances of TraceJournal for TLC. *)
EXTENDS TraceJournal, TLC

\* Neither processes nor session ids are told apart.
Symmetry == Permutations(Agent) \cup Permutations(Session)

=============================================================================
