---------------------------- MODULE MCTraceClean ----------------------------
(* Small instances of TraceClean for TLC. *)
EXTENDS TraceClean, TLC

\* Processes of a kind are alike, and so are session ids.
Symmetry == Permutations(Agent) \cup Permutations(Session) \cup Permutations(Cleaner)

=============================================================================
