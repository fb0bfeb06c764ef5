--------------------------- MODULE MCProcessLease ---------------------------
(* A small instance of ProcessLease for TLC. *)
EXTENDS ProcessLease, TLC

\* Pids are alike.
Symmetry == Permutations(Pid)

=============================================================================
