-------------------------- MODULE MCWorkspaceLock --------------------------
(* Small instances of WorkspaceLock for TLC. *)
EXTENDS WorkspaceLock, TLC

\* Processes are interchangeable: used by the run that
\* checks invariants only.
Symmetry == Permutations(Process)

=============================================================================
