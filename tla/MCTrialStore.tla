---------------------------- MODULE MCTrialStore ----------------------------
(* TrialStore with interchangeable processes and trials. *)
EXTENDS TrialStore, TLC

Symmetry == Permutations(Process) \cup Permutations(TrialId) \cup Permutations(Baseline)
=============================================================================
