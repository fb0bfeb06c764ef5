---------------------------- MODULE MCTrialSkills ----------------------------
(* TrialSkills with a template of one and one of two spellings. *)
EXTENDS TrialSkills, TLC

Symmetry == Permutations(Trial)

OneThenTwo == [v \in 1 .. MaxVersion |-> IF v = 1 THEN 1 ELSE 2]
=============================================================================
