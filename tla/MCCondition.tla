----------------------------- MODULE MCCondition -----------------------------
(* ConditionUse for TLC: the threads are interchangeable. *)
EXTENDS ConditionUse, TLC

Symmetry == Permutations(Threads)
================================================================================
