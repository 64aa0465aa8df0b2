----------------------------- MODULE MCLocking -----------------------------
(* Two runs and a submit beside create; the runs are interchangeable. *)
EXTENDS OutcomeLocking, TLC

RunnerSymmetry == Permutations(Runners)
=============================================================================
