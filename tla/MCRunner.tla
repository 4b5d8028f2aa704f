------------------------------ MODULE MCRunner ------------------------------
(***************************************************************************)
(* ExperimentRunner for TLC: the processes are interchangeable.            *)
(***************************************************************************)
EXTENDS ExperimentRunner, TLC

Symmetry == Permutations(Runner)

=============================================================================
