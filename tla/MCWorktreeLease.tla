-------------------------- MODULE MCWorktreeLease --------------------------
(* Instances of WorktreeLease for TLC.                                     *)
EXTENDS WorktreeLease, TLC

\* Runs and commits are interchangeable in every safety property.
Symmetry == Permutations(Runs) \cup Permutations(Commits)
=============================================================================
