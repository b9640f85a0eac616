-------------------------- MODULE MCPublication --------------------------
(* Small instances of Publication for TLC.  The model values of workers,  *)
(* posts and keys are given in the configurations.                        *)
EXTENDS PublicationInvariant, TLC

Symmetry == Permutations(Worker) \cup Permutations(RetryKey)
=============================================================================
