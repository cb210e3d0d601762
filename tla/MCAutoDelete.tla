---------------------------- MODULE MCAutoDelete ----------------------------
(* Instances of AutoDelete for TLC: the .cfg files give the constants.      *)
EXTENDS AutoDelete, TLC

\* Messages are interchangeable in safety runs.
Symmetry == Permutations(Messages)
=============================================================================
