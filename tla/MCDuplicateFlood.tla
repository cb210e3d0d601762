-------------------------- MODULE MCDuplicateFlood --------------------------
(* Instances of DuplicateFlood for TLC: the .cfg files give the constants.  *)
EXTENDS DuplicateFlood, TLC

\* Handlers are interchangeable, and so are contents.
Symmetry == Permutations(Handlers) \cup Permutations(Contents)
=============================================================================
