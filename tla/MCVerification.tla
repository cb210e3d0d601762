--------------------------- MODULE MCVerification ---------------------------
(* Instances of Verification for TLC: the .cfg files give the constants.    *)
EXTENDS Verification, TLC

\* Handlers, timer slots and message ids are interchangeable in safety runs.
Symmetry == Permutations(Handlers) \cup Permutations(Timers) \cup Permutations(Messages)
=============================================================================
