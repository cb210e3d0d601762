------------------------- MODULE MCRuntimeSettings -------------------------
(* Instances of RuntimeSettings for TLC: the .cfg file gives the constants. *)
EXTENDS RuntimeSettings, TLC

\* Tasks are interchangeable, and so are chats.
Symmetry == Permutations(Tasks) \cup Permutations(Chats)
=============================================================================
