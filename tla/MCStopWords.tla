---------------------------- MODULE MCStopWords ----------------------------
(* The instance of StopWords for TLC: the .cfg file gives the constants.    *)
(* No symmetry: the run checks liveness.                                    *)
EXTENDS StopWords
=============================================================================
