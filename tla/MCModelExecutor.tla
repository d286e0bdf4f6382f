-------------------------- MODULE MCModelExecutor --------------------------
(* Instances of ModelExecutor for TLC.                                      *)
EXTENDS ModelExecutor
=============================================================================
