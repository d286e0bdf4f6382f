------------------------- MODULE MCModelRepository -------------------------
(***************************************************************************)
(* The scan on its own, for what its comments say of models that fail.     *)
(***************************************************************************)
EXTENDS ModelRepository
=============================================================================
