------------------------------ MODULE MCArena ------------------------------
(***************************************************************************)
(* Arenas on their own, for what their comments say of the blocks.         *)
(***************************************************************************)
EXTENDS Arena
=============================================================================
