----------------------------- MODULE MCReactor -----------------------------
(* Instances of Reactor for TLC.                                             *)
EXTENDS Reactor
=============================================================================
