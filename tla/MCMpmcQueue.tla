---------------------------- MODULE MCMpmcQueue ----------------------------
(* Two producers and two consumers on a ring of two slots: the smallest     *)
(* instance in which tickets wrap around the ring while a slow thread still *)
(* holds a slot of the previous turn.                                       *)
EXTENDS MpmcQueue
=============================================================================
