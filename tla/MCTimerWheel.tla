---------------------------- MODULE MCTimerWheel ----------------------------
(* Callbacks that add a timer for a full turn of the wheel, which is the       *)
(* bucket that advance is walking.  Other delays are checked in MCLibrary.     *)
EXTENDS TimerWheel
=============================================================================
