-------------------------------- MODULE MCPace --------------------------------
(* Values for TLC: a clock of four ticks a second.                         *)
EXTENDS Pace

mc_Jumps == {-5, 3}
=============================================================================
