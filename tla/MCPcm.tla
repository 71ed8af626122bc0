--------------------------------- MODULE MCPcm ---------------------------------
(* Instances of TL880Pcm for TLC: a short and a longer period. *)
EXTENDS TL880Pcm
OnePeriod  == {8}
TwoPeriods == {8, 12}
===============================================================================
