--------------------------------- MODULE MCInt ---------------------------------
(* Instances of TL880Int for TLC: cards that raise a few of the sources, one  *)
(* of each kind the handlers tell apart.                                      *)
EXTENDS TL880Int

\* One source that may need the bottom half and one that always does.
SmallCard == {"apu", "tsd"}
\* Those two and one that the driver does not know.
MixedCard == {"apu", "tsd", "bit2"}
===============================================================================
