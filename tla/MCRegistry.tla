------------------------------- MODULE MCRegistry -------------------------------
(* Instances of TL880Registry for TLC. *)
EXTENDS TL880Registry
CONSTANTS s1, s2, s3
TwoSlots   == {s1, s2}
ThreeSlots == {s1, s2, s3}
===============================================================================
