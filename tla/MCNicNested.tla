------------------------------ MODULE MCNicNested ------------------------------
(* The card and its driver by themselves: one frame.                           *)
EXTENDS NicRing

NicNestedSpec == NicInit /\ [][NicNext]_nicVars
===============================================================================
