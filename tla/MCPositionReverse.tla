-------------------------- MODULE MCPositionReverse --------------------------
(* TLC instance of PositionReverse: a reversal and a second action on the  *)
(* same leg, with quantities that allow partial fills.                     *)
EXTENDS PositionReverse
=============================================================================
