---------------------------- MODULE MCOrderMirror ----------------------------
(* TLC instance of OrderMirror: the small source and whatever is left of    *)
(* the large one are rounded up, an amendment goes up or down, and source   *)
(* and children may be filled in part.                                      *)
EXTENDS OrderMirror

CONSTANTS small, large
MCQuantity == small :> 1 @@ large :> 2
MCMinimum == [t \in Terms |-> 2]
=============================================================================
