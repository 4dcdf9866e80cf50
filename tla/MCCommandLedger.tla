--------------------------- MODULE MCCommandLedger ---------------------------
(* TLC instance of CommandLedger.  On account a1 a revocable limit order   *)
(* l1 with two terminal cancels k1 and k2 (k1 standalone).  A market order *)
(* (it never rests, and its acceptance does not complete it) and a second  *)
(* account (it only adds interleavings) are left to the proofs.            *)
EXTENDS CommandLedger

CONSTANTS a1, l1, k1, k2

MCAccountOf == [c \in Commands |-> a1]
MCKindOf == [c \in Commands |-> IF c = l1 THEN "limit" ELSE "cancel"]
MCTargetOf == [c \in Commands |-> l1]
=============================================================================
