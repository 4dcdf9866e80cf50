----------------------------- MODULE MCGridBatch -----------------------------
(* TLC instances of GridBatch: batch b0 is a plan without commands; b1      *)
(* places p1; b2 places p2 and cancels p1's order with k1.  In the instances*)
(* for the chain's order r1 rests already, b1 places p1 and cancels r1's    *)
(* order with k1, and b2 places p2.                                         *)
EXTENDS GridBatch

CONSTANTS b0, b1, b2, bR, p1, p2, k1, r1

MCBatchOf == [c \in Commands |-> IF c = p1 THEN b1 ELSE b2]
MCSeqOf == [c \in Commands |-> IF c = k1 THEN 2 ELSE 1]
MCTargetOf == [c \in Cancels |-> p1]

ChainBatchOf == [c \in Commands |-> IF c = r1 THEN bR ELSE IF c = p2 THEN b2 ELSE b1]
ChainTargetOf == [c \in Cancels |-> r1]
=============================================================================
