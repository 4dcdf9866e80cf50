--------------------------- MODULE CommandContract ---------------------------
(***************************************************************************)
(* What the command ledger promises about a placement, without rows,       *)
(* workers or requests: the exchange may create its order once, only       *)
(* between the commitment to send and the verdict, and the verdict agrees  *)
(* with the exchange.                                                      *)
(***************************************************************************)
CONSTANT Placements

VARIABLES
    phase,              \* "open", "withdrawn", "committed", "done" or "failed"
    effect              \* "none", "alive" (resting or executed), "dead" (ended unfilled)

contractVars == << phase, effect >>

ContractInit ==
    /\ phase = [c \in Placements |-> "open"]
    /\ effect = [c \in Placements |-> "none"]

(* Placements are withdrawn or committed to; the two verdicts on whether   *)
(* to send may fall together.                                              *)
Decide(withdrawn, committed) ==
    /\ \A c \in withdrawn \cup committed : phase[c] = "open"
    /\ phase' = [c \in Placements |-> CASE c \in committed -> "committed"
                                       [] c \in withdrawn \ committed -> "withdrawn"
                                       [] OTHER -> phase[c]]
    /\ UNCHANGED effect

TakeEffect(c) ==
    /\ phase[c] = "committed"
    /\ effect[c] = "none"
    /\ \E e \in {"alive", "dead"} : effect' = [effect EXCEPT ![c] = e]
    /\ UNCHANGED phase

(* A resting order may end unfilled at any time.                           *)
EndUnfilled(c) ==
    /\ effect[c] = "alive"
    /\ effect' = [effect EXCEPT ![c] = "dead"]
    /\ UNCHANGED phase

Succeed(c) ==
    /\ phase[c] = "committed"
    /\ effect[c] # "none"
    /\ phase' = [phase EXCEPT ![c] = "done"]
    /\ UNCHANGED effect

Fail(c) ==
    /\ phase[c] = "committed"
    /\ effect[c] # "alive"
    /\ phase' = [phase EXCEPT ![c] = "failed"]
    /\ UNCHANGED effect

ContractNext ==
    \/ \E withdrawn, committed \in SUBSET Placements : Decide(withdrawn, committed)
    \/ \E c \in Placements :
        \/ TakeEffect(c)
        \/ EndUnfilled(c)
        \/ Succeed(c)
        \/ Fail(c)

ContractSpec == ContractInit /\ [][ContractNext]_contractVars
=============================================================================
