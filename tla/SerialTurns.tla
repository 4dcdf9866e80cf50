----------------------------- MODULE SerialTurns -----------------------------
(***************************************************************************)
(* What the executor's dispatcher promises, without its queues: the turns  *)
(* of one account never overlap, at most Limit accounts have a turn under  *)
(* way, and only a process restart ends turns that did not finish.         *)
(***************************************************************************)
EXTENDS Naturals, FiniteSets

CONSTANTS Accounts, Limit

VARIABLE turns          \* number of turns under way, per account

TurnsInit == turns = [a \in Accounts |-> 0]

Start(a) ==
    /\ turns[a] = 0
    /\ Cardinality({ b \in Accounts : turns[b] > 0 }) < Limit
    /\ turns' = [turns EXCEPT ![a] = 1]

Finish(a) ==
    /\ turns[a] = 1
    /\ turns' = [turns EXCEPT ![a] = 0]

Abort == turns' = [a \in Accounts |-> 0]

TurnsNext == \/ \E a \in Accounts : Start(a) \/ Finish(a)
             \/ Abort

TurnsSpec == TurnsInit /\ [][TurnsNext]_turns
=============================================================================
