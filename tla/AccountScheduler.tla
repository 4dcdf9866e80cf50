-------------------------- MODULE AccountScheduler --------------------------
(***************************************************************************)
(* AccountSerialScheduler of apps/venue-control/src/kol_executor.rs: the   *)
(* in-memory round-robin scheduler of the singleton Binance executor.      *)
(* Every trading account has a bounded queue of turns and an in-flight     *)
(* flag; the accounts that may run next wait in one ready queue; the       *)
(* number of accounts in flight is bounded.  An Err(Conflict) changes      *)
(* nothing, so an operation that would fail is not enabled.                *)
(***************************************************************************)
EXTENDS Naturals, Sequences, FiniteSets

CONSTANTS
    Accounts,           \* trading account ids a caller may name
    Turns,              \* what is queued: the type parameter T
    MaxAccounts,        \* MAX_ACTIVE_EXECUTOR_ACCOUNTS
    MaxQueueDepth,      \* MAX_ACCOUNT_QUEUE_DEPTH
    MaxGlobalInFlight   \* max_global_in_flight

ASSUME BoundsAssumption ==
    /\ MaxAccounts \in Nat \ {0}
    /\ MaxQueueDepth \in Nat \ {0}
    /\ MaxGlobalInFlight \in Nat

VARIABLES
    present,            \* the keys of the `accounts` map
    queued,             \* accounts[a].queued; << >> for an absent account
    inFlight,           \* { a : accounts[a].in_flight }
    ready,              \* the ready queue
    globalInFlight      \* the counter global_in_flight

schedulerVars == << present, queued, inFlight, ready, globalInFlight >>

TypeOK ==
    /\ present \subseteq Accounts
    /\ queued \in [Accounts -> Seq(Turns)]
    /\ inFlight \subseteq Accounts
    /\ ready \in Seq(Accounts)
    /\ globalInFlight \in Nat

InReady(a) == \E i \in DOMAIN ready : ready[i] = a

SchedulerInit ==
    /\ present = {}
    /\ queued = [a \in Accounts |-> << >>]
    /\ inFlight = {}
    /\ ready = << >>
    /\ globalInFlight = 0

-----------------------------------------------------------------------------
(* The conditions under which enqueue and settle return Ok.                *)

EnqueueAdmitted(a) ==
    /\ MaxGlobalInFlight # 0
    /\ a \in present \/ Cardinality(present) < MaxAccounts
    /\ Len(queued[a]) < MaxQueueDepth

SettleAdmitted(a) ==
    /\ a \in present
    /\ a \in inFlight
    /\ globalInFlight # 0

(* Mutant: a new account is made the next to run.                          *)
EnqueueToFront(a, t) ==
    /\ EnqueueAdmitted(a)
    /\ present' = present \cup {a}
    /\ queued' = [queued EXCEPT ![a] = Append(@, t)]
    /\ ready' = IF a \notin inFlight /\ ~InReady(a) THEN << a >> \o ready ELSE ready
    /\ UNCHANGED << inFlight, globalInFlight >>

Enqueue(a, t) ==
    /\ EnqueueAdmitted(a)
    /\ present' = present \cup {a}
    /\ queued' = [queued EXCEPT ![a] = Append(@, t)]
    /\ ready' = IF a \notin inFlight /\ ~InReady(a) THEN Append(ready, a) ELSE ready
    /\ UNCHANGED << inFlight, globalInFlight >>

(* claim_next pops until it meets an account that is not in flight.  An    *)
(* account missing from the map or without a queued turn ends the call     *)
(* with None after the pop.                                                *)
Skipped(a) == a \in present /\ a \in inFlight

ClaimIndex ==
    CHOOSE k \in 1..(Len(ready) + 1) :
        /\ k = Len(ready) + 1 \/ ~Skipped(ready[k])
        /\ \A j \in 1..(k - 1) : Skipped(ready[j])

Claimable(k) ==
    /\ k <= Len(ready)
    /\ ready[k] \in present
    /\ queued[ready[k]] # << >>

ClaimNext ==
    /\ globalInFlight < MaxGlobalInFlight
    /\ ready # << >>
    /\ LET k == ClaimIndex IN
        /\ ready' = SubSeq(ready, k + 1, Len(ready))
        /\ IF Claimable(k)
             THEN /\ queued' = [queued EXCEPT ![ready[k]] = Tail(@)]
                  /\ inFlight' = inFlight \cup {ready[k]}
                  /\ globalInFlight' = globalInFlight + 1
             ELSE UNCHANGED << queued, inFlight, globalInFlight >>
    /\ UNCHANGED present

Settle(a) ==
    /\ SettleAdmitted(a)
    /\ inFlight' = inFlight \ {a}
    /\ globalInFlight' = globalInFlight - 1
    /\ IF queued[a] # << >>
         THEN ready' = Append(ready, a) /\ present' = present
         ELSE ready' = ready /\ present' = present \ {a}
    /\ UNCHANGED queued

SchedulerNext ==
    \/ \E a \in Accounts, t \in Turns : Enqueue(a, t)
    \/ ClaimNext
    \/ \E a \in Accounts : Settle(a)

SchedulerSpec == SchedulerInit /\ [][SchedulerNext]_schedulerVars

-----------------------------------------------------------------------------
(* Properties.                                                             *)

(* An idle account with queued turns always holds exactly one place in the *)
(* ready queue, and nobody else does: no call sequence strands an account  *)
(* (settle pushes without looking for a duplicate, claim_next pops without *)
(* putting back).                                                          *)
ReadyExact ==
    /\ \A i, j \in DOMAIN ready : ready[i] = ready[j] => i = j
    /\ \A a \in Accounts : InReady(a) <=> queued[a] # << >> /\ a \notin inFlight

(* The counter that gates admission is the number of accounts in flight    *)
(* and never passes its limit: a drift would either stop the executor for  *)
(* good or lift the bound.                                                 *)
InFlightCounted ==
    /\ globalInFlight = Cardinality(inFlight)
    /\ globalInFlight <= MaxGlobalInFlight

(* The map holds exactly the accounts with queued or running work, within  *)
(* its bounds: memory is bounded and an account slot is given back.        *)
MapTight ==
    /\ present = { a \in Accounts : queued[a] # << >> \/ a \in inFlight }
    /\ Cardinality(present) <= MaxAccounts
    /\ \A a \in Accounts : Len(queued[a]) <= MaxQueueDepth

(* claim_next never meets the entries it would have to skip or give up on, *)
(* so a call that finds the ready queue nonempty and a free slot always    *)
(* returns a turn (the caller stops at the first None).                    *)
ClaimNeverWasted ==
    ready # << >> => ~Skipped(ready[1]) /\ Claimable(1)

(* Round robin: an account that waits in the ready queue is never          *)
(* overtaken by one that was not waiting when it already was.              *)
NoOvertaking ==
    [][\A i, j \in DOMAIN ready' :
          (InReady(ready'[i]) /\ ~InReady(ready'[j])) => i < j]_schedulerVars
=============================================================================
