----------------------- MODULE AccountExecutorProofs ------------------------
(***************************************************************************)
(* The account executor, for any accounts, limits and number of restarts,  *)
(* and the lease that makes it the account's only writer, for any          *)
(* processes, receipts, revisions, times, crashes and failing calls.       *)
(*                                                                         *)
(* The scheduler's inductive invariant is the conjunction of its           *)
(* properties: each needs the others (settle appends to the ready queue    *)
(* only because the account cannot be there already, which is ReadyExact;  *)
(* the counter cannot underflow because it counts inFlight).  Each of its  *)
(* operations keeps it, within the loop too; what is added for the loop is *)
(* that its locals, the map of the scheduler and the tasks agree: the      *)
(* scheduler never refuses it, what it hands out is fresh, and it          *)
(* implements SerialTurns.                                                 *)
(*                                                                         *)
(* The writer lease keeps LeaseInv, from which the properties of its       *)
(* guards follow; the last part is about the three files that hold it.     *)
(***************************************************************************)
EXTENDS ExecutorDispatch, WriterLease, AuthorityFile,
        FiniteSetTheorems, SequenceTheorems, WellFoundedInduction, TLAPS

SchedulerInv ==
    /\ TypeOK
    /\ IsFiniteSet(inFlight)
    /\ IsFiniteSet(present)
    /\ ReadyExact
    /\ InFlightCounted
    /\ MapTight

(* The initial state satisfies the invariant. *)
LEMMA InitInv == SchedulerInit => SchedulerInv
<1> SUFFICES ASSUME SchedulerInit PROVE SchedulerInv
  OBVIOUS
<1> USE DEF SchedulerInit
<1>1. TypeOK
  BY DEF TypeOK
<1>2. IsFiniteSet(inFlight) /\ Cardinality(inFlight) = 0
  BY FS_EmptySet
<1>3. IsFiniteSet(present) /\ Cardinality(present) = 0
  BY FS_EmptySet
<1>4. ReadyExact
  BY DEF ReadyExact, InReady
<1>5. InFlightCounted
  BY <1>2, BoundsAssumption DEF InFlightCounted
<1>6. MapTight
  BY <1>3, BoundsAssumption DEF MapTight
<1>7. QED
  BY <1>1, <1>2, <1>3, <1>4, <1>5, <1>6 DEF SchedulerInv

(* claim_next takes the head of the ready queue: an account there is never *)
(* in flight and always has a queued turn.                                 *)
LEMMA ClaimTakesHead ==
  ASSUME TypeOK, ReadyExact, MapTight, ready # << >>
  PROVE  /\ ClaimIndex = 1
         /\ Claimable(1)
         /\ ~Skipped(ready[1])
         /\ ready[1] \in Accounts
         /\ ready[1] \notin inFlight
         /\ queued[ready[1]] # << >>
<1>1. Len(ready) \in Nat /\ Len(ready) >= 1 /\ 1 \in DOMAIN ready /\ ready[1] \in Accounts
  BY DEF TypeOK
<1>2. InReady(ready[1])
  BY <1>1 DEF InReady
<1>3. queued[ready[1]] # << >> /\ ready[1] \notin inFlight
  BY <1>1, <1>2 DEF ReadyExact
<1>4. ~Skipped(ready[1])
  BY <1>3 DEF Skipped
<1>5. Claimable(1)
  BY <1>1, <1>3 DEF Claimable, MapTight
<1>6. ClaimIndex = 1
  <2> DEFINE P(k) == /\ k = Len(ready) + 1 \/ ~Skipped(ready[k])
                     /\ \A j \in 1..(k - 1) : Skipped(ready[j])
  <2>1. 1 \in 1..(Len(ready) + 1) /\ P(1)
    BY <1>1, <1>4
  <2>2. \A k \in 1..(Len(ready) + 1) : P(k) => k = 1
    BY <1>1, <1>4
  <2>3. QED
    BY <2>1, <2>2 DEF ClaimIndex
<1>7. QED
  BY <1>1, <1>3, <1>4, <1>5, <1>6

(* Enqueue preserves the invariant. *)
LEMMA EnqueueInv ==
  ASSUME SchedulerInv, NEW a \in Accounts, NEW t \in Turns, Enqueue(a, t)
  PROVE  SchedulerInv'
<1> USE DEF SchedulerInv
<1>1. TypeOK'
  BY DEF TypeOK, Enqueue
<1>2. queued'[a] # << >> /\ Len(queued'[a]) = Len(queued[a]) + 1
        /\ \A b \in Accounts \ {a} : queued'[b] = queued[b]
  BY DEF TypeOK, Enqueue
<1>3. ReadyExact'
  <2>1. CASE a \notin inFlight /\ ~InReady(a)
    <3>1. ready' = Append(ready, a) /\ inFlight' = inFlight
      BY <2>1 DEF Enqueue
    <3>2. \A i \in DOMAIN ready : ready[i] # a
      BY <2>1 DEF InReady
    <3>3. /\ Len(ready') = Len(ready) + 1
          /\ ready'[Len(ready) + 1] = a
          /\ \A i \in DOMAIN ready : ready'[i] = ready[i] /\ i \in DOMAIN ready'
          /\ DOMAIN ready' = DOMAIN ready \cup {Len(ready) + 1}
      BY <3>1 DEF TypeOK
    <3>4. \A i, j \in DOMAIN ready' : ready'[i] = ready'[j] => i = j
      BY <3>2, <3>3 DEF ReadyExact
    <3>5. \A b \in Accounts : InReady(b)' <=> (InReady(b) \/ b = a)
      BY <3>3 DEF InReady
    <3>6. QED
      BY <1>2, <2>1, <3>1, <3>4, <3>5 DEF ReadyExact
  <2>2. CASE ~(a \notin inFlight /\ ~InReady(a))
    <3>1. ready' = ready /\ inFlight' = inFlight
      BY <2>2 DEF Enqueue
    <3>2. \A b \in Accounts : InReady(b)' <=> InReady(b)
      BY <3>1 DEF InReady
    <3>3. QED
      BY <1>2, <2>2, <3>1, <3>2 DEF ReadyExact
  <2>3. QED
    BY <2>1, <2>2
<1>4. InFlightCounted' /\ IsFiniteSet(inFlight')
  BY DEF InFlightCounted, Enqueue
<1>5. /\ IsFiniteSet(present')
      /\ Cardinality(present') = IF a \in present THEN Cardinality(present)
                                                  ELSE Cardinality(present) + 1
  BY FS_AddElement DEF Enqueue
<1>6. MapTight'
  <2>1. present' = { b \in Accounts : queued'[b] # << >> \/ b \in inFlight' }
    BY <1>2 DEF MapTight, Enqueue
  <2>2. Cardinality(present) \in Nat
    BY FS_CardinalityType
  <2>3. Cardinality(present') <= MaxAccounts
    BY <1>5, <2>2, BoundsAssumption DEF MapTight, Enqueue, EnqueueAdmitted
  <2>4. \A b \in Accounts : Len(queued'[b]) <= MaxQueueDepth
    BY <1>2, BoundsAssumption DEF MapTight, Enqueue, EnqueueAdmitted, TypeOK
  <2>5. QED
    BY <2>1, <2>3, <2>4 DEF MapTight
<1>7. QED
  BY <1>1, <1>3, <1>4, <1>5, <1>6

(* claim_next preserves the invariant. *)
LEMMA ClaimInv ==
  ASSUME SchedulerInv, ClaimNext
  PROVE  SchedulerInv'
<1> USE DEF SchedulerInv
<1> DEFINE h == ready[1]
<1>1. /\ ClaimIndex = 1
      /\ Claimable(1)
      /\ h \in Accounts
      /\ h \notin inFlight
      /\ queued[h] # << >>
  BY ClaimTakesHead DEF ClaimNext
<1>2. /\ ready' = SubSeq(ready, 2, Len(ready))
      /\ queued' = [queued EXCEPT ![h] = Tail(@)]
      /\ inFlight' = inFlight \cup {h}
      /\ globalInFlight' = globalInFlight + 1
      /\ present' = present
      /\ ready # << >>
      /\ globalInFlight < MaxGlobalInFlight
  BY <1>1 DEF ClaimNext
<1>3. /\ Len(ready) \in Nat /\ Len(ready) >= 1
      /\ ready' \in Seq(Accounts)
      /\ Len(ready') = Len(ready) - 1
      /\ \A i \in 1..(Len(ready) - 1) : ready'[i] = ready[i + 1]
  <2>1. ready \in Seq(Accounts) /\ Len(ready) \in Nat /\ Len(ready) >= 1
    BY <1>2 DEF TypeOK
  <2>2. ready' = Tail(ready)
    BY <1>2, <2>1, TailIsSubSeq
  <2>3. QED
    BY <2>1, <2>2
<1>4. /\ queued'[h] \in Seq(Turns)
      /\ Len(queued'[h]) = Len(queued[h]) - 1
      /\ Len(queued[h]) \in Nat
      /\ \A b \in Accounts \ {h} : queued'[b] = queued[b]
  BY <1>1, <1>2 DEF TypeOK
<1>5. TypeOK'
  BY <1>1, <1>2, <1>3, <1>4 DEF TypeOK
<1>6. ReadyExact'
  <2>1. \A i, j \in DOMAIN ready' : ready'[i] = ready'[j] => i = j
    <3> SUFFICES ASSUME NEW i \in DOMAIN ready', NEW j \in DOMAIN ready', ready'[i] = ready'[j]
                 PROVE  i = j
      OBVIOUS
    <3>6. DOMAIN ready = 1..Len(ready) /\ DOMAIN ready' = 1..(Len(ready) - 1)
      BY <1>3 DEF TypeOK
    <3>1. i \in 1..(Len(ready) - 1) /\ j \in 1..(Len(ready) - 1)
      BY <3>6
    <3>2. i + 1 \in DOMAIN ready /\ j + 1 \in DOMAIN ready
      BY <1>3, <3>1, <3>6
    <3>5. ready[i + 1] = ready[j + 1]
      BY <1>3, <3>1
    <3>3. i + 1 = j + 1
      BY <3>2, <3>5 DEF ReadyExact
    <3>4. QED
      BY <3>1, <3>3
  <2>2. ASSUME NEW b \in Accounts
        PROVE  InReady(b)' <=> (InReady(b) /\ b # h)
    <3>1. ASSUME NEW i \in DOMAIN ready', ready'[i] = b
          PROVE  InReady(b) /\ b # h
      <4>4. DOMAIN ready = 1..Len(ready) /\ DOMAIN ready' = 1..(Len(ready) - 1)
        BY <1>3 DEF TypeOK
      <4>1. i \in 1..(Len(ready) - 1) /\ i + 1 \in DOMAIN ready /\ ready[i + 1] = b /\ 1 \in DOMAIN ready
        BY <1>3, <3>1, <4>4
      <4>2. i + 1 # 1
        BY <4>1
      <4>3. QED
        BY <4>1, <4>2 DEF ReadyExact, InReady
    <3>2. ASSUME NEW i \in DOMAIN ready, ready[i] = b, b # h
          PROVE  InReady(b)'
      <4>1. i \in 2..Len(ready)
        BY <1>3, <3>2 DEF TypeOK
      <4>2. i - 1 \in DOMAIN ready' /\ ready'[i - 1] = ready[i]
        BY <1>3, <4>1
      <4>3. QED
        BY <3>2, <4>2 DEF InReady
    <3>3. QED
      BY <3>1, <3>2 DEF InReady
  <2>3. QED
    BY <1>1, <1>2, <1>4, <2>1, <2>2 DEF ReadyExact
<1>7. IsFiniteSet(inFlight') /\ Cardinality(inFlight') = Cardinality(inFlight) + 1
  BY <1>1, <1>2, FS_AddElement
<1>8. InFlightCounted'
  BY <1>2, <1>7, BoundsAssumption DEF InFlightCounted, TypeOK
<1>9. IsFiniteSet(present')
  BY <1>2
<1>10. MapTight'
  <2>1. present' = { b \in Accounts : queued'[b] # << >> \/ b \in inFlight' }
    BY <1>1, <1>2, <1>4 DEF MapTight
  <2>2. \A b \in Accounts : Len(queued'[b]) <= MaxQueueDepth
    <3>1. Len(queued[h]) <= MaxQueueDepth
      BY <1>1 DEF MapTight
    <3>2. Len(queued'[h]) <= MaxQueueDepth
      BY <1>4, <3>1, BoundsAssumption
    <3>3. \A b \in Accounts \ {h} : Len(queued'[b]) <= MaxQueueDepth
      BY <1>4 DEF MapTight
    <3>4. QED
      BY <3>2, <3>3
  <2>3. QED
    BY <1>2, <2>1, <2>2 DEF MapTight
<1>11. QED
  BY <1>5, <1>6, <1>7, <1>8, <1>9, <1>10

(* settle preserves the invariant. *)
LEMMA SettleInv ==
  ASSUME SchedulerInv, NEW a \in Accounts, Settle(a)
  PROVE  SchedulerInv'
<1> USE DEF SchedulerInv
<1>1. /\ a \in inFlight
      /\ globalInFlight # 0
      /\ inFlight' = inFlight \ {a}
      /\ globalInFlight' = globalInFlight - 1
      /\ queued' = queued
  BY DEF Settle, SettleAdmitted
<1>2. TypeOK'
  <2>1. globalInFlight' \in Nat /\ inFlight' \subseteq Accounts
    BY <1>1 DEF TypeOK
  <2>2. CASE queued[a] # << >>
    <3>1. Append(ready, a) \in Seq(Accounts)
      BY DEF TypeOK
    <3>2. QED
      BY <1>1, <2>1, <2>2, <3>1 DEF TypeOK, Settle
  <2>4. CASE queued[a] = << >>
    BY <1>1, <2>1, <2>4 DEF TypeOK, Settle
  <2>3. QED
    BY <2>2, <2>4
<1>3. /\ IsFiniteSet(inFlight')
      /\ Cardinality(inFlight') = Cardinality(inFlight) - 1
  BY <1>1, FS_RemoveElement
<1>4. InFlightCounted'
  BY <1>1, <1>3, BoundsAssumption DEF InFlightCounted, TypeOK
<1>5. ~InReady(a)
  BY <1>1 DEF ReadyExact
<1>6. CASE queued[a] # << >>
  <2>1. ready' = Append(ready, a) /\ present' = present
    BY <1>6 DEF Settle
  <2>2. /\ Len(ready') = Len(ready) + 1
        /\ ready'[Len(ready) + 1] = a
        /\ \A i \in DOMAIN ready : ready'[i] = ready[i] /\ i \in DOMAIN ready'
        /\ DOMAIN ready' = DOMAIN ready \cup {Len(ready) + 1}
    BY <2>1 DEF TypeOK
  <2>3. \A i, j \in DOMAIN ready' : ready'[i] = ready'[j] => i = j
    BY <1>5, <2>2 DEF ReadyExact, InReady
  <2>4. \A b \in Accounts : InReady(b)' <=> (InReady(b) \/ b = a)
    BY <2>2 DEF InReady
  <2>5. ReadyExact'
    BY <1>1, <1>6, <2>3, <2>4 DEF ReadyExact
  <2>6. MapTight'
    BY <1>1, <1>6, <2>1 DEF MapTight
  <2>7. QED
    BY <1>2, <1>3, <1>4, <2>1, <2>5, <2>6
<1>7. CASE queued[a] = << >>
  <2>1. ready' = ready /\ present' = present \ {a}
    BY <1>7 DEF Settle
  <2>2. \A b \in Accounts : InReady(b)' <=> InReady(b)
    BY <2>1 DEF InReady
  <2>3. ReadyExact'
    BY <1>1, <1>7, <2>1, <2>2 DEF ReadyExact
  <2>4. IsFiniteSet(present') /\ Cardinality(present') \in Nat
          /\ Cardinality(present') <= Cardinality(present) /\ Cardinality(present) \in Nat
    BY <2>1, FS_RemoveElement, FS_CardinalityType, FS_Subset
  <2>5. MapTight'
    BY <1>1, <1>7, <2>1, <2>4, BoundsAssumption DEF MapTight
  <2>6. QED
    BY <1>2, <1>3, <1>4, <2>3, <2>4, <2>5
<1>8. QED
  BY <1>6, <1>7

(* The inductive invariant holds in every reachable state. *)
THEOREM SchedulerInvariant == SchedulerSpec => []SchedulerInv
<1>1. SchedulerInit => SchedulerInv
  BY InitInv
<1>2. SchedulerInv /\ [SchedulerNext]_schedulerVars => SchedulerInv'
  <2> SUFFICES ASSUME SchedulerInv, [SchedulerNext]_schedulerVars
               PROVE  SchedulerInv'
    OBVIOUS
  <2>1. ASSUME NEW a \in Accounts, NEW t \in Turns, Enqueue(a, t)
        PROVE  SchedulerInv'
    BY <2>1, EnqueueInv
  <2>2. CASE ClaimNext
    BY <2>2, ClaimInv
  <2>3. ASSUME NEW a \in Accounts, Settle(a)
        PROVE  SchedulerInv'
    BY <2>3, SettleInv
  <2>4. CASE UNCHANGED schedulerVars
    BY <2>4 DEF schedulerVars, SchedulerInv, TypeOK, ReadyExact, InReady,
                InFlightCounted, MapTight
  <2>5. QED
    BY <2>1, <2>2, <2>3, <2>4 DEF SchedulerNext
<1>3. QED
  BY <1>1, <1>2, PTL DEF SchedulerSpec

(* Type correctness of the scheduler. *)
THEOREM SchedulerTypeCorrect == SchedulerSpec => []TypeOK
<1>1. SchedulerInv => TypeOK
  BY DEF SchedulerInv
<1>2. QED
  BY <1>1, SchedulerInvariant, PTL

(* No account is stranded or listed twice, for every number of accounts. *)
THEOREM SchedulerReadyExact == SchedulerSpec => []ReadyExact
<1>1. SchedulerInv => ReadyExact
  BY DEF SchedulerInv
<1>2. QED
  BY <1>1, SchedulerInvariant, PTL

(* The global in-flight counter is exact and bounded. *)
THEOREM SchedulerInFlightCounted == SchedulerSpec => []InFlightCounted
<1>1. SchedulerInv => InFlightCounted
  BY DEF SchedulerInv
<1>2. QED
  BY <1>1, SchedulerInvariant, PTL

(* The account map is exact and bounded. *)
THEOREM SchedulerMapTight == SchedulerSpec => []MapTight
<1>1. SchedulerInv => MapTight
  BY DEF SchedulerInv
<1>2. QED
  BY <1>1, SchedulerInvariant, PTL

(* A claim with a free slot and a nonempty ready queue always yields a     *)
(* turn: the skip and give-up branches of claim_next are unreachable.      *)
THEOREM SchedulerClaimNeverWasted == SchedulerSpec => []ClaimNeverWasted
<1>1. SchedulerInv => ClaimNeverWasted
  BY ClaimTakesHead DEF SchedulerInv, ClaimNeverWasted
<1>2. QED
  BY <1>1, SchedulerInvariant, PTL

-----------------------------------------------------------------------------
(* The loop.                                                               *)

DispatchInv == SchedulerInv /\ DispatchAgreement

(* A nonempty set of account ids has a least one: the loop's iteration     *)
(* over the map has a first element.                                       *)
LEMMA Least ==
  ASSUME NEW T, T \subseteq Nat, T # {}
  PROVE  \E x \in T : \A y \in T : x <= y
<1> DEFINE R == OpToRel(<, Nat)
<1>1. IsWellFoundedOn(R, Nat)
  BY NatLessThanWellFounded
<1>2. \A x, y \in Nat : y < x => << y, x >> \in R
  BY DEF OpToRel
<1> HIDE DEF R
<1>3. PICK x \in T : \A y \in T : ~(<< y, x >> \in R)
  BY <1>1, WFMin
<1>4. ASSUME NEW y \in T PROVE x <= y
  <2>1. x \in Nat /\ y \in Nat
    OBVIOUS
  <2>2. ~(y < x)
    BY <1>2, <1>3, <2>1
  <2> QED
    BY <2>1, <2>2
<1> QED
  BY <1>4

(* The account that the loop looks at next has a group.                    *)
LEMMA FirstGroupExists == Remaining # {} => FirstGroup \in Remaining
<1> SUFFICES ASSUME Remaining # {} PROVE FirstGroup \in Remaining
  OBVIOUS
<1>1. Remaining \subseteq Nat
  BY AccountsOrdered DEF Remaining
<1>2. \E a \in Remaining : \A b \in Remaining : a <= b
  BY <1>1, Least
<1> QED
  BY <1>2 DEF FirstGroup

(* Only the empty sequence has no elements.                                *)
LEMMA EmptyIsShort ==
  ASSUME NEW S, NEW s \in Seq(S)
  PROVE  Len(s) \in Nat /\ (s = << >> <=> Len(s) = 0)
BY EmptySeq

(* The tail of a single element.                                           *)
LEMMA ShortTail ==
  ASSUME NEW S, NEW s \in Seq(S), s # << >>, Len(s) <= 1
  PROVE  Tail(s) = << >>
<1>1. Len(s) = 1
  <2>1. Len(s) \in Nat /\ Len(s) # 0
    BY EmptyIsShort
  <2> QED
    BY <2>1
<1>2. Tail(s) = SubSeq(s, 2, 1)
  BY <1>1, TailIsSubSeq
<1> QED
  BY <1>2, SubSeqEmpty

DurableOK == view \in [Accounts -> Views] /\ restarts \in 0..MaxRestarts

(* A process starts with nothing queued, running or scheduled.             *)
LEMMA ProcessStarts == SchedulerInit /\ ProcessInit /\ DurableOK => DispatchInv
<1> SUFFICES ASSUME SchedulerInit, ProcessInit, DurableOK PROVE DispatchInv
  OBVIOUS
<1> USE DEF SchedulerInit, ProcessInit
<1>1. SchedulerInv
  BY InitInv
<1>2. DispatchTypeOK
  BY <1>1, EmptySeq DEF DispatchTypeOK, SchedulerInv, NoGroups, NoTasks, Views, DurableOK
<1>3. LocalsAgree /\ ReadHolds /\ LoopNeverRefused /\ FreshSnapshots
  BY DEF LocalsAgree, ReadHolds, LoopNeverRefused, FreshSnapshots, NoTasks
<1> QED
  BY <1>1, <1>2, <1>3 DEF DispatchInv, DispatchAgreement

(* Discovery: nothing has been written since the read that it makes.       *)
LEMMA DiscoverReadStep ==
  ASSUME DispatchInv, DiscoverRead
  PROVE  DispatchInv'
<1> USE DEF DispatchInv, DispatchAgreement, DiscoverRead, schedulerVars
<1>1. SchedulerInv'
  BY DEF SchedulerInv, TypeOK, ReadyExact, InReady, InFlightCounted, MapTight
<1>2. DispatchTypeOK'
  BY <1>1 DEF DispatchTypeOK, SchedulerInv, Views
<1>3. (LocalsAgree /\ ReadHolds /\ LoopNeverRefused /\ FreshSnapshots)'
  BY DEF LocalsAgree, ReadHolds, LoopNeverRefused, FreshSnapshots
<1> QED
  BY <1>1, <1>2, <1>3

(* The steps of the loop that only move its place or drop a group.         *)
LEMMA LoopMoves ==
  ASSUME DispatchInv, AdmitDone \/ AdmitSkip \/ SpawnDone \/ DiscoveryTick
  PROVE  DispatchInv'
<1> USE DEF DispatchInv, DispatchAgreement, schedulerVars
<1>1. /\ UNCHANGED << schedulerVars, view, scheduled, failed, tasks, written, restarts >>
      /\ phase' \in {"discover", "admit", "spawn", "select"}
      /\ phase' = "admit" => phase = "admit"
  BY DEF AdmitDone, AdmitSkip, SpawnDone, DiscoveryTick, LoopNeverRefused
<1>2. groups' \in [Accounts -> Views \ {"waiting"}]
  <2>1. \/ groups' = groups
        \/ groups' = NoGroups
        \/ groups' = [groups EXCEPT ![FirstGroup] = "none"]
    BY DEF AdmitDone, AdmitSkip, SpawnDone, DiscoveryTick
  <2> QED
    BY <2>1 DEF DispatchTypeOK, Views, NoGroups
<1>3. SchedulerInv'
  BY <1>1 DEF SchedulerInv, TypeOK, ReadyExact, InReady, InFlightCounted, MapTight
<1>4. DispatchTypeOK'
  BY <1>1, <1>2, <1>3 DEF DispatchTypeOK, SchedulerInv
<1>5. (LocalsAgree /\ ReadHolds /\ LoopNeverRefused /\ FreshSnapshots)'
  BY <1>1 DEF LocalsAgree, ReadHolds, LoopNeverRefused, FreshSnapshots
<1> QED
  BY <1>3, <1>4, <1>5

(* An admission is accepted: the account is neither scheduled nor in the   *)
(* map, there is room in the map, its queue is empty.                      *)
LEMMA AdmissionAccepted ==
  ASSUME DispatchInv, NEW a \in Accounts, a \notin scheduled, Cardinality(scheduled) < MaxAccounts
  PROVE  /\ EnqueueAdmitted(a)
         /\ queued[a] = << >> /\ a \notin inFlight
<1> USE DEF DispatchInv, DispatchAgreement
<1>1. queued[a] = << >> /\ a \notin inFlight
  BY DEF LocalsAgree, SchedulerInv, MapTight
<1>2. Len(queued[a]) = 0
  BY <1>1
<1> QED
  BY <1>1, <1>2, DispatchAssumption, BoundsAssumption DEF EnqueueAdmitted, LocalsAgree

(* Admission of one account.                                               *)
LEMMA AdmitOneStep ==
  ASSUME DispatchInv, AdmitOne
  PROVE  DispatchInv'
<1> USE DEF DispatchInv, DispatchAgreement
<1> DEFINE a == FirstGroup
<1>1. a \in Accounts /\ groups[a] \in {"claim", "reconcile"}
  BY FirstGroupExists DEF AdmitOne, Remaining, DispatchTypeOK, Views
<1>2. phase = "admit" /\ a \notin scheduled /\ Cardinality(scheduled) < MaxAccounts
  BY DEF AdmitOne, Admissible
<1>3. EnqueueAdmitted(a) /\ queued[a] = << >> /\ a \notin inFlight
  BY <1>1, <1>2, AdmissionAccepted
<1>4. /\ Enqueue(a, TurnFor(groups[a]))
      /\ groups' = [groups EXCEPT ![a] = "none"]
      /\ scheduled' = scheduled \cup {a}
      /\ phase' = phase
      /\ UNCHANGED << view, failed, tasks, written, restarts >>
  BY <1>3 DEF AdmitOne
<1>5. TurnFor(groups[a]) \in Turns
  BY <1>1, TurnsAssumption DEF TurnFor
<1> HIDE DEF a
<1>6. SchedulerInv'
  BY <1>1, <1>4, <1>5, EnqueueInv
<1>7. /\ present' = present \cup {a} /\ inFlight' = inFlight
      /\ queued' = [queued EXCEPT ![a] = Append(queued[a], TurnFor(groups[a]))]
  BY <1>4 DEF Enqueue
<1>8. \A b \in Accounts : b # a => queued'[b] = queued[b]
  BY <1>7 DEF SchedulerInv, TypeOK
<1>9. DispatchTypeOK'
  <2>1. groups' \in [Accounts -> Views \ {"waiting"}]
    BY <1>1, <1>4 DEF DispatchTypeOK, Views
  <2> QED
    BY <1>1, <1>4, <1>6, <2>1 DEF DispatchTypeOK, SchedulerInv
<1>10. LocalsAgree'
  <2>1. Len(queued'[a]) = 1
    BY <1>1, <1>3, <1>7 DEF SchedulerInv, TypeOK
  <2> QED
    BY <1>3, <1>4, <1>7, <1>8, <2>1 DEF LocalsAgree
<1>11. (ReadHolds /\ LoopNeverRefused)'
  BY <1>4, <1>7 DEF ReadHolds, LoopNeverRefused
<1>12. FreshSnapshots'
  BY <1>2, <1>3, <1>4, <1>8 DEF FreshSnapshots, ReadHolds
<1> QED
  BY <1>6, <1>9, <1>10, <1>11, <1>12

(* What Spawn does: the head of the ready queue gets its one task.         *)
LEMMA SpawnFacts ==
  ASSUME DispatchInv, Spawn
  PROVE  \E h \in Accounts :
           /\ h \notin inFlight /\ queued[h] # << >>
           /\ inFlight' = inFlight \cup {h}
           /\ queued' = [queued EXCEPT ![h] = Tail(queued[h])]
           /\ tasks[h] = << >>
           /\ tasks' = [tasks EXCEPT ![h] = << "running" >>]
<1> USE DEF DispatchInv, DispatchAgreement, SchedulerInv
<1> DEFINE h == ready[1]
<1>1. /\ ClaimIndex = 1 /\ Claimable(1)
      /\ h \in Accounts /\ h \notin inFlight /\ queued[h] # << >>
  BY ClaimTakesHead DEF Spawn, ClaimNext
<1>2. /\ queued' = [queued EXCEPT ![h] = Tail(queued[h])]
      /\ inFlight' = inFlight \cup {h}
  BY <1>1 DEF Spawn, ClaimNext
<1>3. tasks[h] = << >>
  BY <1>1 DEF LocalsAgree
<1>4. tasks' = [b \in Accounts |-> IF b = h THEN Append(tasks[b], "running") ELSE tasks[b]]
  BY <1>1, <1>2 DEF Spawn
<1>5. Append(tasks[h], "running") = << "running" >>
  BY <1>3
<1> HIDE DEF h
<1>6. tasks' = [tasks EXCEPT ![h] = << "running" >>]
  BY <1>1, <1>4, <1>5 DEF DispatchTypeOK
<1> QED
  BY <1>1, <1>2, <1>3, <1>6

(* A turn is spawned.                                                      *)
LEMMA SpawnStep ==
  ASSUME DispatchInv, Spawn
  PROVE  DispatchInv'
<1> USE DEF DispatchInv, DispatchAgreement
<1>1. SchedulerInv'
  BY ClaimInv DEF Spawn
<1>2. PICK h \in Accounts :
           /\ h \notin inFlight /\ queued[h] # << >>
           /\ inFlight' = inFlight \cup {h}
           /\ queued' = [queued EXCEPT ![h] = Tail(queued[h])]
           /\ tasks[h] = << >>
           /\ tasks' = [tasks EXCEPT ![h] = << "running" >>]
  BY SpawnFacts
<1>3. /\ phase = "spawn" /\ present' = present
      /\ UNCHANGED << view, phase, groups, scheduled, failed, written, restarts >>
  BY DEF Spawn, ClaimNext
<1>4. Tail(queued[h]) = << >>
  <2>1. queued[h] \in Seq(Turns) /\ Len(queued[h]) <= 1
    BY <1>2 DEF LocalsAgree, SchedulerInv, TypeOK
  <2> QED
    BY <1>2, <2>1, ShortTail
<1>5. /\ queued'[h] = << >> /\ \A b \in Accounts : b # h => queued'[b] = queued[b]
      /\ tasks'[h] = << "running" >> /\ \A b \in Accounts : b # h => tasks'[b] = tasks[b]
  BY <1>2, <1>4 DEF SchedulerInv, TypeOK, DispatchTypeOK
<1>6. DispatchTypeOK'
  <2>1. << "running" >> \in Seq({"running", "ok", "err"})
    OBVIOUS
  <2>2. tasks' \in [Accounts -> Seq({"running", "ok", "err"})]
    BY <1>2, <2>1 DEF DispatchTypeOK
  <2> QED
    BY <1>1, <1>3, <2>2 DEF DispatchTypeOK, SchedulerInv
<1>7. LocalsAgree'
  BY <1>2, <1>3, <1>5 DEF LocalsAgree
<1>8. (ReadHolds /\ LoopNeverRefused /\ FreshSnapshots)'
  BY <1>3, <1>5 DEF ReadHolds, LoopNeverRefused, FreshSnapshots
<1> QED
  BY <1>1, <1>6, <1>7, <1>8

(* A finished task belongs to an account in flight with nothing queued:    *)
(* its settlement is accepted and leaves no task and no place.             *)
LEMMA JoinFacts ==
  ASSUME DispatchInv, NEW a \in Accounts, Join(a)
  PROVE  /\ phase = "select" /\ phase' = "spawn"
         /\ Len(tasks[a]) = 1 /\ a \in inFlight
         /\ tasks' = [tasks EXCEPT ![a] = << >>]
         /\ Settle(a)
         /\ scheduled' = scheduled \ {a}
         /\ failed' \in {failed, failed \cup {a}}
         /\ UNCHANGED << view, groups, written, restarts >>
<1> USE DEF DispatchInv, DispatchAgreement
<1>1. PICK i \in Finished(a) :
          /\ tasks' = [tasks EXCEPT ![a] = Without(tasks[a], i)]
          /\ IF SettleAdmitted(a)
               THEN /\ Settle(a)
                    /\ scheduled' = scheduled \ {a}
                    /\ failed' = IF tasks[a][i] = "err" THEN failed \cup {a} ELSE failed
                    /\ phase' = "spawn"
               ELSE /\ phase' = "failed"
                    /\ UNCHANGED << schedulerVars, scheduled, failed >>
  BY DEF Join
<1>2. tasks[a] \in Seq({"running", "ok", "err"}) /\ i \in DOMAIN tasks[a]
  BY DEF DispatchTypeOK, Finished
<1>3. a \in inFlight /\ Len(tasks[a]) = 1
  BY <1>2 DEF LocalsAgree
<1>4. i = 1
  BY <1>2, <1>3
<1>5. Without(tasks[a], i) = << >>
  <2>1. SubSeq(tasks[a], 1, 0) = << >> /\ SubSeq(tasks[a], 2, 1) = << >>
    BY SubSeqEmpty
  <2>2. << >> \o << >> = << >>
    BY EmptySeq, ConcatEmptySeq
  <2>3. i - 1 = 0 /\ i + 1 = 2
    BY <1>4
  <2> QED
    BY <1>3, <2>1, <2>2, <2>3 DEF Without
<1>6. SettleAdmitted(a)
  <2>1. Cardinality(inFlight) # 0
    BY <1>3, FS_EmptySet DEF SchedulerInv
  <2> QED
    BY <1>3, <2>1 DEF SettleAdmitted, SchedulerInv, MapTight, InFlightCounted
<1>7. /\ phase = "select" /\ UNCHANGED << view, groups, written, restarts >>
  BY DEF Join
<1> QED
  BY <1>1, <1>3, <1>5, <1>6, <1>7

(* A turn is joined and settled.                                           *)
LEMMA JoinStep ==
  ASSUME DispatchInv, NEW a \in Accounts, Join(a)
  PROVE  DispatchInv'
<1> USE DEF DispatchInv, DispatchAgreement
<1>1. /\ phase = "select" /\ phase' = "spawn"
      /\ a \in inFlight
      /\ tasks' = [tasks EXCEPT ![a] = << >>]
      /\ Settle(a)
      /\ scheduled' = scheduled \ {a}
      /\ failed' \in {failed, failed \cup {a}}
      /\ UNCHANGED << view, groups, written, restarts >>
  BY JoinFacts
<1>2. SchedulerInv'
  BY <1>1, SettleInv
<1>3. queued[a] = << >>
  BY <1>1 DEF LocalsAgree
<1>4. queued' = queued /\ inFlight' = inFlight \ {a} /\ present' = present \ {a}
  BY <1>1, <1>3 DEF Settle
<1>5. tasks'[a] = << >> /\ \A b \in Accounts : b # a => tasks'[b] = tasks[b]
  BY <1>1 DEF DispatchTypeOK
<1>6. DispatchTypeOK'
  <2>1. tasks' \in [Accounts -> Seq({"running", "ok", "err"})]
    BY <1>1, EmptySeq DEF DispatchTypeOK
  <2> QED
    BY <1>1, <1>2, <2>1 DEF DispatchTypeOK, SchedulerInv
<1>7. LocalsAgree'
  <2>1. Len(queued'[a]) <= 1
    BY <1>3, <1>4
  <2> QED
    BY <1>1, <1>4, <1>5, <2>1 DEF LocalsAgree
<1>8. (ReadHolds /\ LoopNeverRefused /\ FreshSnapshots)'
  BY <1>1, <1>4 DEF ReadHolds, LoopNeverRefused, FreshSnapshots
<1> QED
  BY <1>2, <1>6, <1>7, <1>8

(* Time, producers: nothing the invariant speaks of but a cool-down and    *)
(* the durable rows.                                                       *)
LEMMA OutsideStep ==
  ASSUME DispatchInv, NEW a \in Accounts,
         CooldownElapses(a) \/ ProducerCommits(a) \/ BackoffElapses(a)
  PROVE  DispatchInv'
<1> USE DEF DispatchInv, DispatchAgreement, schedulerVars
<1>1. /\ UNCHANGED << schedulerVars, phase, groups, scheduled, tasks, written, restarts >>
      /\ failed' \subseteq failed
  BY DEF CooldownElapses, ProducerCommits, BackoffElapses
<1>2. view' \in [Accounts -> Views]
  BY DEF CooldownElapses, ProducerCommits, BackoffElapses, DispatchTypeOK, Views
<1>3. SchedulerInv'
  BY <1>1 DEF SchedulerInv, TypeOK, ReadyExact, InReady, InFlightCounted, MapTight
<1>4. DispatchTypeOK'
  BY <1>1, <1>2, <1>3 DEF DispatchTypeOK, SchedulerInv
<1>5. (LocalsAgree /\ ReadHolds /\ LoopNeverRefused /\ FreshSnapshots)'
  BY <1>1 DEF LocalsAgree, ReadHolds, LoopNeverRefused, FreshSnapshots
<1> QED
  BY <1>3, <1>4, <1>5

(* A turn writes rows of its account, which is in flight.                  *)
LEMMA TurnWritesStep ==
  ASSUME DispatchInv, NEW a \in Accounts, TurnWrites(a)
  PROVE  DispatchInv'
<1> USE DEF DispatchInv, DispatchAgreement, TurnWrites, schedulerVars
<1>1. a \in inFlight /\ queued[a] = << >>
  <2>1. tasks[a] # << >>
    BY DEF Running
  <2> QED
    BY <2>1 DEF LocalsAgree
<1>2. SchedulerInv'
  BY DEF SchedulerInv, TypeOK, ReadyExact, InReady, InFlightCounted, MapTight
<1>3. view' \in [Accounts -> Views]
  BY DEF DispatchTypeOK
<1>4. DispatchTypeOK'
  BY <1>2, <1>3 DEF DispatchTypeOK, SchedulerInv
<1>5. (LocalsAgree /\ ReadHolds /\ LoopNeverRefused /\ FreshSnapshots)'
  BY <1>1 DEF LocalsAgree, ReadHolds, LoopNeverRefused, FreshSnapshots
<1> QED
  BY <1>2, <1>4, <1>5

(* The end of a turn keeps the number of tasks.                            *)
LEMMA TurnEndsFacts ==
  ASSUME DispatchInv, NEW a \in Accounts, TurnEnds(a)
  PROVE  /\ tasks' \in [Accounts -> Seq({"running", "ok", "err"})]
         /\ \A b \in Accounts : Len(tasks'[b]) = Len(tasks[b])
<1>1. PICK i \in Running(a), result \in {"ok", "err"} : tasks' = [tasks EXCEPT ![a][i] = result]
  BY DEF TurnEnds
<1>2. /\ tasks \in [Accounts -> Seq({"running", "ok", "err"})]
      /\ tasks[a] \in Seq({"running", "ok", "err"}) /\ i \in DOMAIN tasks[a]
  BY DEF DispatchInv, DispatchAgreement, DispatchTypeOK, Running
<1> DEFINE s == [tasks[a] EXCEPT ![i] = result]
<1>3. s \in Seq({"running", "ok", "err"}) /\ Len(s) = Len(tasks[a])
  BY <1>2
<1>4. tasks' = [tasks EXCEPT ![a] = s]
  BY <1>1
<1> HIDE DEF s
<1> QED
  BY <1>2, <1>3, <1>4

(* A turn ends.                                                            *)
LEMMA TurnEndsStep ==
  ASSUME DispatchInv, NEW a \in Accounts, TurnEnds(a)
  PROVE  DispatchInv'
<1> USE DEF DispatchInv, DispatchAgreement, schedulerVars
<1>1. UNCHANGED << schedulerVars, view, phase, groups, scheduled, failed, written, restarts >>
  BY DEF TurnEnds
<1>2. /\ tasks' \in [Accounts -> Seq({"running", "ok", "err"})]
      /\ \A b \in Accounts : Len(tasks'[b]) = Len(tasks[b])
  BY TurnEndsFacts
<1>3. SchedulerInv'
  BY <1>1 DEF SchedulerInv, TypeOK, ReadyExact, InReady, InFlightCounted, MapTight
<1>4. DispatchTypeOK'
  BY <1>1, <1>2, <1>3 DEF DispatchTypeOK, SchedulerInv
<1>5. LocalsAgree'
  <2>1. \A b \in Accounts : tasks[b] = << >> => tasks'[b] = << >>
    BY <1>2, EmptySeq
  <2> QED
    BY <1>1, <1>2, <2>1 DEF LocalsAgree
<1>6. (ReadHolds /\ LoopNeverRefused /\ FreshSnapshots)'
  BY <1>1 DEF ReadHolds, LoopNeverRefused, FreshSnapshots
<1> QED
  BY <1>3, <1>4, <1>5, <1>6

(* The process dies and starts anew.                                       *)
LEMMA RestartStep == DispatchInv /\ Restart => DispatchInv'
<1> SUFFICES ASSUME DispatchInv, Restart PROVE DispatchInv'
  OBVIOUS
<1>1. SchedulerInit' /\ ProcessInit'
  BY DEF Restart, SchedulerInit, ProcessInit
<1>2. DurableOK'
  BY DispatchAssumption
     DEF DurableOK, Restart, DispatchInv, DispatchAgreement, DispatchTypeOK
<1> QED
  BY <1>1, <1>2, ProcessStarts, PTL

(* The inductive invariant holds in every reachable state.                 *)
THEOREM DispatchInvariant == Spec => []DispatchInv
<1>1. Init => DispatchInv
  BY ProcessStarts, DispatchAssumption DEF Init, DurableOK
<1>2. DispatchInv /\ [Next]_vars => DispatchInv'
  <2> SUFFICES ASSUME DispatchInv, [Next]_vars PROVE DispatchInv'
    OBVIOUS
  <2>1. CASE Loop
    BY <2>1, DiscoverReadStep, LoopMoves, AdmitOneStep, SpawnStep, JoinStep DEF Loop
  <2>2. ASSUME NEW a \in Accounts,
               \/ CooldownElapses(a) \/ TurnWrites(a) \/ TurnEnds(a)
               \/ ProducerCommits(a) \/ BackoffElapses(a)
        PROVE  DispatchInv'
    BY <2>2, OutsideStep, TurnWritesStep, TurnEndsStep
  <2>3. CASE Restart
    BY <2>3, RestartStep
  <2>4. CASE UNCHANGED vars
    BY <2>4 DEF vars, schedulerVars, dispatchVars, DispatchInv, DispatchAgreement,
                DispatchTypeOK, LocalsAgree, ReadHolds, LoopNeverRefused, FreshSnapshots,
                SchedulerInv, TypeOK, ReadyExact, InReady, InFlightCounted, MapTight
  <2> QED
    BY <2>1, <2>2, <2>3, <2>4 DEF Next
<1> QED
  BY <1>1, <1>2, PTL DEF Spec

(* Type correctness of the loop and of the scheduler under it.             *)
THEOREM DispatchTypeCorrect == Spec => []DispatchTypeOK
<1>1. DispatchInv => DispatchTypeOK
  BY DEF DispatchInv, DispatchAgreement
<1> QED
  BY <1>1, DispatchInvariant, PTL

(* No interleaving of discovery, turns, joins and restarts makes enqueue   *)
(* or settle refuse the loop, which would end it for every account.        *)
THEOREM DispatchNeverRefused == Spec => []LoopNeverRefused
<1>1. DispatchInv => LoopNeverRefused
  BY DEF DispatchInv, DispatchAgreement
<1> QED
  BY <1>1, DispatchInvariant, PTL

(* No turn of the account wrote its rows after the read from which a       *)
(* queued turn was made.                                                   *)
THEOREM DispatchFresh == Spec => []FreshSnapshots
<1>1. DispatchInv => FreshSnapshots
  BY DEF DispatchInv, DispatchAgreement
<1> QED
  BY <1>1, DispatchInvariant, PTL

-----------------------------------------------------------------------------
(* The refinement of SerialTurns.                                          *)

(* No task: no turn under way.                                             *)
LEMMA TurnsStart == Init => Serializer!TurnsInit
<1> SUFFICES ASSUME Init PROVE Serializer!TurnsInit
  OBVIOUS
<1>1. \A a \in Accounts : Len(tasks[a]) = 0
  BY EmptySeq DEF Init, ProcessInit, NoTasks
<1> QED
  BY <1>1 DEF Serializer!TurnsInit, TurnsUnderWay

(* A spawned task is a start: its account had none, and those that have    *)
(* one are the accounts in flight, which claim_next counts.                *)
LEMMA SpawnIsStart ==
  ASSUME DispatchInv, Spawn
  PROVE  Serializer!TurnsNext
<1> USE DEF DispatchInv, DispatchAgreement
<1> USE DEF TurnsUnderWay
<1>1. PICK h \in Accounts :
           /\ h \notin inFlight /\ queued[h] # << >>
           /\ inFlight' = inFlight \cup {h}
           /\ queued' = [queued EXCEPT ![h] = Tail(queued[h])]
           /\ tasks[h] = << >>
           /\ tasks' = [tasks EXCEPT ![h] = << "running" >>]
  BY SpawnFacts
<1>2. \A b \in Accounts : TurnsUnderWay[b] > 0 <=> b \in inFlight
  <2>1. \A b \in Accounts : Len(tasks[b]) > 0 <=> b \in inFlight
    <3> SUFFICES ASSUME NEW b \in Accounts PROVE Len(tasks[b]) > 0 <=> b \in inFlight
      OBVIOUS
    <3>1. tasks[b] = << >> => Len(tasks[b]) = 0
      BY EmptySeq
    <3> QED
      BY <3>1 DEF LocalsAgree
  <2> QED
    BY <2>1
<1>3. { b \in Accounts : TurnsUnderWay[b] > 0 } = inFlight
  BY <1>2 DEF DispatchTypeOK, TypeOK
<1>4. Cardinality({ b \in Accounts : TurnsUnderWay[b] > 0 }) < MaxGlobalInFlight
  BY <1>3 DEF Spawn, ClaimNext, SchedulerInv, InFlightCounted
<1>5. TurnsUnderWay[h] = 0
  BY <1>1, EmptySeq
<1>6. TurnsUnderWay' = [TurnsUnderWay EXCEPT ![h] = 1]
  <2>1. Len(tasks'[h]) = 1 /\ \A b \in Accounts : b # h => tasks'[b] = tasks[b]
    BY <1>1 DEF DispatchTypeOK
  <2> QED
    BY <2>1
<1>7. Serializer!Start(h)
  <2>1. \A S : Serializer!Cardinality(S) = Cardinality(S)
    BY DEF Serializer!Cardinality, Cardinality
  <2> HIDE DEF TurnsUnderWay
  <2> QED
    BY <1>4, <1>5, <1>6, <2>1 DEF Serializer!Start
<1> QED
  BY <1>7 DEF Serializer!TurnsNext

(* A joined task is a finish.                                              *)
LEMMA JoinIsFinish ==
  ASSUME DispatchInv, NEW a \in Accounts, Join(a)
  PROVE  Serializer!TurnsNext
<1> USE DEF TurnsUnderWay
<1>1. Len(tasks[a]) = 1 /\ tasks' = [tasks EXCEPT ![a] = << >>]
  BY JoinFacts
<1>2. TurnsUnderWay' = [TurnsUnderWay EXCEPT ![a] = 0]
  <2>1. Len(tasks'[a]) = 0 /\ \A b \in Accounts : b # a => tasks'[b] = tasks[b]
    BY <1>1, EmptySeq DEF DispatchInv, DispatchAgreement, DispatchTypeOK
  <2> QED
    BY <2>1
<1>3. Serializer!Finish(a)
  BY <1>1, <1>2 DEF Serializer!Finish
<1> QED
  BY <1>3 DEF Serializer!TurnsNext

(* A restart aborts every turn.                                            *)
LEMMA RestartIsAbort ==
  ASSUME Restart
  PROVE  Serializer!TurnsNext
<1>1. TurnsUnderWay' = [a \in Accounts |-> 0]
  <2>1. tasks' = [a \in Accounts |-> << >>]
    BY DEF Restart, NoTasks
  <2>2. Len(<< >>) = 0
    BY EmptySeq
  <2> QED
    BY <2>1, <2>2 DEF TurnsUnderWay
<1> QED
  BY <1>1 DEF Serializer!Abort, Serializer!TurnsNext

(* A turn that ends is still under way until it is joined.                 *)
LEMMA EndIsNoFinish ==
  ASSUME DispatchInv, NEW a \in Accounts, TurnEnds(a)
  PROVE  UNCHANGED TurnsUnderWay
<1>1. \A b \in Accounts : Len(tasks'[b]) = Len(tasks[b])
  BY TurnEndsFacts
<1> QED
  BY <1>1 DEF TurnsUnderWay

(* Every step is a start, a finish, an abort of all turns, or leaves the   *)
(* turns under way as they are.                                            *)
LEMMA StepIsTurn ==
  ASSUME DispatchInv, [Next]_vars
  PROVE  [Serializer!TurnsNext]_TurnsUnderWay
<1>1. CASE Spawn
  BY <1>1, SpawnIsStart
<1>2. ASSUME NEW a \in Accounts, Join(a)
      PROVE  [Serializer!TurnsNext]_TurnsUnderWay
  BY <1>2, JoinIsFinish
<1>3. CASE Restart
  BY <1>3, RestartIsAbort
<1>4. ASSUME NEW a \in Accounts, TurnEnds(a)
      PROVE  [Serializer!TurnsNext]_TurnsUnderWay
  BY <1>4, EndIsNoFinish
<1>5. CASE tasks' = tasks
  BY <1>5 DEF TurnsUnderWay
<1>6. CASE DiscoverRead \/ AdmitDone \/ AdmitSkip \/ AdmitOne \/ SpawnDone \/ DiscoveryTick
  <2>1. tasks' = tasks
    BY <1>6 DEF DiscoverRead, AdmitDone, AdmitSkip, AdmitOne, SpawnDone, DiscoveryTick
  <2> QED
    BY <1>5, <2>1
<1>7. ASSUME NEW a \in Accounts,
             CooldownElapses(a) \/ TurnWrites(a) \/ ProducerCommits(a) \/ BackoffElapses(a)
      PROVE  [Serializer!TurnsNext]_TurnsUnderWay
  <2>1. tasks' = tasks
    BY <1>7 DEF CooldownElapses, TurnWrites, ProducerCommits, BackoffElapses
  <2> QED
    BY <1>5, <2>1
<1>8. CASE UNCHANGED vars
  BY <1>5, <1>8 DEF vars, dispatchVars
<1> QED
  BY <1>1, <1>2, <1>3, <1>4, <1>6, <1>7, <1>8 DEF Next, Loop

(* The dispatcher runs at most one turn of an account and at most          *)
(* MaxGlobalInFlight turns at a time, whatever the order of reads, joins   *)
(* and restarts: it implements SerialTurns.                                *)
THEOREM DispatchSerializes == Spec => SerializesTurns
<1>1. Init => Serializer!TurnsInit
  BY TurnsStart
<1>2. DispatchInv /\ [Next]_vars => [Serializer!TurnsNext]_TurnsUnderWay
  BY StepIsTurn
<1> QED
  BY <1>1, <1>2, DispatchInvariant, PTL DEF Spec, SerializesTurns, Serializer!TurnsSpec

-----------------------------------------------------------------------------
(* Round robin.                                                            *)

(* An appended account is behind all that wait.                            *)
LEMMA AppendedIsLast ==
  ASSUME TypeOK, NEW a \in Accounts, ready' = Append(ready, a),
         NEW i \in DOMAIN ready', NEW j \in DOMAIN ready',
         InReady(ready'[i]), ~InReady(ready'[j])
  PROVE  i < j
<1>1. /\ DOMAIN ready = 1..Len(ready) /\ Len(ready) \in Nat
      /\ DOMAIN ready' = 1..(Len(ready) + 1)
      /\ \A k \in 1..Len(ready) : ready'[k] = ready[k]
      /\ ready'[Len(ready) + 1] = a
  BY DEF TypeOK
<1>2. \A k \in 1..Len(ready) : InReady(ready'[k])
  BY <1>1 DEF InReady
<1>3. j = Len(ready) + 1
  BY <1>1, <1>2
<1>4. ready'[i] # a
  BY <1>1, <1>3
<1> QED
  BY <1>1, <1>3, <1>4

(* Accounts join the ready queue at its end, in every step of the loop.    *)
LEMMA StepKeepsOrder ==
  ASSUME DispatchInv, [Next]_vars,
         NEW i \in DOMAIN ready', NEW j \in DOMAIN ready',
         InReady(ready'[i]), ~InReady(ready'[j])
  PROVE  i < j
<1> USE DEF DispatchInv, DispatchAgreement
<1>1. CASE ready' = ready
  BY <1>1 DEF InReady
<1>2. ASSUME NEW a \in Accounts, ready' = Append(ready, a) PROVE i < j
  BY <1>2, AppendedIsLast DEF SchedulerInv
<1>3. CASE AdmitOne
  <2>1. FirstGroup \in Accounts
    BY <1>3, FirstGroupExists DEF AdmitOne, Remaining
  <2>2. ready' = ready \/ ready' = Append(ready, FirstGroup)
    BY <1>3 DEF AdmitOne, Enqueue, schedulerVars
  <2> QED
    BY <1>1, <1>2, <2>1, <2>2
<1>4. CASE Spawn
  <2>1. ready # << >> /\ ClaimIndex = 1 /\ ready' = SubSeq(ready, 2, Len(ready))
    BY <1>4, ClaimTakesHead DEF Spawn, ClaimNext, SchedulerInv
  <2>2. ready \in Seq(Accounts)
    BY DEF SchedulerInv, TypeOK
  <2>3. ready' = Tail(ready)
    BY <2>1, <2>2, TailIsSubSeq
  <2>4. j + 1 \in DOMAIN ready /\ ready'[j] = ready[j + 1]
    BY <2>1, <2>2, <2>3
  <2> QED
    BY <2>4 DEF InReady
<1>5. ASSUME NEW a \in Accounts, Join(a) PROVE i < j
  <2>1. ready' = ready \/ ready' = Append(ready, a)
    BY <1>5, JoinFacts DEF Settle
  <2> QED
    BY <1>1, <1>2, <2>1
<1>6. CASE Restart
  BY <1>6 DEF Restart
<1>7. CASE DiscoverRead \/ AdmitDone \/ AdmitSkip \/ SpawnDone \/ DiscoveryTick
  <2>1. ready' = ready
    BY <1>7 DEF DiscoverRead, AdmitDone, AdmitSkip, SpawnDone, DiscoveryTick, schedulerVars
  <2> QED
    BY <1>1, <2>1
<1>8. ASSUME NEW a \in Accounts,
             \/ CooldownElapses(a) \/ TurnWrites(a) \/ TurnEnds(a)
             \/ ProducerCommits(a) \/ BackoffElapses(a)
      PROVE  i < j
  <2>1. ready' = ready
    BY <1>8 DEF CooldownElapses, TurnWrites, TurnEnds, ProducerCommits, BackoffElapses, schedulerVars
  <2> QED
    BY <1>1, <2>1
<1>9. CASE UNCHANGED vars
  BY <1>1, <1>9 DEF vars, schedulerVars
<1> QED
  BY <1>3, <1>4, <1>5, <1>6, <1>7, <1>8, <1>9 DEF Next, Loop

(* An account that waits in the ready queue is never overtaken by one that *)
(* was not waiting when it already was.                                    *)
THEOREM DispatchRoundRobin == Spec => NoOvertaking
<1>1. ASSUME DispatchInv, [Next]_vars
      PROVE  [\A i, j \in DOMAIN ready' :
                 (InReady(ready'[i]) /\ ~InReady(ready'[j])) => i < j]_schedulerVars
  BY <1>1, StepKeepsOrder
<1> QED
  BY <1>1, DispatchInvariant, PTL DEF Spec, NoOvertaking

-----------------------------------------------------------------------------
(* The writer lease.                                                       *)

(* RegisterInitial keeps the invariant. *)
LEMMA RegisterInitialStep ==
    ASSUME LeaseInv, NEW p \in Processes, NEW rb \in 1..readback, RegisterInitial(p, rb)
    PROVE  LeaseInv'
<1> DEFINE S == [token |-> cell.rev + 1, gen |-> cell.next, rev |-> cell.rev + 1, rb |-> rb,
                 until |-> now + TTL]
<1>1. /\ cell \in Cells /\ sess \in [Processes -> Session] /\ entry \in [Processes -> BOOLEAN]
      /\ now \in Nat /\ readback \in Nat /\ TTL \in Nat
  BY LeaseAssumption DEF LeaseInv, LeaseTypeOK
<1>2. Valid(cell) /\ guard = NoGuard /\ guard' = guard /\ now' = now /\ readback' = readback
  BY DEF RegisterInitial, Persist, NextSession, Locked, Advances, history
<1>3. S \in Session
  BY <1>1 DEF Cells, Session, Fence, NoFence, None, RegisterInitial, Persist, NextSession,
       Locked, Advances, history
<1>4. cell' = [cell EXCEPT !.rev = cell.rev + 1, !.next = cell.next + 1, !.active = S, !.prot = FALSE]
  BY <1>1 DEF RegisterInitial, Persist, NextSession, Locked, Advances, history, Cells
<1>5. \/ sess' = [sess EXCEPT ![p] = S] /\ entry' = [entry EXCEPT ![p] = TRUE]
      \/ sess' = sess /\ entry' = entry
  BY DEF RegisterInitial, Persist, NextSession, Locked, Advances, history
<1> HIDE DEF S
<1>6. /\ cell' \in Cells
      /\ cell'.rev = cell.rev + 1
      /\ cell'.next = cell.next + 1
      /\ cell'.active = S
      /\ cell'.prot = FALSE
      /\ cell'.flat = cell.flat
      /\ cell'.pending = cell.pending
      /\ cell'.handoffs = cell.handoffs
  <2>1. cell.pending \in Fence \cup {NoFence}
    BY <1>1 DEF Cells, Fence
  <2>2. cell.handoffs \in SUBSET Handoffs
    BY <1>1, <1>2 DEF Cells, Fence
  <2>3. /\ cell'.rev = cell.rev + 1
        /\ cell'.next = cell.next + 1
        /\ cell'.active = S
        /\ cell'.prot = FALSE
        /\ cell'.flat = cell.flat
        /\ cell'.pending = cell.pending
        /\ cell'.handoffs = cell.handoffs
    BY <1>1, <1>4 DEF Cells
  <2>4. cell' = [rev |-> cell.rev + 1, next |-> cell.next + 1, active |-> S, prot |-> FALSE,
                 flat |-> cell.flat, pending |-> cell.pending, handoffs |-> cell.handoffs]
    BY <1>1, <1>4 DEF Cells
  <2>5. /\ cell.rev + 1 \in Nat
        /\ cell.next + 1 \in Nat
        /\ FALSE \in BOOLEAN
        /\ cell.flat \in SUBSET FlatReceipts
        /\ S \in Session
    BY <1>1, <1>3 DEF Cells
  <2>6. cell' \in Cells
    BY <2>1, <2>2, <2>4, <2>5 DEF Cells
  <2> QED BY <2>3, <2>6
<1>7. LeaseTypeOK'
  <2>1. gone' \in SUBSET Nat /\ protected' \in SUBSET Nat /\ cleared' \in SUBSET Nat
    BY <1>1 DEF LeaseInv, LeaseTypeOK, Cells, Session, RegisterInitial, Persist, NextSession, Locked,
         Advances, history
  <2>2. uses' \in [Receipts -> Nat]
    BY <1>1 DEF LeaseInv, LeaseTypeOK, Receipts, Cells, Fence, RegisterInitial, Persist, NextSession,
         Locked, Advances, history
  <2> QED BY <1>1, <1>2, <1>3, <1>6, <1>5, <2>1, <2>2 DEF LeaseInv, LeaseTypeOK
<1>8. AlwaysValid'
  BY <1>1, <1>2, <1>3, <1>6 DEF AlwaysValid, Valid, S, RegisterInitial, Persist, NextSession,
       Locked, Advances, history, Cells, Session, Fence, NoFence, None
<1>9. GuardIsCurrent'
  BY <1>2 DEF GuardIsCurrent
<1>10. KnownPast'
  BY <1>1, <1>3, <1>6, <1>5 DEF LeaseInv, KnownPast, S, Cells, Session, None
<1>11. GonePast'
  <2>1. /\ gone' = gone
        /\ cleared' = cleared
    BY DEF RegisterInitial, Persist, NextSession, Locked, Advances, history
  <2> QED BY <1>1, <1>2, <1>3, <1>6, <2>1 DEF LeaseInv, LeaseTypeOK, GonePast, Valid, S, Cells,
               Session, None, RegisterInitial, Exact, Live, Locked
<1>12. ProtectedHeld'
  BY <1>1, <1>2, <1>3, <1>6 DEF LeaseInv, ProtectedHeld, EntryExact, Valid, S, RegisterInitial,
       Persist, NextSession, Locked, Advances, history, Exact, Cells, Session, None
<1>13. EntryExact'
  BY <1>1, <1>2, <1>3, <1>6, <1>5 DEF LeaseInv, EntryExact, KnownPast, Valid, S,
       RegisterInitial, Exact, Cells, Session, None
<1>14. UsesStored'
  BY <1>1, <1>2, <1>6 DEF LeaseInv, LeaseTypeOK, UsesStored, Receipts, Valid, Cells, Fence,
       RegisterInitial, Persist, NextSession, Locked, Advances, history
<1> QED BY <1>7, <1>8, <1>9, <1>10, <1>11, <1>12, <1>13, <1>14 DEF LeaseInv

(* Renew keeps the invariant. *)
LEMMA RenewStep ==
    ASSUME LeaseInv, NEW p \in Processes, Renew(p)
    PROVE  LeaseInv'
<1> DEFINE S == [token |-> cell.active.token, gen |-> cell.active.gen, rev |-> cell.rev + 1,
               rb |-> cell.active.rb, until |-> now + TTL]
<1>1. /\ cell \in Cells /\ sess \in [Processes -> Session] /\ entry \in [Processes -> BOOLEAN]
      /\ now \in Nat /\ readback \in Nat /\ TTL \in Nat
  BY LeaseAssumption DEF LeaseInv, LeaseTypeOK
<1>2. Valid(cell) /\ guard = NoGuard /\ guard' = guard /\ now' = now /\ readback' = readback
  BY DEF Renew, Persist, Renewed, Locked, Advances, Live, Exact, history
<1>3. S \in Session
  BY <1>1 DEF Cells, Session, Fence, NoFence, None, Renew, Persist, Renewed, Locked, Advances,
       Live, Exact, history
<1>4. cell' = [cell EXCEPT !.rev = cell.rev + 1, !.active = S]
  BY <1>1 DEF Renew, Persist, Renewed, Locked, Advances, Live, Exact, history, Cells
<1>5. \/ sess' = [sess EXCEPT ![p] = S] /\ entry' = [entry EXCEPT ![p] = TRUE]
      \/ sess' = sess /\ entry' = entry
  BY DEF Renew, Persist, Renewed, Locked, Advances, Live, Exact, history
<1> HIDE DEF S
<1>6. /\ cell' \in Cells
      /\ cell'.rev = cell.rev + 1
      /\ cell'.next = cell.next
      /\ cell'.active = S
      /\ cell'.prot = cell.prot
      /\ cell'.flat = cell.flat
      /\ cell'.pending = cell.pending
      /\ cell'.handoffs = cell.handoffs
  <2>1. cell.pending \in Fence \cup {NoFence}
    BY <1>1 DEF Cells, Fence
  <2>2. cell.handoffs \in SUBSET Handoffs
    BY <1>1, <1>2 DEF Cells, Fence
  <2>3. /\ cell'.rev = cell.rev + 1
        /\ cell'.next = cell.next
        /\ cell'.active = S
        /\ cell'.prot = cell.prot
        /\ cell'.flat = cell.flat
        /\ cell'.pending = cell.pending
        /\ cell'.handoffs = cell.handoffs
    BY <1>1, <1>4 DEF Cells
  <2>4. cell' = [rev |-> cell.rev + 1, next |-> cell.next, active |-> S, prot |-> cell.prot,
                 flat |-> cell.flat, pending |-> cell.pending, handoffs |-> cell.handoffs]
    BY <1>1, <1>4 DEF Cells
  <2>5. /\ cell.rev + 1 \in Nat
        /\ cell.next \in Nat
        /\ cell.prot \in BOOLEAN
        /\ cell.flat \in SUBSET FlatReceipts
        /\ S \in Session
    BY <1>1, <1>3 DEF Cells
  <2>6. cell' \in Cells
    BY <2>1, <2>2, <2>4, <2>5 DEF Cells
  <2> QED BY <2>3, <2>6
<1>7. LeaseTypeOK'
  <2>1. gone' \in SUBSET Nat /\ protected' \in SUBSET Nat /\ cleared' \in SUBSET Nat
    BY <1>1 DEF LeaseInv, LeaseTypeOK, Cells, Session, Renew, Persist, Renewed, Locked, Advances,
         Live, Exact, history
  <2>2. uses' \in [Receipts -> Nat]
    BY <1>1 DEF LeaseInv, LeaseTypeOK, Receipts, Cells, Fence, Renew, Persist, Renewed, Locked,
         Advances, Live, Exact, history
  <2> QED BY <1>1, <1>2, <1>3, <1>6, <1>5, <2>1, <2>2 DEF LeaseInv, LeaseTypeOK
<1>8. AlwaysValid'
  BY <1>1, <1>2, <1>3, <1>6 DEF AlwaysValid, Valid, S, Renew, Persist, Renewed, Locked,
       Advances, Live, Exact, history, Cells, Session, Fence, NoFence, None
<1>9. GuardIsCurrent'
  BY <1>2 DEF GuardIsCurrent
<1>10. KnownPast'
  BY <1>1, <1>3, <1>6, <1>5 DEF LeaseInv, KnownPast, S, Cells, Session, None
<1>11. GonePast'
  <2>1. /\ gone' = gone
        /\ cleared' = cleared
    BY DEF Renew, Persist, Renewed, Locked, Advances, Live, Exact, history
  <2> QED BY <1>1, <1>2, <1>3, <1>6, <2>1 DEF LeaseInv, LeaseTypeOK, GonePast, Valid, S, Cells,
               Session, None, Renew, Exact, Live, Locked
<1>12. ProtectedHeld'
  BY <1>1, <1>2, <1>3, <1>6 DEF LeaseInv, ProtectedHeld, EntryExact, Valid, S, Renew, Persist,
       Renewed, Locked, Advances, Live, Exact, history, Exact, Cells, Session, None
<1>13. EntryExact'
  BY <1>1, <1>2, <1>3, <1>6, <1>5 DEF LeaseInv, EntryExact, KnownPast, Valid, S, Renew, Exact,
       Cells, Session, None
<1>14. UsesStored'
  BY <1>1, <1>2, <1>6 DEF LeaseInv, LeaseTypeOK, UsesStored, Receipts, Valid, Cells, Fence, Renew,
       Persist, Renewed, Locked, Advances, Live, Exact, history
<1> QED BY <1>7, <1>8, <1>9, <1>10, <1>11, <1>12, <1>13, <1>14 DEF LeaseInv

(* Recover keeps the invariant. *)
LEMMA RecoverStep ==
    ASSUME LeaseInv, NEW p \in Processes, NEW rb \in 1..readback, Recover(p, rb)
    PROVE  LeaseInv'
<1> DEFINE S == [token |-> cell.rev + 1, gen |-> cell.active.gen, rev |-> cell.rev + 1, rb |->
                 rb, until |-> now + TTL]
<1>1. /\ cell \in Cells /\ sess \in [Processes -> Session] /\ entry \in [Processes -> BOOLEAN]
      /\ now \in Nat /\ readback \in Nat /\ TTL \in Nat
  BY LeaseAssumption DEF LeaseInv, LeaseTypeOK
<1>2. Valid(cell) /\ guard = NoGuard /\ guard' = guard /\ now' = now /\ readback' = readback
  BY DEF Recover, Persist, Reopened, Locked, Advances, Exact, history
<1>3. S \in Session
  BY <1>1 DEF Cells, Session, Fence, NoFence, None, Recover, Persist, Reopened, Locked,
       Advances, Exact, history
<1>4. cell' = [cell EXCEPT !.rev = cell.rev + 1, !.active = S]
  BY <1>1 DEF Recover, Persist, Reopened, Locked, Advances, Exact, history, Cells
<1>5. \/ sess' = [sess EXCEPT ![p] = S] /\ entry' = [entry EXCEPT ![p] = TRUE]
      \/ sess' = sess /\ entry' = entry
  BY DEF Recover, Persist, Reopened, Locked, Advances, Exact, history
<1> HIDE DEF S
<1>6. /\ cell' \in Cells
      /\ cell'.rev = cell.rev + 1
      /\ cell'.next = cell.next
      /\ cell'.active = S
      /\ cell'.prot = cell.prot
      /\ cell'.flat = cell.flat
      /\ cell'.pending = cell.pending
      /\ cell'.handoffs = cell.handoffs
  <2>1. cell.pending \in Fence \cup {NoFence}
    BY <1>1 DEF Cells, Fence
  <2>2. cell.handoffs \in SUBSET Handoffs
    BY <1>1, <1>2 DEF Cells, Fence
  <2>3. /\ cell'.rev = cell.rev + 1
        /\ cell'.next = cell.next
        /\ cell'.active = S
        /\ cell'.prot = cell.prot
        /\ cell'.flat = cell.flat
        /\ cell'.pending = cell.pending
        /\ cell'.handoffs = cell.handoffs
    BY <1>1, <1>4 DEF Cells
  <2>4. cell' = [rev |-> cell.rev + 1, next |-> cell.next, active |-> S, prot |-> cell.prot,
                 flat |-> cell.flat, pending |-> cell.pending, handoffs |-> cell.handoffs]
    BY <1>1, <1>4 DEF Cells
  <2>5. /\ cell.rev + 1 \in Nat
        /\ cell.next \in Nat
        /\ cell.prot \in BOOLEAN
        /\ cell.flat \in SUBSET FlatReceipts
        /\ S \in Session
    BY <1>1, <1>3 DEF Cells
  <2>6. cell' \in Cells
    BY <2>1, <2>2, <2>4, <2>5 DEF Cells
  <2> QED BY <2>3, <2>6
<1>7. LeaseTypeOK'
  <2>1. gone' \in SUBSET Nat /\ protected' \in SUBSET Nat /\ cleared' \in SUBSET Nat
    BY <1>1 DEF LeaseInv, LeaseTypeOK, Cells, Session, Recover, Persist, Reopened, Locked, Advances,
         Exact, history
  <2>2. uses' \in [Receipts -> Nat]
    BY <1>1 DEF LeaseInv, LeaseTypeOK, Receipts, Cells, Fence, Recover, Persist, Reopened, Locked,
         Advances, Exact, history
  <2> QED BY <1>1, <1>2, <1>3, <1>6, <1>5, <2>1, <2>2 DEF LeaseInv, LeaseTypeOK
<1>8. AlwaysValid'
  BY <1>1, <1>2, <1>3, <1>6 DEF AlwaysValid, Valid, S, Recover, Persist, Reopened, Locked,
       Advances, Exact, history, Cells, Session, Fence, NoFence, None
<1>9. GuardIsCurrent'
  BY <1>2 DEF GuardIsCurrent
<1>10. KnownPast'
  BY <1>1, <1>3, <1>6, <1>5 DEF LeaseInv, KnownPast, S, Cells, Session, None
<1>11. GonePast'
  <2>1. /\ gone' = gone
        /\ cleared' = cleared
    BY DEF Recover, Persist, Reopened, Locked, Advances, Exact, history
  <2> QED BY <1>1, <1>2, <1>3, <1>6, <2>1 DEF LeaseInv, LeaseTypeOK, GonePast, Valid, S, Cells,
               Session, None, Recover, Exact, Live, Locked
<1>12. ProtectedHeld'
  BY <1>1, <1>2, <1>3, <1>6 DEF LeaseInv, ProtectedHeld, EntryExact, Valid, S, Recover, Persist,
       Reopened, Locked, Advances, Exact, history, Exact, Cells, Session, None
<1>13. EntryExact'
  BY <1>1, <1>2, <1>3, <1>6, <1>5 DEF LeaseInv, EntryExact, KnownPast, Valid, S, Recover, Exact,
       Cells, Session, None
<1>14. UsesStored'
  BY <1>1, <1>2, <1>6 DEF LeaseInv, LeaseTypeOK, UsesStored, Receipts, Valid, Cells, Fence, Recover,
       Persist, Reopened, Locked, Advances, Exact, history
<1> QED BY <1>7, <1>8, <1>9, <1>10, <1>11, <1>12, <1>13, <1>14 DEF LeaseInv

(* RenewProtection keeps the invariant. *)
LEMMA RenewProtectionStep ==
    ASSUME LeaseInv, NEW p \in Processes, RenewProtection(p)
    PROVE  LeaseInv'
<1> DEFINE S == [token |-> cell.active.token, gen |-> cell.active.gen, rev |-> cell.rev + 1,
               rb |-> cell.active.rb, until |-> now + TTL]
<1>1. /\ cell \in Cells /\ sess \in [Processes -> Session] /\ entry \in [Processes -> BOOLEAN]
      /\ now \in Nat /\ readback \in Nat /\ TTL \in Nat
  BY LeaseAssumption DEF LeaseInv, LeaseTypeOK
<1>2. Valid(cell) /\ guard = NoGuard /\ guard' = guard /\ now' = now /\ readback' = readback
  BY DEF RenewProtection, Persist, Renewed, Locked, Advances, Exact, history
<1>3. S \in Session
  BY <1>1 DEF Cells, Session, Fence, NoFence, None, RenewProtection, Persist, Renewed, Locked,
       Advances, Exact, history
<1>4. cell' = [cell EXCEPT !.rev = cell.rev + 1, !.active = S]
  BY <1>1 DEF RenewProtection, Persist, Renewed, Locked, Advances, Exact, history, Cells
<1>5. \/ sess' = [sess EXCEPT ![p] = S] /\ entry' = [entry EXCEPT ![p] = FALSE]
      \/ sess' = sess /\ entry' = entry
  BY DEF RenewProtection, Persist, Renewed, Locked, Advances, Exact, history
<1> HIDE DEF S
<1>6. /\ cell' \in Cells
      /\ cell'.rev = cell.rev + 1
      /\ cell'.next = cell.next
      /\ cell'.active = S
      /\ cell'.prot = cell.prot
      /\ cell'.flat = cell.flat
      /\ cell'.pending = cell.pending
      /\ cell'.handoffs = cell.handoffs
  <2>1. cell.pending \in Fence \cup {NoFence}
    BY <1>1 DEF Cells, Fence
  <2>2. cell.handoffs \in SUBSET Handoffs
    BY <1>1, <1>2 DEF Cells, Fence
  <2>3. /\ cell'.rev = cell.rev + 1
        /\ cell'.next = cell.next
        /\ cell'.active = S
        /\ cell'.prot = cell.prot
        /\ cell'.flat = cell.flat
        /\ cell'.pending = cell.pending
        /\ cell'.handoffs = cell.handoffs
    BY <1>1, <1>4 DEF Cells
  <2>4. cell' = [rev |-> cell.rev + 1, next |-> cell.next, active |-> S, prot |-> cell.prot,
                 flat |-> cell.flat, pending |-> cell.pending, handoffs |-> cell.handoffs]
    BY <1>1, <1>4 DEF Cells
  <2>5. /\ cell.rev + 1 \in Nat
        /\ cell.next \in Nat
        /\ cell.prot \in BOOLEAN
        /\ cell.flat \in SUBSET FlatReceipts
        /\ S \in Session
    BY <1>1, <1>3 DEF Cells
  <2>6. cell' \in Cells
    BY <2>1, <2>2, <2>4, <2>5 DEF Cells
  <2> QED BY <2>3, <2>6
<1>7. LeaseTypeOK'
  <2>1. gone' \in SUBSET Nat /\ protected' \in SUBSET Nat /\ cleared' \in SUBSET Nat
    BY <1>1 DEF LeaseInv, LeaseTypeOK, Cells, Session, RenewProtection, Persist, Renewed, Locked,
         Advances, Exact, history
  <2>2. uses' \in [Receipts -> Nat]
    BY <1>1 DEF LeaseInv, LeaseTypeOK, Receipts, Cells, Fence, RenewProtection, Persist, Renewed,
         Locked, Advances, Exact, history
  <2> QED BY <1>1, <1>2, <1>3, <1>6, <1>5, <2>1, <2>2 DEF LeaseInv, LeaseTypeOK
<1>8. AlwaysValid'
  BY <1>1, <1>2, <1>3, <1>6 DEF AlwaysValid, Valid, S, RenewProtection, Persist, Renewed,
       Locked, Advances, Exact, history, Cells, Session, Fence, NoFence, None
<1>9. GuardIsCurrent'
  BY <1>2 DEF GuardIsCurrent
<1>10. KnownPast'
  BY <1>1, <1>3, <1>6, <1>5 DEF LeaseInv, KnownPast, S, Cells, Session, None
<1>11. GonePast'
  <2>1. /\ gone' = gone
        /\ cleared' = cleared
    BY DEF RenewProtection, Persist, Renewed, Locked, Advances, Exact, history
  <2> QED BY <1>1, <1>2, <1>3, <1>6, <2>1 DEF LeaseInv, LeaseTypeOK, GonePast, Valid, S, Cells,
               Session, None, RenewProtection, Exact, Live, Locked
<1>12. ProtectedHeld'
  BY <1>1, <1>2, <1>3, <1>6 DEF LeaseInv, ProtectedHeld, EntryExact, Valid, S, RenewProtection,
       Persist, Renewed, Locked, Advances, Exact, history, Exact, Cells, Session, None
<1>13. EntryExact'
  BY <1>1, <1>2, <1>3, <1>6, <1>5 DEF LeaseInv, EntryExact, KnownPast, Valid, S,
       RenewProtection, Exact, Cells, Session, None
<1>14. UsesStored'
  BY <1>1, <1>2, <1>6 DEF LeaseInv, LeaseTypeOK, UsesStored, Receipts, Valid, Cells, Fence,
       RenewProtection, Persist, Renewed, Locked, Advances, Exact, history
<1> QED BY <1>7, <1>8, <1>9, <1>10, <1>11, <1>12, <1>13, <1>14 DEF LeaseInv

(* ConsumeFlat keeps the invariant. *)
LEMMA ConsumeFlatStep ==
    ASSUME LeaseInv, NEW p \in Processes, NEW r \in FlatReceipts, NEW rb \in 1..readback,
           ConsumeFlat(p, r, rb)
    PROVE  LeaseInv'
<1> DEFINE S == [token |-> cell.rev + 1, gen |-> cell.next, rev |-> cell.rev + 1, rb |-> rb,
                 until |-> now + TTL]
<1>1. /\ cell \in Cells /\ sess \in [Processes -> Session] /\ entry \in [Processes -> BOOLEAN]
      /\ now \in Nat /\ readback \in Nat /\ TTL \in Nat
  BY LeaseAssumption DEF LeaseInv, LeaseTypeOK
<1>2. Valid(cell) /\ guard = NoGuard /\ guard' = guard /\ now' = now /\ readback' = readback
  BY DEF ConsumeFlat, Persist, NextSession, Locked, Advances, Exact, Ends, Accepts
<1>3. S \in Session
  BY <1>1 DEF Cells, Session, Fence, NoFence, None, ConsumeFlat, Persist, NextSession, Locked,
       Advances, Exact, Ends, Accepts
<1>4. cell' = [cell EXCEPT !.rev = cell.rev + 1, !.next = cell.next + 1, !.active = S, !.prot = FALSE, !.flat = cell.flat \cup {r}]
  BY <1>1 DEF ConsumeFlat, Persist, NextSession, Locked, Advances, Exact, Ends, Accepts, Cells
<1>5. \/ sess' = [sess EXCEPT ![p] = S] /\ entry' = [entry EXCEPT ![p] = TRUE]
      \/ sess' = sess /\ entry' = entry
  BY DEF ConsumeFlat, Persist, NextSession, Locked, Advances, Exact, Ends, Accepts
<1> HIDE DEF S
<1>6. /\ cell' \in Cells
      /\ cell'.rev = cell.rev + 1
      /\ cell'.next = cell.next + 1
      /\ cell'.active = S
      /\ cell'.prot = FALSE
      /\ cell'.flat = cell.flat \cup {r}
      /\ cell'.pending = cell.pending
      /\ cell'.handoffs = cell.handoffs
  <2>1. cell.pending \in Fence \cup {NoFence}
    BY <1>1 DEF Cells, Fence
  <2>2. cell.handoffs \in SUBSET Handoffs
    BY <1>1, <1>2 DEF Cells, Fence
  <2>3. /\ cell'.rev = cell.rev + 1
        /\ cell'.next = cell.next + 1
        /\ cell'.active = S
        /\ cell'.prot = FALSE
        /\ cell'.flat = cell.flat \cup {r}
        /\ cell'.pending = cell.pending
        /\ cell'.handoffs = cell.handoffs
    BY <1>1, <1>4 DEF Cells
  <2>4. cell' = [rev |-> cell.rev + 1, next |-> cell.next + 1, active |-> S, prot |-> FALSE,
                 flat |-> cell.flat \cup {r}, pending |-> cell.pending, handoffs |-> cell.handoffs]
    BY <1>1, <1>4 DEF Cells
  <2>5. /\ cell.rev + 1 \in Nat
        /\ cell.next + 1 \in Nat
        /\ FALSE \in BOOLEAN
        /\ cell.flat \cup {r} \in SUBSET FlatReceipts
        /\ S \in Session
    BY <1>1, <1>3 DEF Cells
  <2>6. cell' \in Cells
    BY <2>1, <2>2, <2>4, <2>5 DEF Cells
  <2> QED BY <2>3, <2>6
<1>7. LeaseTypeOK'
  <2>1. gone' \in SUBSET Nat /\ protected' \in SUBSET Nat /\ cleared' \in SUBSET Nat
    BY <1>1 DEF LeaseInv, LeaseTypeOK, Cells, Session, ConsumeFlat, Persist, NextSession, Locked,
         Advances, Exact, Ends, Accepts
  <2>2. uses' \in [Receipts -> Nat]
    BY <1>1 DEF LeaseInv, LeaseTypeOK, Receipts, Cells, Fence, ConsumeFlat, Persist, NextSession,
         Locked, Advances, Exact, Ends, Accepts
  <2> QED BY <1>1, <1>2, <1>3, <1>6, <1>5, <2>1, <2>2 DEF LeaseInv, LeaseTypeOK
<1>8. AlwaysValid'
  BY <1>1, <1>2, <1>3, <1>6 DEF AlwaysValid, Valid, S, ConsumeFlat, Persist, NextSession,
       Locked, Advances, Exact, Ends, Accepts, Cells, Session, Fence, NoFence, None
<1>9. GuardIsCurrent'
  BY <1>2 DEF GuardIsCurrent
<1>10. KnownPast'
  BY <1>1, <1>3, <1>6, <1>5 DEF LeaseInv, KnownPast, S, Cells, Session, None
<1>11. GonePast'
  <2>1. /\ gone' = gone \cup {cell.active.gen}
        /\ cleared' = cleared \cup {cell.active.gen}
    BY DEF ConsumeFlat, Persist, NextSession, Locked, Advances, Exact, Ends, Accepts
  <2> QED BY <1>1, <1>2, <1>3, <1>6, <2>1 DEF LeaseInv, LeaseTypeOK, GonePast, Valid, S, Cells,
               Session, None, ConsumeFlat, Exact, Live, Locked
<1>12. ProtectedHeld'
  BY <1>1, <1>2, <1>3, <1>6 DEF LeaseInv, ProtectedHeld, EntryExact, Valid, S, ConsumeFlat,
       Persist, NextSession, Locked, Advances, Exact, Ends, Accepts, Exact, Cells, Session, None
<1>13. EntryExact'
  BY <1>1, <1>2, <1>3, <1>6, <1>5 DEF LeaseInv, EntryExact, KnownPast, Valid, S, ConsumeFlat,
       Exact, Cells, Session, None
<1>14. UsesStored'
  BY <1>1, <1>2, <1>6 DEF LeaseInv, LeaseTypeOK, UsesStored, Receipts, Valid, Cells, Fence,
       ConsumeFlat, Persist, NextSession, Locked, Advances, Exact, Ends, Accepts
<1> QED BY <1>7, <1>8, <1>9, <1>10, <1>11, <1>12, <1>13, <1>14 DEF LeaseInv

(* RetireFlat keeps the invariant. *)
LEMMA RetireFlatStep ==
    ASSUME LeaseInv, NEW p \in Processes, NEW r \in FlatReceipts, NEW rb \in 1..readback,
           RetireFlat(p, r, rb)
    PROVE  LeaseInv'
<1> DEFINE S == None
<1>1. /\ cell \in Cells /\ sess \in [Processes -> Session] /\ entry \in [Processes -> BOOLEAN]
      /\ now \in Nat /\ readback \in Nat /\ TTL \in Nat
  BY LeaseAssumption DEF LeaseInv, LeaseTypeOK
<1>2. Valid(cell) /\ guard = NoGuard /\ guard' = guard /\ now' = now /\ readback' = readback
  BY DEF RetireFlat, Persist, Locked, Advances, Exact, Ends, Accepts
<1>3. S \in Session
  BY <1>1 DEF Cells, Session, Fence, NoFence, None, RetireFlat, Persist, Locked, Advances,
       Exact, Ends, Accepts
<1>4. cell' = [cell EXCEPT !.rev = cell.rev + 1, !.active = S, !.prot = FALSE, !.flat = cell.flat \cup {r}]
  BY <1>1 DEF RetireFlat, Persist, Locked, Advances, Exact, Ends, Accepts, Cells
<1>5. \/ sess' = [sess EXCEPT ![p] = sess[p]] /\ entry' = [entry EXCEPT ![p] = entry[p]]
      \/ sess' = sess /\ entry' = entry
  BY DEF RetireFlat, Persist, Locked, Advances, Exact, Ends, Accepts
<1> HIDE DEF S
<1>6. /\ cell' \in Cells
      /\ cell'.rev = cell.rev + 1
      /\ cell'.next = cell.next
      /\ cell'.active = S
      /\ cell'.prot = FALSE
      /\ cell'.flat = cell.flat \cup {r}
      /\ cell'.pending = cell.pending
      /\ cell'.handoffs = cell.handoffs
  <2>1. cell.pending \in Fence \cup {NoFence}
    BY <1>1 DEF Cells, Fence
  <2>2. cell.handoffs \in SUBSET Handoffs
    BY <1>1, <1>2 DEF Cells, Fence
  <2>3. /\ cell'.rev = cell.rev + 1
        /\ cell'.next = cell.next
        /\ cell'.active = S
        /\ cell'.prot = FALSE
        /\ cell'.flat = cell.flat \cup {r}
        /\ cell'.pending = cell.pending
        /\ cell'.handoffs = cell.handoffs
    BY <1>1, <1>4 DEF Cells
  <2>4. cell' = [rev |-> cell.rev + 1, next |-> cell.next, active |-> S, prot |-> FALSE,
                 flat |-> cell.flat \cup {r}, pending |-> cell.pending, handoffs |-> cell.handoffs]
    BY <1>1, <1>4 DEF Cells
  <2>5. /\ cell.rev + 1 \in Nat
        /\ cell.next \in Nat
        /\ FALSE \in BOOLEAN
        /\ cell.flat \cup {r} \in SUBSET FlatReceipts
        /\ S \in Session
    BY <1>1, <1>3 DEF Cells
  <2>6. cell' \in Cells
    BY <2>1, <2>2, <2>4, <2>5 DEF Cells
  <2> QED BY <2>3, <2>6
<1>7. LeaseTypeOK'
  <2>1. gone' \in SUBSET Nat /\ protected' \in SUBSET Nat /\ cleared' \in SUBSET Nat
    BY <1>1 DEF LeaseInv, LeaseTypeOK, Cells, Session, RetireFlat, Persist, Locked, Advances, Exact,
         Ends, Accepts
  <2>2. uses' \in [Receipts -> Nat]
    BY <1>1 DEF LeaseInv, LeaseTypeOK, Receipts, Cells, Fence, RetireFlat, Persist, Locked, Advances,
         Exact, Ends, Accepts
  <2> QED BY <1>1, <1>2, <1>3, <1>6, <1>5, <2>1, <2>2 DEF LeaseInv, LeaseTypeOK
<1>8. AlwaysValid'
  BY <1>1, <1>2, <1>3, <1>6 DEF AlwaysValid, Valid, S, RetireFlat, Persist, Locked, Advances,
       Exact, Ends, Accepts, Cells, Session, Fence, NoFence, None
<1>9. GuardIsCurrent'
  BY <1>2 DEF GuardIsCurrent
<1>10. KnownPast'
  BY <1>1, <1>3, <1>6, <1>5 DEF LeaseInv, KnownPast, S, Cells, Session, None
<1>11. GonePast'
  <2>1. /\ gone' = gone \cup {cell.active.gen}
        /\ cleared' = cleared \cup {cell.active.gen}
    BY DEF RetireFlat, Persist, Locked, Advances, Exact, Ends, Accepts
  <2> QED BY <1>1, <1>2, <1>3, <1>6, <2>1 DEF LeaseInv, LeaseTypeOK, GonePast, Valid, S, Cells,
               Session, None, RetireFlat, Exact, Live, Locked
<1>12. ProtectedHeld'
  BY <1>1, <1>2, <1>3, <1>6 DEF LeaseInv, ProtectedHeld, EntryExact, Valid, S, RetireFlat,
       Persist, Locked, Advances, Exact, Ends, Accepts, Exact, Cells, Session, None
<1>13. EntryExact'
  BY <1>1, <1>2, <1>3, <1>6, <1>5 DEF LeaseInv, EntryExact, KnownPast, Valid, S, RetireFlat,
       Exact, Cells, Session, None
<1>14. UsesStored'
  BY <1>1, <1>2, <1>6 DEF LeaseInv, LeaseTypeOK, UsesStored, Receipts, Valid, Cells, Fence,
       RetireFlat, Persist, Locked, Advances, Exact, Ends, Accepts
<1> QED BY <1>7, <1>8, <1>9, <1>10, <1>11, <1>12, <1>13, <1>14 DEF LeaseInv

(* RetainProtected keeps the invariant. *)
LEMMA RetainProtectedStep ==
    ASSUME LeaseInv, NEW p \in Processes, NEW rb \in 1..readback, RetainProtected(p, rb)
    PROVE  LeaseInv'
<1> DEFINE S == [token |-> cell.active.token, gen |-> cell.active.gen, rev |-> cell.rev + 1,
               rb |-> rb, until |-> cell.active.until]
<1>1. /\ cell \in Cells /\ sess \in [Processes -> Session] /\ entry \in [Processes -> BOOLEAN]
      /\ now \in Nat /\ readback \in Nat /\ TTL \in Nat
  BY LeaseAssumption DEF LeaseInv, LeaseTypeOK
<1>2. Valid(cell) /\ guard = NoGuard /\ guard' = guard /\ now' = now /\ readback' = readback
  BY DEF RetainProtected, Persist, Reread, Locked, Advances, Exact
<1>3. S \in Session
  BY <1>1 DEF Cells, Session, Fence, NoFence, None, RetainProtected, Persist, Reread, Locked,
       Advances, Exact
<1>4. cell' = [cell EXCEPT !.rev = cell.rev + 1, !.active = S, !.prot = TRUE]
  BY <1>1 DEF RetainProtected, Persist, Reread, Locked, Advances, Exact, Cells
<1>5. \/ sess' = [sess EXCEPT ![p] = sess[p]] /\ entry' = [entry EXCEPT ![p] = entry[p]]
      \/ sess' = sess /\ entry' = entry
  BY DEF RetainProtected, Persist, Reread, Locked, Advances, Exact
<1> HIDE DEF S
<1>6. /\ cell' \in Cells
      /\ cell'.rev = cell.rev + 1
      /\ cell'.next = cell.next
      /\ cell'.active = S
      /\ cell'.prot = TRUE
      /\ cell'.flat = cell.flat
      /\ cell'.pending = cell.pending
      /\ cell'.handoffs = cell.handoffs
  <2>1. cell.pending \in Fence \cup {NoFence}
    BY <1>1 DEF Cells, Fence
  <2>2. cell.handoffs \in SUBSET Handoffs
    BY <1>1, <1>2 DEF Cells, Fence
  <2>3. /\ cell'.rev = cell.rev + 1
        /\ cell'.next = cell.next
        /\ cell'.active = S
        /\ cell'.prot = TRUE
        /\ cell'.flat = cell.flat
        /\ cell'.pending = cell.pending
        /\ cell'.handoffs = cell.handoffs
    BY <1>1, <1>4 DEF Cells
  <2>4. cell' = [rev |-> cell.rev + 1, next |-> cell.next, active |-> S, prot |-> TRUE,
                 flat |-> cell.flat, pending |-> cell.pending, handoffs |-> cell.handoffs]
    BY <1>1, <1>4 DEF Cells
  <2>5. /\ cell.rev + 1 \in Nat
        /\ cell.next \in Nat
        /\ TRUE \in BOOLEAN
        /\ cell.flat \in SUBSET FlatReceipts
        /\ S \in Session
    BY <1>1, <1>3 DEF Cells
  <2>6. cell' \in Cells
    BY <2>1, <2>2, <2>4, <2>5 DEF Cells
  <2> QED BY <2>3, <2>6
<1>7. LeaseTypeOK'
  <2>1. gone' \in SUBSET Nat /\ protected' \in SUBSET Nat /\ cleared' \in SUBSET Nat
    BY <1>1 DEF LeaseInv, LeaseTypeOK, Cells, Session, RetainProtected, Persist, Reread, Locked,
         Advances, Exact
  <2>2. uses' \in [Receipts -> Nat]
    BY <1>1 DEF LeaseInv, LeaseTypeOK, Receipts, Cells, Fence, RetainProtected, Persist, Reread,
         Locked, Advances, Exact
  <2> QED BY <1>1, <1>2, <1>3, <1>6, <1>5, <2>1, <2>2 DEF LeaseInv, LeaseTypeOK
<1>8. AlwaysValid'
  BY <1>1, <1>2, <1>3, <1>6 DEF AlwaysValid, Valid, S, RetainProtected, Persist, Reread, Locked,
       Advances, Exact, Cells, Session, Fence, NoFence, None
<1>9. GuardIsCurrent'
  BY <1>2 DEF GuardIsCurrent
<1>10. KnownPast'
  BY <1>1, <1>3, <1>6, <1>5 DEF LeaseInv, KnownPast, S, Cells, Session, None
<1>11. GonePast'
  <2>1. /\ gone' = gone
        /\ cleared' = cleared
    BY DEF RetainProtected, Persist, Reread, Locked, Advances, Exact
  <2> QED BY <1>1, <1>2, <1>3, <1>6, <2>1 DEF LeaseInv, LeaseTypeOK, GonePast, Valid, S, Cells,
               Session, None, RetainProtected, Exact, Live, Locked
<1>12. ProtectedHeld'
  BY <1>1, <1>2, <1>3, <1>6 DEF LeaseInv, ProtectedHeld, EntryExact, Valid, S, RetainProtected,
       Persist, Reread, Locked, Advances, Exact, Exact, Cells, Session, None
<1>13. EntryExact'
  BY <1>1, <1>2, <1>3, <1>6, <1>5 DEF LeaseInv, EntryExact, KnownPast, Valid, S,
       RetainProtected, Exact, Cells, Session, None
<1>14. UsesStored'
  BY <1>1, <1>2, <1>6 DEF LeaseInv, LeaseTypeOK, UsesStored, Receipts, Valid, Cells, Fence,
       RetainProtected, Persist, Reread, Locked, Advances, Exact
<1> QED BY <1>7, <1>8, <1>9, <1>10, <1>11, <1>12, <1>13, <1>14 DEF LeaseInv

(* FenceForHandoff keeps the invariant. *)
LEMMA FenceForHandoffStep ==
    ASSUME LeaseInv, NEW p \in Processes, NEW r \in Handoffs, NEW rb \in 1..readback,
           FenceForHandoff(p, r, rb)
    PROVE  LeaseInv'
<1> DEFINE S == None
<1>1. /\ cell \in Cells /\ sess \in [Processes -> Session] /\ entry \in [Processes -> BOOLEAN]
      /\ now \in Nat /\ readback \in Nat /\ TTL \in Nat
  BY LeaseAssumption DEF LeaseInv, LeaseTypeOK
<1>2. Valid(cell) /\ guard = NoGuard /\ guard' = guard /\ now' = now /\ readback' = readback
  BY DEF FenceForHandoff, Persist, Locked, Advances, Exact, Ends
<1>3. S \in Session
  BY <1>1 DEF Cells, Session, Fence, NoFence, None, FenceForHandoff, Persist, Locked, Advances,
       Exact, Ends
<1>4. cell' = [cell EXCEPT !.rev = cell.rev + 1, !.active = S, !.prot = FALSE, !.pending = [open |-> TRUE, id |-> r, predecessor |-> cell.active, rb |-> rb, successor |-> p]]
  BY <1>1 DEF FenceForHandoff, Persist, Locked, Advances, Exact, Ends, Cells
<1>5. \/ sess' = [sess EXCEPT ![p] = sess[p]] /\ entry' = [entry EXCEPT ![p] = entry[p]]
      \/ sess' = sess /\ entry' = entry
  BY DEF FenceForHandoff, Persist, Locked, Advances, Exact, Ends
<1> HIDE DEF S
<1>6. /\ cell' \in Cells
      /\ cell'.rev = cell.rev + 1
      /\ cell'.next = cell.next
      /\ cell'.active = S
      /\ cell'.prot = FALSE
      /\ cell'.flat = cell.flat
      /\ cell'.pending = [open |-> TRUE, id |-> r, predecessor |-> cell.active, rb |-> rb, successor |-> p]
      /\ cell'.handoffs = cell.handoffs
  <2>1. [open |-> TRUE, id |-> r, predecessor |-> cell.active, rb |-> rb, successor |-> p] \in Fence \cup {NoFence}
    BY <1>1 DEF Cells, Fence, Session
  <2>2. cell.handoffs \in SUBSET Handoffs
    BY <1>1, <1>2 DEF Cells, Fence
  <2>3. /\ cell'.rev = cell.rev + 1
        /\ cell'.next = cell.next
        /\ cell'.active = S
        /\ cell'.prot = FALSE
        /\ cell'.flat = cell.flat
        /\ cell'.pending = [open |-> TRUE, id |-> r, predecessor |-> cell.active, rb |-> rb, successor |-> p]
        /\ cell'.handoffs = cell.handoffs
    BY <1>1, <1>4 DEF Cells
  <2>4. cell' = [rev |-> cell.rev + 1, next |-> cell.next, active |-> S, prot |-> FALSE,
                 flat |-> cell.flat, pending |-> [open |-> TRUE, id |-> r, predecessor |-> cell.active, rb |-> rb, successor |-> p], handoffs |-> cell.handoffs]
    BY <1>1, <1>4 DEF Cells
  <2>5. /\ cell.rev + 1 \in Nat
        /\ cell.next \in Nat
        /\ FALSE \in BOOLEAN
        /\ cell.flat \in SUBSET FlatReceipts
        /\ S \in Session
    BY <1>1, <1>3 DEF Cells
  <2>6. cell' \in Cells
    BY <2>1, <2>2, <2>4, <2>5 DEF Cells
  <2> QED BY <2>3, <2>6
<1>7. LeaseTypeOK'
  <2>1. gone' \in SUBSET Nat /\ protected' \in SUBSET Nat /\ cleared' \in SUBSET Nat
    BY <1>1 DEF LeaseInv, LeaseTypeOK, Cells, Session, FenceForHandoff, Persist, Locked, Advances,
         Exact, Ends
  <2>2. uses' \in [Receipts -> Nat]
    BY <1>1 DEF LeaseInv, LeaseTypeOK, Receipts, Cells, Fence, FenceForHandoff, Persist, Locked,
         Advances, Exact, Ends
  <2> QED BY <1>1, <1>2, <1>3, <1>6, <1>5, <2>1, <2>2 DEF LeaseInv, LeaseTypeOK
<1>8. AlwaysValid'
  BY <1>1, <1>2, <1>3, <1>6 DEF AlwaysValid, Valid, S, FenceForHandoff, Persist, Locked,
       Advances, Exact, Ends, Cells, Session, Fence, NoFence, None
<1>9. GuardIsCurrent'
  BY <1>2 DEF GuardIsCurrent
<1>10. KnownPast'
  BY <1>1, <1>3, <1>6, <1>5 DEF LeaseInv, KnownPast, S, Cells, Session, None
<1>11. GonePast'
  <2>1. /\ gone' = gone \cup {cell.active.gen}
        /\ cleared' = cleared
    BY DEF FenceForHandoff, Persist, Locked, Advances, Exact, Ends
  <2> QED BY <1>1, <1>2, <1>3, <1>6, <2>1 DEF LeaseInv, LeaseTypeOK, GonePast, Valid, S, Cells,
               Session, None, FenceForHandoff, Exact, Live, Locked
<1>12. ProtectedHeld'
  BY <1>1, <1>2, <1>3, <1>6 DEF LeaseInv, ProtectedHeld, EntryExact, Valid, S, FenceForHandoff,
       Persist, Locked, Advances, Exact, Ends, Exact, Cells, Session, None
<1>13. EntryExact'
  BY <1>1, <1>2, <1>3, <1>6, <1>5 DEF LeaseInv, EntryExact, KnownPast, Valid, S,
       FenceForHandoff, Exact, Cells, Session, None
<1>14. UsesStored'
  BY <1>1, <1>2, <1>6 DEF LeaseInv, LeaseTypeOK, UsesStored, Receipts, Valid, Cells, Fence,
       FenceForHandoff, Persist, Locked, Advances, Exact, Ends
<1> QED BY <1>7, <1>8, <1>9, <1>10, <1>11, <1>12, <1>13, <1>14 DEF LeaseInv

(* ActivateSuccessor keeps the invariant. *)
LEMMA ActivateSuccessorStep ==
    ASSUME LeaseInv, NEW p \in Processes, ActivateSuccessor(p)
    PROVE  LeaseInv'
<1> DEFINE S == [token |-> cell.rev + 1, gen |-> cell.next, rev |-> cell.rev + 1, rb |->
                 cell.pending.rb, until |-> now + TTL]
<1>1. /\ cell \in Cells /\ sess \in [Processes -> Session] /\ entry \in [Processes -> BOOLEAN]
      /\ now \in Nat /\ readback \in Nat /\ TTL \in Nat
  BY LeaseAssumption DEF LeaseInv, LeaseTypeOK
<1>2. Valid(cell) /\ guard = NoGuard /\ guard' = guard /\ now' = now /\ readback' = readback
  BY DEF ActivateSuccessor, Persist, NextSession, Locked, Advances, Accepts
<1>p. /\ cell.pending \in Fence
      /\ cell.pending.rb \in Nat
      /\ cell.pending.id \in Handoffs
      /\ 0 < cell.pending.rb
  <2>1. cell.pending \in Fence
    BY <1>1 DEF Cells, ActivateSuccessor
  <2>2. cell.pending.rb \in Nat /\ cell.pending.id \in Handoffs /\ cell.pending.predecessor \in Session
    BY <2>1 DEF Fence
  <2>3. cell.pending.predecessor.rb \in Nat
    BY <2>2 DEF Session
  <2>4. 0 < cell.pending.predecessor.rb /\ cell.pending.predecessor.rb <= cell.pending.rb
    BY <1>2 DEF Valid, ActivateSuccessor
  <2> QED BY <2>1, <2>2, <2>3, <2>4
<1>3. S \in Session
  BY <1>1, <1>p DEF Cells, Session, Fence, NoFence, None, ActivateSuccessor, Persist,
       NextSession, Locked, Advances, Accepts
<1>4. cell' = [cell EXCEPT !.rev = cell.rev + 1, !.next = cell.next + 1, !.active = S, !.pending = NoFence, !.handoffs = cell.handoffs \cup {cell.pending.id}]
  BY <1>1 DEF ActivateSuccessor, Persist, NextSession, Locked, Advances, Accepts, Cells
<1>5. \/ sess' = [sess EXCEPT ![p] = S] /\ entry' = [entry EXCEPT ![p] = TRUE]
      \/ sess' = sess /\ entry' = entry
  BY DEF ActivateSuccessor, Persist, NextSession, Locked, Advances, Accepts
<1> HIDE DEF S
<1>6. /\ cell' \in Cells
      /\ cell'.rev = cell.rev + 1
      /\ cell'.next = cell.next + 1
      /\ cell'.active = S
      /\ cell'.prot = cell.prot
      /\ cell'.flat = cell.flat
      /\ cell'.pending = NoFence
      /\ cell'.handoffs = cell.handoffs \cup {cell.pending.id}
  <2>1. NoFence \in Fence \cup {NoFence}
    BY <1>1 DEF Cells, Fence
  <2>2. cell.handoffs \cup {cell.pending.id} \in SUBSET Handoffs
    BY <1>1, <1>2 DEF Cells, Fence, ActivateSuccessor, NoFence
  <2>3. /\ cell'.rev = cell.rev + 1
        /\ cell'.next = cell.next + 1
        /\ cell'.active = S
        /\ cell'.prot = cell.prot
        /\ cell'.flat = cell.flat
        /\ cell'.pending = NoFence
        /\ cell'.handoffs = cell.handoffs \cup {cell.pending.id}
    BY <1>1, <1>4 DEF Cells
  <2>4. cell' = [rev |-> cell.rev + 1, next |-> cell.next + 1, active |-> S, prot |-> cell.prot,
                 flat |-> cell.flat, pending |-> NoFence, handoffs |-> cell.handoffs \cup {cell.pending.id}]
    BY <1>1, <1>4 DEF Cells
  <2>5. /\ cell.rev + 1 \in Nat
        /\ cell.next + 1 \in Nat
        /\ cell.prot \in BOOLEAN
        /\ cell.flat \in SUBSET FlatReceipts
        /\ S \in Session
    BY <1>1, <1>3 DEF Cells
  <2>6. cell' \in Cells
    BY <2>1, <2>2, <2>4, <2>5 DEF Cells
  <2> QED BY <2>3, <2>6
<1>7. LeaseTypeOK'
  <2>1. gone' \in SUBSET Nat /\ protected' \in SUBSET Nat /\ cleared' \in SUBSET Nat
    BY <1>1 DEF LeaseInv, LeaseTypeOK, Cells, Session, ActivateSuccessor, Persist, NextSession,
         Locked, Advances, Accepts
  <2>2. uses' \in [Receipts -> Nat]
    BY <1>1, <1>p DEF LeaseInv, LeaseTypeOK, Receipts, Cells, Fence, ActivateSuccessor, Persist,
         NextSession, Locked, Advances, Accepts
  <2> QED BY <1>1, <1>2, <1>3, <1>6, <1>5, <2>1, <2>2 DEF LeaseInv, LeaseTypeOK
<1>8. AlwaysValid'
  BY <1>1, <1>2, <1>3, <1>6, <1>p DEF AlwaysValid, Valid, S, ActivateSuccessor, Persist,
       NextSession, Locked, Advances, Accepts, Cells, Session, Fence, NoFence, None
<1>9. GuardIsCurrent'
  BY <1>2 DEF GuardIsCurrent
<1>10. KnownPast'
  BY <1>1, <1>3, <1>6, <1>5 DEF LeaseInv, KnownPast, S, Cells, Session, None
<1>11. GonePast'
  <2>1. /\ gone' = gone
        /\ cleared' = cleared
    BY DEF ActivateSuccessor, Persist, NextSession, Locked, Advances, Accepts
  <2> QED BY <1>1, <1>2, <1>3, <1>6, <2>1 DEF LeaseInv, LeaseTypeOK, GonePast, Valid, S, Cells,
               Session, None, ActivateSuccessor, Exact, Live, Locked
<1>12. ProtectedHeld'
  BY <1>1, <1>2, <1>3, <1>6 DEF LeaseInv, ProtectedHeld, EntryExact, Valid, S,
       ActivateSuccessor, Persist, NextSession, Locked, Advances, Accepts, Exact, Cells,
       Session, None
<1>13. EntryExact'
  BY <1>1, <1>2, <1>3, <1>6, <1>5 DEF LeaseInv, EntryExact, KnownPast, Valid, S,
       ActivateSuccessor, Exact, Cells, Session, None
<1>14. UsesStored'
  BY <1>1, <1>2, <1>6 DEF LeaseInv, LeaseTypeOK, UsesStored, Receipts, Valid, Cells, Fence,
       ActivateSuccessor, Persist, NextSession, Locked, Advances, Accepts
<1> QED BY <1>7, <1>8, <1>9, <1>10, <1>11, <1>12, <1>13, <1>14 DEF LeaseInv

(* Loading a session, or losing it in a crash. *)
LEMMA SessionStep ==
    ASSUME LeaseInv, NEW p \in Processes,
           LoadSession(p) \/ LoadEntrySession(p) \/ Crash(p)
    PROVE  LeaseInv'
<1>1. /\ cell \in Cells /\ sess \in [Processes -> Session] /\ entry \in [Processes -> BOOLEAN]
      /\ cell' = cell /\ now' = now /\ readback' = readback /\ Valid(cell)
      /\ gone' = gone /\ protected' = protected /\ cleared' = cleared /\ uses' = uses
  BY DEF LeaseInv, LeaseTypeOK, AlwaysValid, LoadSession, LoadEntrySession, Crash, history
<1>2. None \in Session /\ None.rev = 0
  BY DEF None, Session
<1>3. cell.active \in Session /\ (cell.active # None => cell.active.rev = cell.rev)
  BY <1>1 DEF Cells, Valid
<1>4. \/ /\ sess' = [sess EXCEPT ![p] = cell.active]
         /\ entry' = [entry EXCEPT ![p] = FALSE] \/ (entry' = [entry EXCEPT ![p] = TRUE] /\ ~ cell.prot)
         /\ guard' = guard
      \/ /\ sess' = [sess EXCEPT ![p] = None]
         /\ entry' = [entry EXCEPT ![p] = FALSE]
         /\ guard' = IF guard # NoGuard /\ guard.by = p THEN NoGuard ELSE guard
  BY DEF LoadSession, LoadEntrySession, Crash
<1>5. LeaseTypeOK'
  BY <1>1, <1>2, <1>3, <1>4 DEF LeaseInv, LeaseTypeOK
<1>6. GuardIsCurrent'
  BY <1>1, <1>2, <1>4 DEF LeaseInv, LeaseTypeOK, GuardIsCurrent
<1>7. KnownPast'
  BY <1>1, <1>2, <1>3, <1>4 DEF LeaseInv, KnownPast, Cells, Session
<1>8. EntryExact'
  BY <1>1, <1>2, <1>4 DEF LeaseInv, EntryExact, Exact
<1> QED BY <1>1, <1>5, <1>6, <1>7, <1>8 DEF LeaseInv, AlwaysValid, GonePast, ProtectedHeld,
             UsesStored

(* Taking and dropping a guard. *)
LEMMA GuardStep ==
    ASSUME LeaseInv, NEW p \in Processes,
           \/ DispatchGuard(p) \/ PersistentDispatchGuard(p)
           \/ ProtectionDispatchGuard(p) \/ Release(p)
    PROVE  LeaseInv'
<1>1. UNCHANGED << cell, sess, entry, now, readback, gone, protected, cleared, uses >>
  BY DEF DispatchGuard, PersistentDispatchGuard, ProtectionDispatchGuard, Release, Holds,
       history
<1>2. \/ guard' = [kind |-> "entry", by |-> p] /\ ~ cell.prot /\ Exact(p)
      \/ guard' = [kind |-> "protection", by |-> p] /\ cell.prot /\ Exact(p)
      \/ guard' = NoGuard
  BY DEF DispatchGuard, PersistentDispatchGuard, ProtectionDispatchGuard, Release, Holds, Live
<1>3. LeaseTypeOK'
  BY <1>1, <1>2 DEF LeaseInv, LeaseTypeOK
<1>4. GuardIsCurrent'
  BY <1>1, <1>2 DEF GuardIsCurrent, Exact
<1> QED BY <1>1, <1>3, <1>4 DEF LeaseInv, AlwaysValid, KnownPast, GonePast, ProtectedHeld,
             EntryExact,
                              Exact, UsesStored

(* Time and readbacks. *)
LEMMA WorldStep ==
    ASSUME LeaseInv, Tick \/ Readback \/ UNCHANGED leaseVars
    PROVE  LeaseInv'
<1>1. UNCHANGED << cell, sess, entry, guard, gone, protected, cleared, uses >>
  BY DEF Tick, Readback, leaseVars, history
<1>2. now' \in Nat /\ readback' \in Nat
  BY DEF LeaseInv, LeaseTypeOK, Tick, Readback, leaseVars
<1>3. LeaseTypeOK'
  BY <1>1, <1>2 DEF LeaseInv, LeaseTypeOK
<1> QED BY <1>1, <1>3 DEF LeaseInv, AlwaysValid, GuardIsCurrent, KnownPast, GonePast,
             ProtectedHeld,
                         EntryExact, Exact, UsesStored

(* An authority that was never written. *)
LEMMA LeaseStarts == LeaseInit => LeaseInv
<1> SUFFICES ASSUME LeaseInit PROVE LeaseInv
  OBVIOUS
<1>1. LeaseTypeOK
  <2>1. None \in Session /\ NoFence \in Fence \cup {NoFence}
    BY DEF None, Session
  <2>2. cell \in Cells
    BY <2>1 DEF LeaseInit, Cells
  <2> QED BY <2>1, <2>2 DEF LeaseInit, LeaseTypeOK
<1>2. AlwaysValid
  BY DEF LeaseInit, AlwaysValid, Valid
<1>3. KnownPast
  <2>1. None.rev = 0
    BY DEF None
  <2>2. cell.rev = 0 /\ \A p \in Processes : sess[p] = None
    BY DEF LeaseInit
  <2>3. \A p \in Processes : sess[p].rev = 0 /\ cell.rev = 0
    BY <2>1, <2>2
  <2>4. \A p \in Processes : sess[p].rev <= cell.rev
    <3> TAKE p \in Processes
    <3>1. sess[p].rev = 0 /\ cell.rev = 0
      BY <2>3
    <3> QED BY <3>1, SMT
  <2> QED BY <2>4 DEF KnownPast
<1>4. EntryExact /\ ProtectedHeld /\ GonePast /\ GuardIsCurrent
  BY DEF LeaseInit, EntryExact, ProtectedHeld, GonePast, GuardIsCurrent
<1>5. UsesStored
  BY DEF LeaseInit, UsesStored, Receipts
<1> QED BY <1>1, <1>2, <1>3, <1>4, <1>5 DEF LeaseInv

(* LeaseInv is an inductive invariant of the writer authority.             *)
THEOREM LeaseInvariant == LeaseSpec => []LeaseInv
<1>1. LeaseInv /\ [LeaseNext]_leaseVars => LeaseInv'
  BY RegisterInitialStep, RenewStep, RecoverStep, RenewProtectionStep, ConsumeFlatStep,
       RetireFlatStep,
     RetainProtectedStep, FenceForHandoffStep, ActivateSuccessorStep, SessionStep, GuardStep, WorldStep
  DEF LeaseNext
<1> QED BY <1>1, LeaseStarts, PTL DEF LeaseSpec

(* The types of the stored state, of the sessions and of the guard.        *)
THEOREM LeaseTypeCorrect == LeaseSpec => []LeaseTypeOK
<1>1. LeaseInv => LeaseTypeOK
  BY DEF LeaseInv
<1> QED BY <1>1, LeaseInvariant, PTL

(* No sequence of operations stores a state that validate_state refuses.   *)
THEOREM LeaseAlwaysValid == LeaseSpec => []AlwaysValid
<1>1. LeaseInv => AlwaysValid
  BY DEF LeaseInv
<1> QED BY <1>1, LeaseInvariant, PTL

(* While a guard is held, the stored writer is its holder's session.       *)
THEOREM LeaseGuardIsCurrent == LeaseSpec => []GuardIsCurrent
<1>1. LeaseInv => GuardIsCurrent
  BY DEF LeaseInv
<1> QED BY <1>1, LeaseInvariant, PTL

(* No guard is ever granted to a generation that was retired, replaced or  *)
(* fenced.                                                                 *)
THEOREM LeaseFencedStaysFenced == LeaseSpec => []FencedStaysFenced
<1>1. LeaseInv => FencedStaysFenced
  BY DEF LeaseInv, GuardIsCurrent, GonePast, FencedStaysFenced
<1> QED BY <1>1, LeaseInvariant, PTL

(* A protection-only writer never sends entries again, and a successor     *)
(* only after a flat receipt.                                              *)
THEOREM LeaseProtectedUntilFlat == LeaseSpec => []ProtectedUntilFlat
<1>1. LeaseInv => ProtectedUntilFlat
  BY DEF LeaseInv, GuardIsCurrent, GonePast, ProtectedHeld, ProtectedUntilFlat
<1> QED BY <1>1, LeaseInvariant, PTL

(* A flat or handoff receipt is accepted at most once.                     *)
THEOREM LeaseReceiptsUsedOnce == LeaseSpec => []ReceiptsUsedOnce
<1>1. LeaseInv => ReceiptsUsedOnce
  BY DEF LeaseInv, UsesStored, ReceiptsUsedOnce, Receipts
<1> QED BY <1>1, LeaseInvariant, PTL

-----------------------------------------------------------------------------
(* The files.                                                              *)

(* The newest candidate is .next if that decodes, else the authority.      *)
LEMMA NewestIs ==
    ASSUME FileTypeOK, Ordered
    PROVE  /\ next.kind = "state" => next \in Newest
           /\ next.kind # "state" /\ main.kind = "state" => main \in Newest
           /\ \A f, g \in Decoded : f.rev = g.rev => f = g
           /\ \A f, g \in Newest : f = g
<1>1. /\ main.rev \in Nat /\ backup.rev \in Nat /\ next.rev \in Nat
  BY DEF FileTypeOK, Files
<1>2. Absent.kind = "absent" /\ Absent.rev = 0
  BY DEF Absent
<1>3. \A f \in Decoded : f.kind = "state" /\ (f = main \/ f = backup \/ f = next)
  BY DEF Decoded
<1>4. \A f, g \in Decoded : f.rev = g.rev => f = g
  BY <1>1, <1>2, <1>3 DEF Ordered
<1>5. ASSUME next.kind = "state" PROVE next \in Newest
  BY <1>1, <1>2, <1>3, <1>5 DEF Ordered, Newest, Decoded
<1>6. ASSUME next.kind # "state", main.kind = "state" PROVE main \in Newest
  BY <1>1, <1>2, <1>3, <1>6 DEF Ordered, Newest, Decoded
<1>7. \A f, g \in Newest : f = g
  <2> SUFFICES ASSUME NEW f \in Newest, NEW g \in Newest PROVE f = g
    OBVIOUS
  <2>1. f \in Decoded /\ g \in Decoded /\ f.rev <= g.rev /\ g.rev <= f.rev
    BY DEF Newest
  <2>2. f.rev \in Nat /\ g.rev \in Nat
    BY <1>1, <1>3, <2>1
  <2> QED BY <1>4, <2>1, <2>2
<1> QED BY <1>4, <1>5, <1>6, <1>7

(* What is recovered is not older than the authority file.                 *)
LEMMA RecoveredNotOlder ==
    ASSUME FileTypeOK, Ordered, ~ Corrupt
    PROVE  Recovered.rev \in Nat /\ Recovered.rev >= main.rev
<1>1. main.rev \in Nat /\ backup.rev \in Nat /\ next.rev \in Nat
  BY DEF FileTypeOK, Files
<1>2. Absent.rev = 0
  BY DEF Absent
<1>3. CASE Newest = {}
  <2>1. NeverWritten
    BY <1>3 DEF Corrupt
  <2>2. main.rev = 0 /\ Recovered.rev = 0
    BY <1>2, <1>3, <2>1 DEF NeverWritten, Recovered
  <2> QED BY <2>2
<1>4. CASE Newest # {}
  <2>1. PICK f \in Newest : TRUE
    BY <1>4
  <2>2. Recovered \in Newest
    BY <1>4 DEF Recovered
  <2>3. Recovered \in Decoded /\ \A g \in Decoded : g.rev <= Recovered.rev
    BY <2>2 DEF Newest
  <2>4. Recovered.rev \in Nat
    BY <1>1, <2>3 DEF Decoded
  <2>5. CASE main.kind = "state"
    BY <2>3, <2>4, <2>5 DEF Decoded
  <2>6. CASE main = Absent
    BY <1>2, <2>4, <2>6
  <2> QED BY <2>4, <2>5, <2>6 DEF Ordered
<1> QED BY <1>3, <1>4

(* FileInv is kept by every step that does not replace a rename.           *)
LEMMA FileStep ==
    ASSUME FileInv, [FileNext]_fileVars, copied' = FALSE
    PROVE  FileInv'
<1>1. /\ main \in Files /\ backup \in Files /\ next \in Files /\ new \in Files
      /\ main.rev \in Nat /\ backup.rev \in Nat /\ next.rev \in Nat /\ new.rev \in Nat
      /\ acked \in Nat /\ seen \in Nat /\ ops \in Nat /\ failures \in Nat
  BY DEF FileInv, FileTypeOK, Files
<1>2. /\ Absent \in Files /\ Torn \in Files
      /\ Absent.kind = "absent" /\ Absent.rev = 0 /\ Torn.kind = "torn"
  BY DEF Absent, Torn, Files
<1>a. copied \in BOOLEAN /\ copied' \in BOOLEAN
  BY DEF FileInv
<1>3. CASE Begin
  <2>1. Recovered.rev \in Nat /\ Recovered.rev >= main.rev
    BY <1>3, RecoveredNotOlder DEF FileInv, Begin
  <2>2. /\ new' \in Files /\ new'.kind = "state" /\ new'.rev = Recovered.rev + 1
    BY <1>1, <1>3, <2>1 DEF Begin, State, Files
  <2>3. /\ next' = Torn /\ pc' = "next_torn" /\ main' = main /\ backup' = backup
        /\ acked' = acked /\ failures' = failures /\ ops' = ops + 1
        /\ seen' \in Nat
    BY <1>1, <1>3, <2>1 DEF Begin
  <2>4. FileTypeOK'
    BY <1>1, <1>2, <1>a, <2>2, <2>3 DEF FileTypeOK, Steps
  <2>5. Ordered'
    BY <1>2, <2>3 DEF FileInv, Ordered
  <2>6. Underway'
    BY <1>1, <2>1, <2>2, <2>3 DEF Underway
  <2> QED BY <2>4, <2>5, <2>6 DEF FileInv
<1>4. CASE Use
  <2>1. Recovered.rev \in Nat
    BY <1>4, RecoveredNotOlder DEF FileInv, Use
  <2> QED BY <1>4, <2>1 DEF Use, files, FileInv, FileTypeOK, Ordered, Underway
<1>5. CASE WriteNext
  BY <1>1, <1>2, <1>5 DEF WriteNext, Goes, FileInv, FileTypeOK, Steps, Ordered, Underway
<1>6. CASE CopyBackup
  <2>1. FileTypeOK'
    BY <1>1, <1>2, <1>6 DEF CopyBackup, Goes, FileInv, FileTypeOK, Steps
  <2>2. Ordered'
    BY <1>1, <1>2, <1>6 DEF CopyBackup, Goes, FileInv, Ordered, Underway
  <2>3. Underway'
    BY <1>1, <1>2, <1>6 DEF CopyBackup, Goes, FileInv, Ordered, Underway
  <2> QED BY <2>1, <2>2, <2>3 DEF FileInv
<1>7. CASE Rename
  <2>1. main' = new /\ new.kind = "state" /\ new.rev > main.rev /\ next' = Absent /\ backup' = backup
    BY <1>7 DEF Rename, Renames, FileInv, Underway
  <2>2. /\ pc' = "main_done"
        /\ UNCHANGED << new, acked, seen, ops, failures >>
    BY <1>7 DEF Rename, Goes
  <2>3. FileTypeOK'
    BY <1>1, <1>2, <2>1, <2>2 DEF FileInv, FileTypeOK, Steps
  <2>4. Ordered'
    BY <1>1, <1>2, <2>1, <2>2 DEF FileInv, Ordered
  <2>5. Underway'
    BY <2>1, <2>2 DEF Underway
  <2> QED BY <2>3, <2>4, <2>5 DEF FileInv
<1>8. CASE CopyMain
  BY <1>8 DEF CopyMain
<1>9. CASE TearBackup
  BY <1>1, <1>2, <1>9 DEF TearBackup, Goes, FileInv, FileTypeOK, Steps, Ordered, Underway
<1>10. CASE WriteBackup
  BY <1>1, <1>2, <1>10 DEF WriteBackup, FileInv, FileTypeOK, Steps, Ordered, Underway
<1>11. CASE Fail
  BY <1>1, <1>11 DEF Fail, files, FileInv, FileTypeOK, Steps, Ordered, Underway
<1>12. CASE UNCHANGED fileVars
  BY <1>12 DEF fileVars, files, FileInv, FileTypeOK, Ordered, Underway
<1> QED BY <1>3, <1>4, <1>5, <1>6, <1>7, <1>8, <1>9, <1>10, <1>11, <1>12 DEF FileNext

(* FileInv holds until a rename has failed.                                *)
THEOREM FileInvariant == FileSpec => [](copied = FALSE => FileInv)
<1>1. FileInit => (copied = FALSE => FileInv)
  <2>1. Absent \in Files /\ Absent.kind = "absent" /\ Absent.rev = 0
    BY DEF Absent, Files
  <2>2. ASSUME FileInit PROVE FileTypeOK
    <3>1. copied \in BOOLEAN
      BY <2>2 DEF FileInit
    <3>2. pc \in Steps
      BY <2>2 DEF FileInit, Steps
    <3> QED BY <2>1, <2>2, <3>1, <3>2 DEF FileInit, FileTypeOK
  <2>3. FileInit => copied = FALSE /\ Ordered /\ Underway
    BY <2>1 DEF FileInit, Ordered, Underway
  <2> QED BY <2>2, <2>3 DEF FileInv
<1>2. ASSUME copied = FALSE => FileInv, [FileNext]_fileVars, copied' = FALSE PROVE FileInv'
  <2>1. copied = FALSE
    BY <1>2 DEF FileNext, fileVars, Begin, Use, WriteNext, CopyBackup, Rename, CopyMain, TearBackup,
                WriteBackup, Fail
  <2> QED BY <1>2, <2>1, FileStep
<1>3. (copied = FALSE => FileInv) /\ [FileNext]_fileVars => (copied = FALSE => FileInv)'
  BY <1>2
<1> QED BY <1>1, <1>3, PTL DEF FileSpec

(* What persist_state has confirmed is recovered ever after, after any     *)
(* number of crashes and failing calls.                                    *)
THEOREM FileAckedDurable == FileSpec => []AckedDurable
<1>1. (copied = FALSE => FileInv) => AckedDurable
  <2> SUFFICES ASSUME FileInv, acked > 0 PROVE ~ Corrupt /\ Recovered.rev >= acked
    BY DEF AckedDurable
  <2>1. main.kind = "state" /\ main.rev >= acked /\ main.rev \in Nat /\ acked \in Nat
    BY DEF FileInv, Ordered, FileTypeOK, Files
  <2>2. Newest # {}
    BY <2>1, NewestIs DEF FileInv
  <2>3. ~ Corrupt
    BY <2>2, NewestIs DEF FileInv, Corrupt
  <2>4. Recovered.rev \in Nat /\ Recovered.rev >= main.rev
    BY <2>3, RecoveredNotOlder DEF FileInv
  <2> QED BY <2>1, <2>3, <2>4
<1> QED BY <1>1, FileInvariant, PTL

(* The files never disagree about a revision.                              *)
THEOREM FileOneStatePerRevision == FileSpec => []OneStatePerRevision
<1>1. (copied = FALSE => FileInv) => OneStatePerRevision
  BY NewestIs DEF FileInv, OneStatePerRevision
<1> QED BY <1>1, FileInvariant, PTL

(* What is recovered is as new as any file that decodes.                   *)
LEMMA RecoveredIsNewest ==
    ASSUME FileTypeOK
    PROVE  /\ Recovered.rev \in Nat
           /\ \A f \in Decoded : f.rev \in Nat /\ Recovered.rev >= f.rev
           /\ Recovered \in Decoded \/ (Decoded = {} /\ Recovered.rev = 0)
<1>1. main.rev \in Nat /\ backup.rev \in Nat /\ next.rev \in Nat
  BY DEF FileTypeOK, Files
<1>2. \A f \in Decoded : f.rev \in Nat /\ (f = main \/ f = backup \/ f = next)
  BY <1>1 DEF Decoded
<1>3. CASE Decoded = {}
  <2>1. Recovered = Absent
    BY <1>3 DEF Recovered, Newest
  <2> QED BY <1>3, <2>1 DEF Absent
<1>4. CASE Decoded # {}
  <2>1. Newest # {}
    <3>1. PICK f \in Decoded : TRUE
      BY <1>4
    <3>2. ASSUME main \in Decoded, \A g \in Decoded : g.rev <= main.rev PROVE Newest # {}
      BY <3>2 DEF Newest
    <3>3. ASSUME backup \in Decoded, \A g \in Decoded : g.rev <= backup.rev PROVE Newest # {}
      BY <3>3 DEF Newest
    <3>4. ASSUME next \in Decoded, \A g \in Decoded : g.rev <= next.rev PROVE Newest # {}
      BY <3>4 DEF Newest
    <3>5. \/ main \in Decoded /\ \A g \in Decoded : g.rev <= main.rev
          \/ backup \in Decoded /\ \A g \in Decoded : g.rev <= backup.rev
          \/ next \in Decoded /\ \A g \in Decoded : g.rev <= next.rev
      BY <1>1, <1>2, <3>1
    <3> QED BY <3>2, <3>3, <3>4, <3>5
  <2>2. Recovered \in Newest
    BY <2>1 DEF Recovered
  <2> QED BY <1>2, <2>2 DEF Newest
<1> QED BY <1>3, <1>4

(* SeenInv is kept by every step, also by those that replace a rename.     *)
LEMMA SeenStep ==
    ASSUME SeenInv, [FileNext]_fileVars
    PROVE  SeenInv'
<1>1. /\ main \in Files /\ backup \in Files /\ next \in Files /\ new \in Files
      /\ main.rev \in Nat /\ backup.rev \in Nat /\ next.rev \in Nat /\ new.rev \in Nat
      /\ acked \in Nat /\ seen \in Nat /\ ops \in Nat /\ failures \in Nat
      /\ copied \in BOOLEAN /\ pc \in Steps
  BY DEF SeenInv, FileTypeOK, Files
<1>2. /\ Absent \in Files /\ Torn \in Files
      /\ Absent.kind = "absent" /\ Absent.rev = 0 /\ Torn.kind = "torn"
  BY DEF Absent, Torn, Files
<1>3. CASE Begin
  <2>1. Recovered.rev \in Nat /\ \A f \in Decoded : Recovered.rev >= f.rev
    BY RecoveredIsNewest DEF SeenInv
  <2>2. /\ new' \in Files /\ new'.kind = "state" /\ new'.rev = Recovered.rev + 1
    BY <1>1, <1>3, <2>1 DEF Begin, State, Files
  <2>3. /\ next' = Torn /\ pc = "idle" /\ pc' = "next_torn" /\ main' = main /\ backup' = backup
        /\ acked' = acked /\ failures' = failures /\ ops' = ops + 1 /\ copied' = copied
        /\ seen' = IF Recovered.rev > seen THEN Recovered.rev ELSE seen
    BY <1>3 DEF Begin
  <2>4. FileTypeOK'
    BY <1>1, <1>2, <2>1, <2>2, <2>3 DEF FileTypeOK, Steps
  <2>5. ASSUME failures <= 1 PROVE new'.rev > seen'
    <3>1. seen = 0 \/ Recovered.rev >= seen
      BY <1>1, <2>1, <2>3, <2>5 DEF SeenInv, OnceFailed, HoldsSeen, Decoded
    <3> QED BY <1>1, <2>1, <2>2, <2>3, <3>1
  <2>6. ASSUME failures = 0 PROVE seen' = 0 \/ (main.kind = "state" /\ main.rev >= seen')
    <3>1. next = Absent /\ backup = main /\ (seen = 0 \/ (main.kind = "state" /\ main.rev >= seen))
      BY <2>3, <2>6 DEF SeenInv, OnceFailed, Unfailed
    <3>2. \A f \in Decoded : f = main /\ main.kind = "state"
      BY <1>2, <3>1 DEF Decoded
    <3>3. (Recovered = main /\ main.kind = "state") \/ Recovered.rev = 0
      BY <3>2, RecoveredIsNewest DEF SeenInv
    <3> QED BY <1>1, <2>1, <2>3, <3>1, <3>3
  <2>7. failures' <= 1 => OnceFailed'
    BY <2>2, <2>3, <2>5, <2>6 DEF OnceFailed, Unfailed
  <2> QED BY <2>4, <2>7 DEF SeenInv
<1>4. CASE Use
  <2>1. Recovered.rev \in Nat /\ Recovered.rev > seen /\ seen' = Recovered.rev
        /\ Recovered \in Decoded
    BY <1>1, <1>4, RecoveredIsNewest DEF Use, SeenInv
  <2>2. pc = "idle" /\ UNCHANGED << main, backup, next, pc, new, acked, copied, ops, failures >>
    BY <1>4 DEF Use, files
  <2>3. FileTypeOK'
    BY <1>1, <2>1, <2>2 DEF FileTypeOK
  <2>4. HoldsSeen'
    BY <2>1, <2>2 DEF HoldsSeen, Decoded
  <2>5. ASSUME failures = 0 PROVE main.kind = "state" /\ main.rev >= seen'
    <3>1. next = Absent /\ backup = main
      BY <2>2, <2>5 DEF SeenInv, OnceFailed, Unfailed
    <3>2. Recovered = main /\ main.kind = "state"
      BY <1>2, <2>1, <3>1 DEF Decoded
    <3> QED BY <1>1, <2>1, <3>2
  <2>6. failures' <= 1 => OnceFailed'
    BY <2>2, <2>4, <2>5 DEF SeenInv, OnceFailed, Unfailed
  <2> QED BY <2>3, <2>6 DEF SeenInv
<1>5. CASE WriteNext \/ CopyBackup \/ Rename \/ CopyMain \/ TearBackup
  <2>1. UNCHANGED << new, acked, seen, ops, failures >> /\ pc # "idle" /\ pc' # "idle"
    BY <1>5 DEF WriteNext, CopyBackup, Rename, Renames, CopyMain, TearBackup, Goes
  <2>2. /\ main' \in {main, next, Torn} /\ backup' \in {backup, main, Torn}
        /\ next' \in {next, new, Absent} /\ copied' \in {copied, TRUE} /\ pc' \in Steps
    BY <1>5 DEF WriteNext, CopyBackup, Rename, CopyMain, TearBackup, Goes, Steps
  <2>3. FileTypeOK'
    BY <1>1, <1>2, <2>1, <2>2 DEF FileTypeOK
  <2>4. CASE WriteNext
    BY <2>1, <2>3, <2>4 DEF WriteNext, Goes, SeenInv, OnceFailed, Unfailed
  <2>5. CASE CopyBackup
    BY <2>1, <2>3, <2>5 DEF CopyBackup, Goes, SeenInv, OnceFailed, Unfailed
  <2>6. CASE Rename
    BY <2>1, <2>3, <2>6 DEF Rename, Renames, Goes, SeenInv, OnceFailed, Unfailed
  <2>7. CASE CopyMain
    BY <2>1, <2>3, <2>7 DEF CopyMain, Renames, Goes, SeenInv, OnceFailed, Unfailed
  <2>8. CASE TearBackup
    BY <2>1, <2>3, <2>8 DEF TearBackup, Goes, SeenInv, OnceFailed, Unfailed
  <2> QED BY <1>5, <2>4, <2>5, <2>6, <2>7, <2>8
<1>6. CASE WriteBackup
  <2>1. /\ pc = "backup_last" /\ pc' = "idle" /\ backup' = new /\ acked' = new.rev
        /\ seen' = IF new.rev > seen THEN new.rev ELSE seen
        /\ UNCHANGED << main, next, new, copied, ops, failures >>
    BY <1>6 DEF WriteBackup
  <2>2. FileTypeOK'
    BY <1>1, <2>1 DEF FileTypeOK, Steps
  <2>3. ASSUME failures <= 1 PROVE OnceFailed'
    <3>1. main = new /\ new.kind = "state" /\ seen' = new.rev
      BY <1>1, <2>1, <2>3 DEF SeenInv, OnceFailed
    <3>2. HoldsSeen'
      BY <1>1, <2>1, <3>1 DEF HoldsSeen, Decoded
    <3>3. failures = 0 => next = Absent
      BY <2>1, <2>3 DEF SeenInv, OnceFailed, Unfailed
    <3> QED BY <1>1, <2>1, <3>1, <3>2, <3>3 DEF OnceFailed, Unfailed
  <2> QED BY <2>1, <2>2, <2>3 DEF SeenInv
<1>7. CASE Fail
  <2>1. /\ pc # "idle" /\ pc' = "idle" /\ failures' = failures + 1
        /\ UNCHANGED << main, backup, next, new, acked, seen, copied, ops >>
    BY <1>7 DEF Fail, files
  <2>2. FileTypeOK'
    BY <1>1, <2>1 DEF FileTypeOK, Steps
  <2>3. ASSUME failures' <= 1 PROVE OnceFailed'
    <3>1. failures = 0 /\ OnceFailed /\ Unfailed
      BY <1>1, <2>1, <2>3 DEF SeenInv, OnceFailed
    <3>2. HoldsSeen
      BY <1>1, <2>1, <3>1 DEF HoldsSeen, Decoded, OnceFailed, Unfailed, Steps
    <3>3. HoldsSeen'
      BY <2>1, <3>2 DEF HoldsSeen, Decoded
    <3> QED BY <2>1, <3>1, <3>3 DEF OnceFailed
  <2> QED BY <2>2, <2>3 DEF SeenInv
<1>8. CASE UNCHANGED fileVars
  BY <1>8 DEF fileVars, files, SeenInv, FileTypeOK, OnceFailed, Unfailed, HoldsSeen, Decoded
<1> QED BY <1>3, <1>4, <1>5, <1>6, <1>7, <1>8 DEF FileNext

(* Whatever single failure befalls persist_state, also of a rename, no     *)
(* reader falls back behind a state that was acted on.                     *)
THEOREM FileNeverRollsBack == FileSpec => []NeverRollsBack
<1>1. FileInit => SeenInv
  <2>1. Absent \in Files
    BY DEF Absent, Files
  <2>2. ASSUME FileInit PROVE FileTypeOK
    BY <2>1, <2>2 DEF FileInit, FileTypeOK, Steps
  <2> QED BY <2>2 DEF FileInit, SeenInv, OnceFailed, Unfailed, HoldsSeen
<1>2. SeenInv /\ [FileNext]_fileVars => SeenInv'
  BY SeenStep
<1>3. SeenInv => NeverRollsBack
  BY RecoveredIsNewest DEF SeenInv, OnceFailed, HoldsSeen, NeverRollsBack, FileTypeOK, Decoded
<1> QED BY <1>1, <1>2, <1>3, PTL DEF FileSpec

=============================================================================
