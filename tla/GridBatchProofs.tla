--------------------------- MODULE GridBatchProofs ---------------------------
(***************************************************************************)
(* BatchInv is an inductive invariant of the Grid's batches, for any       *)
(* batches, rows, queue depth and number of moves and aborts; the barrier, *)
(* the chain and the ownership of live orders follow, and every new        *)
(* placement keeps CommandContract.                                        *)
(***************************************************************************)
EXTENDS GridBatch, TLAPS

USE DEF CommandState, Unresolved, Nonterminal, Terminal

Owners == [Places -> {"none", "unbound", "bound", "terminal"}]
Children == [Commands -> {"none", "held", "ready", "entered"} \cup Results]
Replies == [Commands -> {"none", "live", "void", "ended", "refused"}]

(* Placements and cancels are the rows; a cancel comes after the           *)
(* placements of its batch.                                                *)
LEMMA RowsAre ==
  /\ Places \subseteq Commands /\ Cancels \subseteq Commands
  /\ \A c \in Commands : c \in Places <=> c \notin Cancels
  /\ \A c \in Cancels : TargetOf[c] \in Places
  /\ \A c \in Commands : BatchOf[c] \in Batches /\ SeqOf[c] \in Nat
  /\ \A p \in Places, k \in Cancels : BatchOf[p] = BatchOf[k] => SeqOf[p] < SeqOf[k]
  /\ \A b, c : c \in In(b) <=> c \in Commands /\ BatchOf[c] = b
BY GridAssumption DEF Places, In

(* The resting orders of the start.                                        *)
LEMMA BatchInit == Init => BatchInv
<1> SUFFICES ASSUME Init PROVE BatchInv
  OBVIOUS
<1> USE RowsAre, GridAssumption DEF Init, Initially
<1>1. TypeOK
  <2>1. /\ state \in [Commands -> CommandState]
        /\ owner \in Owners
        /\ pred \in [Batches -> Batches \cup {NoBatch}]
        /\ child \in Children
    BY DEF Owners, Children
  <2>2. /\ wire \in [Commands -> {"none", "transit", "gone"}]
        /\ order \in [Places -> {"none", "live", "filled", "void"}]
        /\ reply \in Replies
        /\ posts \in [Commands -> Nat]
    BY DEF Replies
  <2>3. queue \in Seq(Batches)
    OBVIOUS
  <2> QED
    BY <2>1, <2>2, <2>3 DEF TypeOK, Owners, Children, Replies, InstanceStates
<1>2. RequestsSound
  BY DEF RequestsSound
<1>3. BatchesSound /\ AnswersSound
  BY DEF BatchesSound, AnswersSound, WindingStates, Unsettled
<1>4. TurnSound /\ BarrierSound
  BY DEF TurnSound, BarrierSound
<1>5. PlacesFirst /\ ChainOrdered /\ LiveOrdersOwned
  BY DEF PlacesFirst, ChainOrdered, LiveOrdersOwned, PredecessorDone, Unsettled
<1> QED
  BY <1>1, <1>2, <1>3, <1>4, <1>5 DEF BatchInv

-----------------------------------------------------------------------------
(* The instance.                                                           *)

(* The instance changes its state without withdrawing anything.            *)
LEMMA InstanceStep ==
  ASSUME BatchInv, UNCHANGED << rows, chain, turn, exchange, posts >>,
         instance' \in InstanceStates, moves' \in Nat, aborts' \in Nat,
         instance' \in WindingStates => instance \in WindingStates
  PROVE  BatchInv'
<1> USE DEF BatchInv, rows, chain, turn, exchange
<1>1. TypeOK'
  BY DEF TypeOK
<1>2. RequestsSound' /\ AnswersSound' /\ TurnSound'
  BY DEF RequestsSound, AnswersSound, TurnSound
<1>3. BatchesSound'
  BY DEF BatchesSound, Unsettled, PredecessorDone
<1>4. BarrierSound' /\ PlacesFirst' /\ ChainOrdered' /\ LiveOrdersOwned'
  BY DEF BarrierSound, PlacesFirst, ChainOrdered, LiveOrdersOwned, Unsettled, PredecessorDone
<1> QED
  BY <1>1, <1>2, <1>3, <1>4

(* cancel_pending_risk_commands: a placement that waits has not been sent. *)
LEMMA FenceStep ==
  ASSUME BatchInv, FenceRisk, UNCHANGED << chain, turn, exchange, posts >>,
         instance' \in InstanceStates, moves' \in Nat, aborts' \in Nat
  PROVE  BatchInv'
<1> USE RowsAre DEF BatchInv, chain, turn, exchange
<1>1. \A c \in Commands : state'[c] = IF c \in Places /\ state[c] = "pending"
                                      THEN "cancelled" ELSE state[c]
  BY DEF FenceRisk
<1>2. \A p \in Places : owner'[p] = IF state[p] = "pending" /\ owner[p] = "unbound"
                                    THEN "terminal" ELSE owner[p]
  BY DEF FenceRisk
<1>3. TypeOK'
  <2>1. state' \in [Commands -> CommandState] /\ owner' \in Owners
    BY DEF FenceRisk, TypeOK, Owners
  <2> QED
    BY <2>1 DEF TypeOK, Owners
<1>4. RequestsSound'
  BY <1>1, <1>2 DEF RequestsSound
<1>5. BatchesSound'
  BY <1>1 DEF BatchesSound, Unsettled, PredecessorDone
<1>6. AnswersSound'
  BY DEF AnswersSound
<1>7. TurnSound'
  BY <1>1 DEF TurnSound, TypeOK
<1>8. BarrierSound'
  BY <1>1 DEF BarrierSound
<1>9. PlacesFirst' /\ ChainOrdered'
  BY <1>1 DEF PlacesFirst, ChainOrdered, Unsettled, PredecessorDone
<1>10. LiveOrdersOwned'
  BY <1>2 DEF LiveOrdersOwned, RequestsSound
<1> QED
  BY <1>3, <1>4, <1>5, <1>6, <1>7, <1>8, <1>9, <1>10

(* Requests of the user and verdicts of the runtime.                       *)
LEMMA LifecycleStep ==
  ASSUME BatchInv,
         \/ \E action \in {"start", "resume"} : Activate(action)
         \/ \E action \in {"pause", "stop", "reset"} :
              \E next \in {"paused", "stop_pending", "reset_required"} : Wind(action, next)
         \/ UpdateConfig \/ Ready \/ Block \/ NeedAttention \/ AutomaticReset \/ FinishWind
  PROVE  BatchInv'
<1> USE DEF InstanceStates, WindingStates
<1>1. moves \in Nat /\ aborts \in Nat /\ moves + 1 \in Nat /\ instance \in InstanceStates
  BY DEF BatchInv, TypeOK
<1>2. CASE \E action \in {"start", "resume"} : Activate(action)
  BY <1>1, <1>2, InstanceStep DEF Activate, bounds
<1>3. CASE \E action \in {"pause", "stop", "reset"} :
             \E next \in {"paused", "stop_pending", "reset_required"} : Wind(action, next)
  BY <1>1, <1>3, FenceStep DEF Wind
<1>4. CASE UpdateConfig
  BY <1>1, <1>4, FenceStep DEF UpdateConfig
<1>5. CASE AutomaticReset
  BY <1>1, <1>5, FenceStep DEF AutomaticReset, bounds
<1>6. CASE Ready \/ Block \/ NeedAttention \/ FinishWind
  BY <1>1, <1>6, InstanceStep DEF Ready, Block, NeedAttention, FinishWind, bounds
<1> QED
  BY <1>2, <1>3, <1>4, <1>5, <1>6

(* The runtime sees an order, or that it is gone.                          *)
LEMMA SeeStep ==
  ASSUME BatchInv, NEW p \in Places, SeeOrder(p) \/ SeeGone(p)
  PROVE  BatchInv'
<1> USE RowsAre DEF BatchInv, chain, turn, exchange, bounds
<1>1. /\ UNCHANGED << state, instance, tail, pred, queue, step, group, child, wire, order, reply,
                      posts, moves, aborts >>
      /\ \A q \in Places : q # p => owner'[q] = owner[q]
      /\ \/ owner[p] = "unbound" /\ order[p] = "live" /\ owner'[p] = "bound"
         \/ owner[p] = "bound" /\ order[p] # "live" /\ owner'[p] = "terminal"
      /\ owner' \in Owners
  <2>1. \E next \in {"bound", "terminal"} : owner' = [owner EXCEPT ![p] = next]
    BY DEF SeeOrder, SeeGone
  <2>2. /\ owner' \in Owners
        /\ \A q \in Places : q # p => owner'[q] = owner[q]
    BY <2>1 DEF TypeOK, Owners
  <2>3. \/ owner[p] = "unbound" /\ order[p] = "live" /\ owner'[p] = "bound"
        \/ owner[p] = "bound" /\ order[p] # "live" /\ owner'[p] = "terminal"
    BY DEF SeeOrder, SeeGone, TypeOK
  <2> QED
    BY <2>2, <2>3 DEF SeeOrder, SeeGone
<1>2. TypeOK'
  BY <1>1 DEF TypeOK, Owners
<1>3. RequestsSound'
  BY <1>1 DEF RequestsSound
<1>4. BatchesSound' /\ AnswersSound' /\ TurnSound' /\ BarrierSound'
  BY <1>1 DEF BatchesSound, AnswersSound, TurnSound, BarrierSound, Unsettled, PredecessorDone
<1>5. PlacesFirst' /\ ChainOrdered'
  BY <1>1 DEF PlacesFirst, ChainOrdered, Unsettled, PredecessorDone
<1>6. LiveOrdersOwned'
  BY <1>1 DEF LiveOrdersOwned, RequestsSound
<1> QED
  BY <1>2, <1>3, <1>4, <1>5, <1>6

-----------------------------------------------------------------------------
(* Admission.                                                              *)

(* The rows of a batch are new, and a cancel's target has been seen.       *)
LEMMA InsertStep ==
  ASSUME BatchInv, NEW b \in Batches, CommitPlan(b) \/ EnqueueBatch(b)
  PROVE  BatchInv'
<1> USE RowsAre DEF BatchInv
<1>1. /\ \A c \in Commands : state'[c] = IF BatchOf[c] = b THEN "pending" ELSE state[c]
      /\ \A p \in Places : owner'[p] = IF BatchOf[p] = b THEN "unbound" ELSE owner[p]
      /\ \A c \in Commands : BatchOf[c] = b => state[c] = "absent"
      /\ \A c \in Cancels : BatchOf[c] = b => owner[TargetOf[c]] = "bound"
      /\ state' \in [Commands -> CommandState] /\ owner' \in Owners
      /\ queue' \in Seq(Batches)
  <2>1. Insert(b)
    BY DEF CommitPlan, EnqueueBatch
  <2>2. queue' \in Seq(Batches)
    BY <2>1 DEF Insert, TypeOK
  <2>3. state' \in [Commands -> CommandState] /\ owner' \in Owners
    BY <2>1 DEF Insert, TypeOK, Owners
  <2> QED
    BY <2>1, <2>2, <2>3 DEF Insert
<1>2. /\ UNCHANGED << instance, step, group, child, wire, order, reply, posts, moves, aborts >>
      /\ \A d \in Batches : d # b => pred'[d] = pred[d]
      /\ pred' \in [Batches -> Batches \cup {NoBatch}]
      /\ tail' \in Batches \cup {NoBatch}
  <2>1. CASE CommitPlan(b)
    <3>1. pred' = [pred EXCEPT ![b] = tail] /\ tail' = b
      BY <2>1 DEF CommitPlan
    <3>2. /\ \A d \in Batches : d # b => pred'[d] = pred[d]
          /\ pred' \in [Batches -> Batches \cup {NoBatch}]
      BY <3>1 DEF TypeOK
    <3> QED
      BY <2>1, <3>1, <3>2 DEF CommitPlan, turn, exchange, bounds
  <2>2. CASE EnqueueBatch(b)
    BY <2>2 DEF EnqueueBatch, turn, exchange, bounds, TypeOK
  <2> QED
    BY <2>1, <2>2
<1>3. (\E p \in Places : BatchOf[p] = b) => instance \notin WindingStates
  BY DEF CommitPlan, EnqueueBatch, WindingStates
<1>4. TypeOK'
  BY <1>1, <1>2 DEF TypeOK, Owners
<1>5. RequestsSound'
  BY <1>1, <1>2 DEF RequestsSound
<1>6. \A d \in Batches : d # b /\ PredecessorDone(d) => PredecessorDone(d)'
  <2> SUFFICES ASSUME NEW d \in Batches, d # b, PredecessorDone(d) PROVE PredecessorDone(d)'
    OBVIOUS
  <2>1. pred'[d] = pred[d]
    BY <1>2
  <2>2. \A c \in In(pred[d]) : state[c] \in Terminal => state'[c] \in Terminal
    BY <1>1
  <2> QED
    BY <2>1, <2>2 DEF PredecessorDone
<1>7. BatchesSound'
  <2>1. \A c \in Commands : state'[c] \in Unresolved => state[c] \in Unresolved /\ BatchOf[c] # b
    BY <1>1
  <2>2. \A c \in Unsettled' : PredecessorDone(BatchOf[c])'
    BY <1>6, <2>1 DEF BatchesSound, Unsettled
  <2>3. \A k \in Cancels, p \in Places :
          (state'[k] = "pending" /\ BatchOf[p] = BatchOf[k]) => state'[p] \in {"pending", "cancelled"}
    BY <1>1 DEF BatchesSound
  <2>4. instance' \in WindingStates => \A p \in Places : state'[p] # "pending"
    BY <1>1, <1>2, <1>3 DEF BatchesSound
  <2> QED
    BY <2>2, <2>3, <2>4 DEF BatchesSound
<1>8. AnswersSound'
  BY <1>2 DEF AnswersSound
<1>9. TurnSound' /\ BarrierSound'
  <2>1. \A c \in group : state[c] # "absent"
    BY DEF TurnSound, TypeOK
  <2>2. \A c \in group : state'[c] = state[c]
    BY <1>1, <2>1 DEF TypeOK
  <2>3. TurnSound'
    BY <1>2, <2>2 DEF TurnSound
  <2>4. \A p \in Places : state[p] = "cancelled" => state'[p] = "cancelled"
    BY <1>1
  <2>5. BarrierSound'
    BY <1>2, <2>4 DEF BarrierSound
  <2> QED
    BY <2>3, <2>5
<1>10. PlacesFirst'
  BY <1>1, <1>2 DEF PlacesFirst
<1>11. ChainOrdered'
  <2>1. \A c \in Commands : posts[c] > 0 => BatchOf[c] # b
    BY <1>1 DEF RequestsSound
  <2>2. \A c \in Unsettled' : c \in Unsettled
    BY <1>1 DEF Unsettled
  <2> QED
    BY <1>2, <1>6, <2>1, <2>2 DEF ChainOrdered
<1>12. LiveOrdersOwned'
  BY <1>1, <1>2 DEF LiveOrdersOwned
<1> QED
  BY <1>4, <1>5, <1>7, <1>8, <1>9, <1>10, <1>11, <1>12

-----------------------------------------------------------------------------
(* The claim and the burst.                                                *)

(* What is claimed of a batch with a cancel are all of its placements that *)
(* were not withdrawn.                                                     *)
LEMMA ClaimStep ==
  ASSUME BatchInv, NEW c \in Commands, Claim(c)
  PROVE  BatchInv'
<1> USE RowsAre DEF BatchInv
<1> DEFINE claimed == { d \in In(BatchOf[c]) : state[d] = "pending" /\ SeqOf[d] >= SeqOf[c] }
<1>1. /\ step = "idle" /\ group = {}
      /\ group' = claimed /\ step' = "claimed"
      /\ state' = [d \in Commands |-> IF d \in claimed THEN "sending" ELSE state[d]]
      /\ UNCHANGED << owner, instance, tail, pred, queue, child, wire, order, reply, posts, moves,
                      aborts >>
  BY DEF Claim, TurnSound, chain, exchange, bounds
<1>2. Candidate(c)
  BY DEF Claim, FirstCandidate
<1>3. claimed \subseteq Commands
  OBVIOUS
<1>4. \A d \in claimed : d \in Commands /\ BatchOf[d] = BatchOf[c] /\ state[d] = "pending"
                          /\ SeqOf[d] >= SeqOf[c]
  OBVIOUS
<1>5. \A d \in Commands : BatchOf[d] = BatchOf[c] /\ state[d] = "pending" /\ SeqOf[d] >= SeqOf[c]
                            => d \in claimed
  OBVIOUS
<1> HIDE DEF claimed
<1>6. \A d \in Commands : state'[d] = IF d \in claimed THEN "sending" ELSE state[d]
  BY <1>1
<1>7. TypeOK'
  <2>1. state' \in [Commands -> CommandState]
    BY <1>1 DEF TypeOK
  <2> QED
    BY <1>1, <1>3, <2>1 DEF TypeOK
<1>8. RequestsSound'
  BY <1>1, <1>4, <1>6 DEF RequestsSound
<1>9. \A b \in Batches : PredecessorDone(b) => PredecessorDone(b)'
  <2> SUFFICES ASSUME NEW b \in Batches, PredecessorDone(b) PROVE PredecessorDone(b)'
    OBVIOUS
  <2>1. \A d \in In(pred[b]) : state[d] \in Terminal => state'[d] \in Terminal
    BY <1>4, <1>6
  <2> QED
    BY <1>1, <2>1 DEF PredecessorDone
<1>10. BatchesSound'
  <2>1. \A d \in Unsettled' : PredecessorDone(BatchOf[d])'
    <3>1. \A d \in Unsettled' : d \in Commands /\ (d \in Unsettled \/ BatchOf[d] = BatchOf[c])
      BY <1>4, <1>6 DEF Unsettled
    <3> QED
      BY <1>2, <1>9, <3>1 DEF Candidate, BatchesSound
  <2>2. ASSUME NEW k \in Cancels, NEW p \in Places, state'[k] = "pending", BatchOf[p] = BatchOf[k]
        PROVE  state'[p] \in {"pending", "cancelled"}
    <3>1. state[k] = "pending" /\ k \notin claimed
      BY <1>6, <2>2
    <3>2. state[p] \in {"pending", "cancelled"}
      BY <2>2, <3>1 DEF BatchesSound
    <3>3. p \notin claimed
      BY <1>4, <1>5, <2>2, <3>1
    <3> QED
      BY <1>6, <3>2, <3>3
  <2>3. instance' \in WindingStates => \A p \in Places : state'[p] # "pending"
    BY <1>1, <1>6 DEF BatchesSound
  <2> QED
    BY <2>1, <2>2, <2>3 DEF BatchesSound
<1>11. AnswersSound'
  BY <1>1 DEF AnswersSound
<1>12. TurnSound'
  BY <1>1, <1>3, <1>4, <1>6 DEF TurnSound, RequestsSound
<1>13. BarrierSound'
  <2>1. ASSUME NEW k \in claimed \cap Cancels, NEW p \in In(BatchOf[k]) \cap Places
        PROVE  p \in claimed \/ state'[p] = "cancelled"
    <3>1. state[k] = "pending" /\ BatchOf[k] = BatchOf[c] /\ p \in Places /\ BatchOf[p] = BatchOf[c]
      BY <1>4
    <3>2. state[p] \in {"pending", "cancelled"}
      BY <3>1 DEF BatchesSound
    <3>3. CASE state[p] = "pending"
      <4>1. instance \notin WindingStates
        BY <3>3 DEF BatchesSound
      <4>2. SeqOf[p] < SeqOf[c] => state[p] = "reconciled"
        BY <1>2, <3>1, <4>1 DEF Candidate
      <4> QED
        BY <1>5, <3>1, <3>3, <4>2
    <3> QED
      BY <1>6, <3>2, <3>3
  <2> QED
    BY <1>1, <2>1 DEF BarrierSound
<1>14. PlacesFirst'
  BY <1>1, <1>4, <1>6 DEF PlacesFirst
<1>15. ChainOrdered'
  <2>1. \A d \in Unsettled' : BatchOf[d] = BatchOf[c]
    BY <1>2, <1>4, <1>6 DEF Candidate, Unsettled
  <2> QED
    BY <1>1, <1>9, <2>1 DEF ChainOrdered
<1>16. LiveOrdersOwned'
  BY <1>1 DEF LiveOrdersOwned
<1> QED
  BY <1>7, <1>8, <1>10, <1>11, <1>12, <1>13, <1>14, <1>15, <1>16

(* A step within the turn that touches no row and sends nothing.           *)
LEMMA QuietStep ==
  ASSUME BatchInv, UNCHANGED << rows, instance, chain, wire, order, posts, moves >>,
         aborts' \in Nat, group' \subseteq Commands,
         step' \in {"idle", "claimed", "burst", "settling", "read"},
         child' \in Children, reply' \in Replies,
         AnswersSound', TurnSound', BarrierSound'
  PROVE  BatchInv'
<1> USE DEF BatchInv, rows, chain
<1>1. TypeOK'
  BY DEF TypeOK, Children, Replies
<1>2. RequestsSound'
  BY DEF RequestsSound
<1>3. BatchesSound'
  BY DEF BatchesSound, Unsettled, PredecessorDone
<1>4. PlacesFirst' /\ ChainOrdered' /\ LiveOrdersOwned'
  BY DEF PlacesFirst, ChainOrdered, LiveOrdersOwned, Unsettled, PredecessorDone
<1> QED
  BY <1>1, <1>2, <1>3, <1>4

(* A batch that is refused before anything is sent.                        *)
LEMMA RefuseBatchStep ==
  ASSUME BatchInv, RefuseBatch
  PROVE  BatchInv'
<1> USE RowsAre DEF BatchInv
<1>1. /\ UNCHANGED << state, owner, instance, tail, pred, queue, group, wire, order, reply, posts,
                      moves, aborts >>
      /\ step = "claimed" /\ step' = "settling"
      /\ child' = [c \in Commands |-> IF c \in group THEN "unsent" ELSE "none"]
  BY DEF RefuseBatch, rows, chain, exchange, bounds
<1>2. \A c \in Commands : child'[c] = IF c \in group THEN "unsent" ELSE "none"
  BY <1>1
<1>3. child' \in Children
  BY <1>1 DEF Children, Results
<1>4. AnswersSound'
  BY <1>1, <1>2 DEF AnswersSound, TurnSound
<1>5. TurnSound'
  BY <1>1, <1>2 DEF TurnSound, Results, TypeOK
<1>6. BarrierSound'
  BY <1>1 DEF BarrierSound
<1> QED
  BY <1>1, <1>3, <1>4, <1>5, <1>6, QuietStep DEF TypeOK, Replies, rows, chain

(* Requests are built; a cancel whose order is gone needs none.            *)
LEMMA PrepareStep ==
  ASSUME BatchInv, Prepare
  PROVE  BatchInv'
<1> USE RowsAre DEF BatchInv
<1>1. /\ UNCHANGED << state, owner, instance, tail, pred, queue, group, wire, order, reply, posts,
                      moves, aborts >>
      /\ step = "claimed" /\ step' = "burst"
  BY DEF Prepare, rows, chain, exchange, bounds
<1>2. \A c \in group : c \in Commands /\ state[c] = "sending" /\ wire[c] = "none"
  BY <1>1 DEF TurnSound, TypeOK
<1>3. PICK done \in {GoneTargets, {}} :
        child' = [c \in Commands |->
                    CASE c \in done                       -> "reconciled"
                      [] c \in group \cap Places          -> "ready"
                      [] c \in (group \cap Cancels) \ done -> "held"
                      [] OTHER                            -> "none"]
  BY DEF Prepare
<1>4. \A c \in done : c \in group \cap Cancels /\ order[TargetOf[c]] \in {"filled", "void"}
  <2>1. \A c \in GoneTargets : c \in group \cap Cancels /\ order[TargetOf[c]] # "live"
    BY DEF GoneTargets
  <2>2. \A c \in group \cap Cancels : order[TargetOf[c]] # "none"
    BY <1>2 DEF RequestsSound
  <2> QED
    BY <1>3, <2>1, <2>2 DEF TypeOK
<1>5. \A c \in Commands :
        child'[c] = IF c \notin group THEN "none"
                    ELSE IF c \in Places THEN "ready"
                    ELSE IF c \in done THEN "reconciled" ELSE "held"
  BY <1>3, <1>4
<1>6. child' \in Children
  BY <1>3, <1>5 DEF Children, Results
<1>7. AnswersSound'
  BY <1>1, <1>4, <1>5 DEF AnswersSound
<1>8. TurnSound'
  BY <1>1, <1>2, <1>5 DEF TurnSound
<1>9. BarrierSound'
  BY <1>1, <1>5 DEF BarrierSound, TypeOK
<1> QED
  BY <1>1, <1>6, <1>7, <1>8, <1>9, QuietStep DEF TypeOK, Replies, rows, chain

(* A request leaves: its row is claimed and it was never sent before.  A   *)
(* cancel leaves after every placement of its batch.                       *)
LEMMA EnterSendStep ==
  ASSUME BatchInv, NEW c \in Commands, EnterSend(c)
  PROVE  BatchInv'
<1> USE RowsAre DEF BatchInv
<1>1. /\ UNCHANGED << state, owner, instance, tail, pred, queue, step, group, order, reply, moves,
                      aborts >>
      /\ step = "burst" /\ child[c] = "ready"
      /\ child' = [child EXCEPT ![c] = "entered"]
      /\ wire' = [wire EXCEPT ![c] = "transit"]
      /\ posts' = [posts EXCEPT ![c] = @ + 1]
  BY DEF EnterSend, rows, chain, bounds
<1>2. /\ child' \in Children /\ child'[c] = "entered"
      /\ \A d \in Commands : d # c => child'[d] = child[d]
      /\ wire' \in [Commands -> {"none", "transit", "gone"}] /\ wire'[c] = "transit"
      /\ \A d \in Commands : d # c => wire'[d] = wire[d]
      /\ posts' \in [Commands -> Nat] /\ posts'[c] > 0
      /\ \A d \in Commands : d # c => posts'[d] = posts[d]
  <2>1. posts[c] \in Nat
    BY DEF TypeOK
  <2> QED
    BY <1>1, <2>1 DEF TypeOK, Children
<1>3. c \in group /\ state[c] = "sending" /\ wire[c] = "none"
  BY <1>1 DEF TurnSound
<1>4. TypeOK'
  BY <1>1, <1>2 DEF TypeOK, Children
<1>5. RequestsSound'
  BY <1>1, <1>2, <1>3 DEF RequestsSound
<1>6. BatchesSound'
  BY <1>1 DEF BatchesSound, Unsettled, PredecessorDone
<1>7. AnswersSound'
  <2>1. \A p \in Places : p = c => reply[p] # "refused"
    BY <1>3 DEF AnswersSound
  <2> QED
    BY <1>1, <1>2, <2>1 DEF AnswersSound
<1>8. TurnSound'
  BY <1>1, <1>2, <1>3 DEF TurnSound, TypeOK
<1>9. BarrierSound'
  BY <1>1, <1>2 DEF BarrierSound, TypeOK
<1>10. PlacesFirst'
  <2>1. \A d \in Commands : posts[d] > 0 => posts'[d] > 0
    BY <1>2
  <2>2. ASSUME c \in Cancels, NEW p \in In(BatchOf[c]) \cap Places
        PROVE  posts'[p] > 0 \/ state'[p] = "cancelled"
    <3>1. p \in group \/ state[p] = "cancelled"
      BY <1>1, <1>3, <2>2 DEF BarrierSound
    <3>2. p \in group => wire[p] # "none"
      BY <1>1, <2>2 DEF BarrierSound
    <3>3. p \in group => posts[p] > 0
      BY <3>2 DEF RequestsSound
    <3> QED
      BY <1>1, <2>1, <3>1, <3>3
  <2>3. ASSUME NEW k \in Cancels, k # c, posts'[k] > 0, NEW p \in In(BatchOf[k]) \cap Places
        PROVE  posts'[p] > 0 \/ state'[p] = "cancelled"
    BY <1>1, <1>2, <2>1, <2>3 DEF PlacesFirst
  <2> QED
    BY <2>2, <2>3 DEF PlacesFirst
<1>11. ChainOrdered'
  <2>1. c \in Unsettled
    BY <1>3 DEF Unsettled
  <2>2. PredecessorDone(BatchOf[c])
    BY <2>1 DEF BatchesSound
  <2> QED
    BY <1>1, <1>2, <2>2 DEF ChainOrdered, Unsettled, PredecessorDone
<1>12. LiveOrdersOwned'
  BY <1>1, <1>2, <1>3 DEF LiveOrdersOwned, RequestsSound
<1> QED
  BY <1>4, <1>5, <1>6, <1>7, <1>8, <1>9, <1>10, <1>11, <1>12

(* A child of the burst moves on without a request leaving.                *)
LEMMA ChildStep ==
  ASSUME BatchInv, NEW c \in group, NEW next \in Results, step = "burst",
         child[c] \in {"ready", "entered"}, child' = [child EXCEPT ![c] = next],
         reply' \in Replies, \A d \in Commands : reply'[d] \in {reply[d], "none"},
         UNCHANGED << rows, instance, chain, step, group, wire, order, posts, bounds >>,
         c \in Places => /\ next \in {"accepted", "reconciled"} => order[c] # "none"
                         /\ next = "expired" => order[c] = "void"
                         /\ next = "rejected" => order[c] = "none" /\ wire[c] = "gone"
                         /\ next = "unsent" => wire[c] = "none",
         child[c] = "ready" => next = "unsent",
         c \in Cancels => /\ next \notin {"accepted", "expired"}
                          /\ next = "reconciled" => order[TargetOf[c]] \in {"filled", "void"}
  PROVE  BatchInv'
<1> USE RowsAre DEF BatchInv
<1>1. c \in Commands
  BY DEF TypeOK
<1>2. /\ child' \in Children /\ child'[c] = next
      /\ \A d \in Commands : d # c => child'[d] = child[d]
  BY <1>1 DEF TypeOK, Children
<1>3. UNCHANGED << state, owner, instance, tail, pred, queue, step, group, wire, order, posts, moves,
                   aborts >>
  BY DEF rows, chain, bounds
<1>4. AnswersSound'
  BY <1>2, <1>3 DEF AnswersSound
<1>5. next \notin {"none", "ready", "held", "entered"}
  BY DEF Results
<1>6. TurnSound'
  BY <1>1, <1>2, <1>3, <1>5 DEF TurnSound
<1>7. BarrierSound'
  <2>1. \A p \in group \cap Places :
           child'[p] # "held" /\ (wire[p] = "none" => child'[p] \in {"ready", "unsent"})
    <3>1. c \in Places /\ wire[c] = "none" => child[c] = "ready"
      BY DEF BarrierSound
    <3> QED
      BY <1>2, <1>5, <3>1 DEF BarrierSound
  <2>2. \A k \in Cancels : child'[k] = "ready" => child[k] = "ready"
    BY <1>2, <1>5
  <2> QED
    BY <1>3, <2>1, <2>2 DEF BarrierSound
<1> QED
  BY <1>2, <1>3, <1>4, <1>6, <1>7, QuietStep DEF TypeOK, rows, chain

(* A request fails before it leaves.                                       *)
LEMMA FailUnsentStep ==
  ASSUME BatchInv, NEW c \in Commands, FailUnsent(c)
  PROVE  BatchInv'
<1>1. c \in group /\ wire[c] = "none" /\ step = "burst"
  BY DEF BatchInv, TurnSound, FailUnsent
<1> QED
  BY <1>1, ChildStep DEF FailUnsent, Results, exchange, BatchInv, TypeOK, Replies

(* The answer, or its absence.                                             *)
LEMMA CompleteSendStep ==
  ASSUME BatchInv, NEW c \in Commands, CompleteSend(c)
  PROVE  BatchInv'
<1> USE RowsAre
<1>1. c \in group /\ step = "burst" /\ child[c] = "entered"
  BY DEF BatchInv, TurnSound, CompleteSend
<1>2. PICK res \in ResultOf(c) : child' = [child EXCEPT ![c] = res]
  BY DEF CompleteSend
<1>3. reply[c] \in {"none", "live", "void", "ended", "refused"}
  BY DEF BatchInv, TypeOK
<1>4. /\ res \in Results
      /\ res \notin {"unsent"}
      /\ res = "accepted" => reply[c] = "live"
      /\ res = "expired" => reply[c] = "void"
      /\ res = "reconciled" => reply[c] = "ended"
      /\ res = "rejected" => reply[c] = "refused"
  BY <1>3 DEF ResultOf, Results
<1>5. /\ c \in Places => /\ res \in {"accepted", "reconciled"} => order[c] # "none"
                         /\ res = "expired" => order[c] = "void"
                         /\ res = "rejected" => order[c] = "none" /\ wire[c] = "gone"
                         /\ res = "unsent" => wire[c] = "none"
      /\ c \in Cancels => /\ res \notin {"accepted", "expired"}
                          /\ res = "reconciled" => order[TargetOf[c]] \in {"filled", "void"}
  BY <1>4 DEF BatchInv, AnswersSound
<1>6. reply' \in Replies /\ \A d \in Commands : reply'[d] \in {reply[d], "none"}
  BY DEF CompleteSend, BatchInv, TypeOK, Replies
<1> QED
  BY <1>1, <1>2, <1>4, <1>5, <1>6, ChildStep DEF CompleteSend

(* The barrier opens: every placement of the group has left.               *)
LEMMA StartCancelsStep ==
  ASSUME BatchInv, StartCancels
  PROVE  BatchInv'
<1> USE RowsAre DEF BatchInv
<1>1. /\ UNCHANGED << state, owner, instance, tail, pred, queue, step, group, wire, order, reply, posts,
                      moves, aborts >>
      /\ step = "burst" /\ BarrierOpen
      /\ child' = [c \in Commands |-> IF c \in Held THEN "ready" ELSE child[c]]
  BY DEF StartCancels, rows, chain, exchange, bounds
<1>2. \A c \in Commands : child'[c] = IF child[c] = "held" THEN "ready" ELSE child[c]
  BY <1>1 DEF Held
<1>3. child' \in Children
  BY <1>1 DEF Children, TypeOK
<1>4. \A p \in Places : child'[p] = child[p]
  BY <1>1, <1>2 DEF BarrierSound, TurnSound
<1>5. AnswersSound'
  BY <1>1, <1>2, <1>4 DEF AnswersSound
<1>6. TurnSound'
  BY <1>1, <1>2 DEF TurnSound, TypeOK
<1>7. BarrierSound'
  BY <1>1, <1>4 DEF BarrierSound, BarrierOpen, TypeOK
<1> QED
  BY <1>1, <1>3, <1>5, <1>6, <1>7, QuietStep DEF TypeOK, Replies, rows, chain

(* The burst is over: cancels that were never started are not dispatched.  *)
LEMMA EndBurstStep ==
  ASSUME BatchInv, EndBurst
  PROVE  BatchInv'
<1> USE RowsAre DEF BatchInv
<1>1. /\ UNCHANGED << state, owner, instance, tail, pred, queue, group, wire, order, reply, posts,
                      moves, aborts >>
      /\ step = "burst" /\ step' = "settling"
      /\ \A c \in group : child[c] \notin {"ready", "entered"}
      /\ child' = [c \in Commands |-> IF c \in Held THEN "unsent" ELSE child[c]]
  BY DEF EndBurst, rows, chain, exchange, bounds
<1>2. \A c \in Commands : child'[c] = IF child[c] = "held" THEN "unsent" ELSE child[c]
  BY <1>1 DEF Held
<1>3. child' \in Children
  BY <1>1 DEF Children, TypeOK, Results
<1>4. \A p \in Places : child'[p] = child[p]
  BY <1>1, <1>2 DEF BarrierSound, TurnSound
<1>5. AnswersSound'
  BY <1>1, <1>2, <1>4 DEF AnswersSound
<1>6. TurnSound'
  <2>1. ASSUME NEW c \in group
        PROVE  c \in Commands /\ state[c] = "sending" /\ child'[c] \in Results
    <3>1. c \in Commands /\ state[c] = "sending" /\ child[c] # "none"
      BY <1>1 DEF TurnSound, TypeOK
    <3>2. child[c] \in {"none", "held", "ready", "entered"} \cup Results
      BY <3>1 DEF TypeOK
    <3>3. child[c] = "held" \/ child[c] \in Results
      BY <1>1, <3>1, <3>2
    <3> QED
      BY <1>2, <3>1, <3>3 DEF Results
  <2>2. \A c \in Commands : child'[c] # "none" => c \in group
    BY <1>2 DEF TurnSound
  <2> QED
    BY <1>1, <2>1, <2>2 DEF TurnSound
<1>7. BarrierSound'
  BY <1>1 DEF BarrierSound
<1> QED
  BY <1>1, <1>3, <1>5, <1>6, <1>7, QuietStep DEF TypeOK, Replies, rows, chain

-----------------------------------------------------------------------------
(* Settlement, recovery and readback.                                      *)

(* Ownership that is open is bound by the order; it, or that of an order   *)
(* that was cancelled, ends when no order rests or can come to.            *)
OwnersMove(c, next) ==
    \A p \in Places :
        \/ owner'[p] = owner[p]
        \/ owner[p] = "unbound" /\ owner'[p] = "bound" /\ order[p] # "none"
        \/ /\ owner'[p] = "terminal" /\ order[p] # "live" /\ wire[p] # "transit"
           /\ order[p] # "none" \/ (p = c /\ next = "rejected")

(* An unsettled row moves on.                                              *)
LEMMA RowStep ==
  ASSUME BatchInv, NEW c \in Commands,
         NEW next \in {"accepted", "reconcile_required", "rejected", "reconciled"},
         state[c] \in Unresolved, state' = [state EXCEPT ![c] = next], owner' \in Owners,
         OwnersMove(c, next),
         c \in Places /\ next \in {"rejected", "reconciled"} => wire[c] # "transit",
         c \in Places /\ next = "reconciled" => order[c] # "none",
         c \in Places /\ next = "rejected" => order[c] \in {"none", "void"},
         UNCHANGED << instance, chain, exchange, posts, bounds >>,
         child' = child \/ child' = [child EXCEPT ![c] = "none"],
         group' \subseteq group, step' \in {"idle", "settling", "read"},
         TurnSound'
  PROVE  BatchInv'
<1> USE RowsAre DEF BatchInv, OwnersMove
<1>1. UNCHANGED << instance, tail, pred, queue, wire, order, reply, posts, moves, aborts >>
  BY DEF chain, exchange, bounds
<1>2. /\ state' \in [Commands -> CommandState] /\ state'[c] = next
      /\ \A d \in Commands : d # c => state'[d] = state[d]
  BY DEF TypeOK
<1>3. /\ child' \in Children
      /\ \A d \in Commands : child'[d] \in {child[d], "none"}
  <2>1. CASE child' = child
    BY <2>1 DEF TypeOK, Children
  <2>2. CASE child' = [child EXCEPT ![c] = "none"]
    BY <2>2 DEF TypeOK, Children
  <2> QED
    BY <2>1, <2>2
<1>4. TypeOK'
  BY <1>1, <1>2, <1>3 DEF TypeOK, Children, Owners
<1>5. RequestsSound'
  BY <1>1, <1>2 DEF RequestsSound
<1>6. \A b \in Batches : PredecessorDone(b) => PredecessorDone(b)'
  <2> SUFFICES ASSUME NEW b \in Batches, PredecessorDone(b) PROVE PredecessorDone(b)'
    OBVIOUS
  <2>1. \A d \in In(pred[b]) : state[d] \in Terminal => state'[d] \in Terminal
    BY <1>2
  <2> QED
    BY <1>1, <2>1 DEF PredecessorDone
<1>7. \A d \in Unsettled' : d \in Unsettled
  BY <1>2 DEF Unsettled
<1>8. BatchesSound'
  <2>1. \A d \in Unsettled' : PredecessorDone(BatchOf[d])'
    BY <1>6, <1>7 DEF BatchesSound, Unsettled
  <2>2. \A k \in Cancels, p \in Places :
          (state'[k] = "pending" /\ BatchOf[p] = BatchOf[k]) => state'[p] \in {"pending", "cancelled"}
    BY <1>2 DEF BatchesSound
  <2> QED
    BY <1>1, <1>2, <2>1, <2>2 DEF BatchesSound
<1>9. AnswersSound'
  BY <1>1, <1>3 DEF AnswersSound
<1>10. BarrierSound'
  BY DEF BarrierSound
<1>11. PlacesFirst'
  BY <1>1, <1>2 DEF PlacesFirst
<1>12. ChainOrdered'
  BY <1>1, <1>6, <1>7 DEF ChainOrdered
<1>13. LiveOrdersOwned'
  BY <1>1 DEF LiveOrdersOwned
<1> QED
  BY <1>4, <1>5, <1>8, <1>9, <1>10, <1>11, <1>12, <1>13

(* What settle_with_execution makes of the ownership rows is sound if the  *)
(* verdict is true.                                                        *)
LEMMA TransitionFacts ==
  ASSUME BatchInv, NEW c \in Commands, NEW res,
         NEW next \in {"accepted", "reconcile_required", "rejected", "reconciled"},
         Transition(c, next, res),
         c \in Places /\ next = "reconciled" => order[c] # "none",
         c \in Places /\ next = "rejected" => order[c] \in {"none", "void"} /\ wire[c] # "transit",
         c \in Cancels /\ next = "reconciled" => order[TargetOf[c]] \in {"filled", "void"}
  PROVE  /\ state[c] \in SettleFrom(next) /\ state[c] \in Unresolved
         /\ state' = [state EXCEPT ![c] = next] /\ owner' \in Owners
         /\ OwnersMove(c, next)
         /\ c \in Places /\ next \in {"rejected", "reconciled"} => wire[c] # "transit"
<1> USE RowsAre DEF BatchInv
<1>1. /\ state[c] \in SettleFrom(next) /\ state' = [state EXCEPT ![c] = next]
      /\ owner' = OwnerAfter(c, next, res)
  BY DEF Transition
<1>2. state[c] \in Unresolved
  BY <1>1 DEF SettleFrom
<1>3. owner' \in Owners
  BY <1>1 DEF OwnerAfter, Owners, TypeOK
<1>4. ASSUME NEW p \in Places
      PROVE  \/ owner'[p] = owner[p]
             \/ owner[p] = "unbound" /\ owner'[p] = "bound" /\ order[p] # "none"
             \/ /\ owner'[p] = "terminal" /\ order[p] # "live" /\ wire[p] # "transit"
                /\ order[p] # "none" \/ (p = c /\ next = "rejected")
  <2> DEFINE A == next = "reconciled" /\ c = p /\ owner[p] = "unbound"
             B == next = "reconciled" /\ c \in Cancels /\ p = TargetOf[c]
             C == next = "rejected" /\ res # "expired" /\ c = p /\ owner[p] = "unbound"
  <2>0. owner'[p] = CASE A -> "bound" [] B -> "terminal" [] C -> "terminal" [] OTHER -> owner[p]
    BY <1>1 DEF OwnerAfter
  <2>1. CASE A
    <3>1. ~B /\ ~C
      BY <2>1
    <3>2. owner'[p] = "bound"
      BY <2>0, <2>1, <3>1
    <3> QED
      BY <2>1, <3>2
  <2>2. CASE B
    <3>1. ~A /\ ~C
      BY <2>2
    <3>2. owner'[p] = "terminal"
      BY <2>0, <2>2, <3>1
    <3>3. order[p] \in {"filled", "void"} /\ wire[p] = "gone"
      BY <2>2 DEF RequestsSound
    <3> QED
      BY <3>2, <3>3
  <2>3. CASE C
    <3>1. ~A /\ ~B
      BY <2>3
    <3>2. owner'[p] = "terminal"
      BY <2>0, <2>3, <3>1
    <3> QED
      BY <2>3, <3>2
  <2>4. CASE ~A /\ ~B /\ ~C
    <3> HIDE DEF A, B, C
    <3> QED
      BY <2>0, <2>4
  <2> HIDE DEF A, B, C
  <2> QED
    BY <2>1, <2>2, <2>3, <2>4
<1>5. c \in Places /\ next \in {"rejected", "reconciled"} => wire[c] # "transit"
  BY DEF RequestsSound
<1> QED
  BY <1>1, <1>2, <1>3, <1>4, <1>5 DEF OwnersMove
(* A row leaves the turn; the others stay as they are.                     *)
LEMMA LeaveStep ==
  ASSUME BatchInv, NEW c \in group, step \in {"settling", "read"}, Leave(c),
         NEW next, state' = [state EXCEPT ![c] = next], UNCHANGED wire
  PROVE  /\ child' = [child EXCEPT ![c] = "none"] /\ group' \subseteq group
         /\ step' \in {"idle", "settling", "read"} /\ TurnSound'
<1> USE DEF BatchInv
<1>1. /\ group' = group \ {c} /\ child' = [child EXCEPT ![c] = "none"]
      /\ step' = IF group' = {} THEN "idle" ELSE step
  BY DEF Leave
<1>2. group \subseteq Commands /\ child'[c] = "none"
  BY <1>1 DEF TypeOK
<1>3. \A d \in Commands : d # c => child'[d] = child[d] /\ state'[d] = state[d]
  BY <1>1, <1>2 DEF TypeOK
<1>4. step' \in {"idle", "settling", "read"} /\ (step' # "idle" => step' = step)
  BY <1>1
<1>5. \A d \in Commands : child'[d] # "none" => d \in group'
  BY <1>1, <1>2, <1>3 DEF TurnSound
<1>6. step' = "idle" => group' = {}
  BY <1>1
<1>7. \A d \in group' : d \in group /\ child'[d] = child[d] /\ state'[d] = state[d]
  BY <1>1, <1>2, <1>3
<1>8. TurnSound'
  BY <1>4, <1>5, <1>6, <1>7 DEF TurnSound
<1> QED
  BY <1>1, <1>4, <1>8

(* settle_with_execution of a child's result.                              *)
LEMMA SettleChildStep ==
  ASSUME BatchInv, NEW c \in Commands, SettleChild(c)
  PROVE  BatchInv'
<1> USE RowsAre
<1> DEFINE next == Settled(child[c])
<1>1. /\ step = "settling" /\ c \in group /\ state[c] = "sending"
      /\ Transition(c, next, child[c])
      /\ UNCHANGED << instance, chain, exchange, posts, bounds >>
  BY DEF SettleChild, FirstOfGroup
<1>2. child[c] \in Results
  BY <1>1 DEF BatchInv, TurnSound
<1>3. /\ next \in {"accepted", "reconcile_required", "rejected"}
      /\ next = "rejected" => child[c] \in {"rejected", "expired", "unsent"}
      /\ next = "accepted" => child[c] \in {"accepted", "reconciled"}
  BY <1>2 DEF Settled, Results
<1>4. c \in Places /\ next = "rejected" => order[c] \in {"none", "void"} /\ wire[c] # "transit"
  BY <1>3 DEF BatchInv, AnswersSound, RequestsSound
<1>5. IF next = "accepted" THEN UNCHANGED turn ELSE Leave(c)
  BY DEF SettleChild
<1> HIDE DEF next
<1>6. /\ state' = [state EXCEPT ![c] = next] /\ owner' \in Owners
      /\ OwnersMove(c, next)
  BY <1>1, <1>3, <1>4, TransitionFacts
<1>7. /\ child' = child \/ child' = [child EXCEPT ![c] = "none"]
      /\ group' \subseteq group /\ step' \in {"idle", "settling", "read"} /\ TurnSound'
  <2>1. CASE next = "accepted"
    <3>1. UNCHANGED << step, group, child, wire >>
      BY <1>1, <1>5, <2>1 DEF turn, exchange
    <3>2. state'[c] = "accepted" /\ \A d \in Commands : d # c => state'[d] = state[d]
      BY <1>6, <2>1 DEF BatchInv, TypeOK
    <3>3. TurnSound'
      BY <1>1, <1>3, <2>1, <3>1, <3>2 DEF BatchInv, TurnSound, TypeOK
    <3> QED
      BY <1>1, <3>1, <3>3
  <2>2. CASE next # "accepted"
    BY <1>1, <1>5, <1>6, <2>2, LeaveStep DEF exchange
  <2> QED
    BY <2>1, <2>2
<1>8. /\ state[c] \in Unresolved
      /\ next \in {"accepted", "reconcile_required", "rejected", "reconciled"}
  BY <1>1, <1>3 DEF Unresolved
<1>9. /\ c \in Places /\ next \in {"rejected", "reconciled"} => wire[c] # "transit"
      /\ c \in Places /\ next = "reconciled" => order[c] # "none"
      /\ c \in Places /\ next = "rejected" => order[c] \in {"none", "void"}
  BY <1>3, <1>4
<1>10. UNCHANGED << instance, chain, exchange, posts, bounds >>
  BY <1>1
<1> HIDE RowsAre
<1> QED
  BY <1>6, <1>7, <1>8, <1>9, <1>10, RowStep

(* The second transition of an accepted child.                             *)
LEMMA CompleteChildStep ==
  ASSUME BatchInv, NEW c \in Commands, CompleteChild(c)
  PROVE  BatchInv'
<1> USE RowsAre
<1>1. /\ step = "settling" /\ c \in group /\ state[c] = "accepted"
      /\ Transition(c, "reconciled", child[c]) /\ Leave(c)
      /\ UNCHANGED << instance, chain, exchange, posts, bounds >>
  BY DEF CompleteChild, FirstOfGroup
<1>2. child[c] \in {"accepted", "reconciled"}
  BY <1>1 DEF BatchInv, TurnSound
<1>3. /\ c \in Places => order[c] # "none"
      /\ c \in Cancels => order[TargetOf[c]] \in {"filled", "void"}
  BY <1>2 DEF BatchInv, AnswersSound
<1>4. /\ state' = [state EXCEPT ![c] = "reconciled"] /\ owner' \in Owners
      /\ OwnersMove(c, "reconciled")
      /\ c \in Places => wire[c] # "transit"
  BY <1>1, <1>3, TransitionFacts
<1>5. /\ child' = [child EXCEPT ![c] = "none"]
      /\ group' \subseteq group /\ step' \in {"idle", "settling", "read"} /\ TurnSound'
  BY <1>1, <1>4, LeaveStep DEF exchange
<1>6. state[c] \in Unresolved
  BY <1>1 DEF Unresolved
<1>7. UNCHANGED << instance, chain, exchange, posts, bounds >>
  BY <1>1
<1> HIDE RowsAre
<1> QED
  BY <1>3, <1>4, <1>5, <1>6, <1>7, RowStep

(* The verdict of a readback.                                              *)
LEMMA SettleReadStep ==
  ASSUME BatchInv, NEW c \in Commands, SettleRead(c)
  PROVE  BatchInv'
<1> USE RowsAre
<1> DEFINE next == ReadSettled(c)
<1>1. /\ step = "read" /\ c \in group
      /\ UNCHANGED << instance, chain, exchange, posts, bounds >>
  BY DEF SettleRead
<1>2. state[c] \in {"accepted", "reconcile_required"} /\ child[c] \in Results
  BY <1>1 DEF BatchInv, TurnSound
<1>3. /\ next \in {"reconcile_required", "rejected", "reconciled"}
      /\ next = "rejected" => child[c] = "expired"
      /\ next = "reconciled" => child[c] \in {"accepted", "reconciled"}
      /\ child[c] = "expired" /\ state[c] = "accepted" => next = "reconcile_required"
  BY <1>2 DEF ReadSettled, Results
<1>4. /\ c \in Places /\ next = "rejected" => order[c] \in {"none", "void"} /\ wire[c] # "transit"
      /\ c \in Places /\ next = "reconciled" => order[c] # "none"
      /\ c \in Cancels /\ next = "reconciled" => order[TargetOf[c]] \in {"filled", "void"}
  BY <1>3 DEF BatchInv, AnswersSound, RequestsSound
<1>5. IF child[c] = "expired" /\ state[c] = "accepted" THEN UNCHANGED turn ELSE Leave(c)
  BY DEF SettleRead
<1>6. IF DeferTo(state[c], next) THEN state' = [state EXCEPT ![c] = next] /\ UNCHANGED owner
      ELSE Transition(c, next, child[c])
  BY DEF SettleRead
<1> HIDE DEF next
<1>7. /\ state' = [state EXCEPT ![c] = next] /\ owner' \in Owners
      /\ OwnersMove(c, next)
      /\ c \in Places /\ next \in {"rejected", "reconciled"} => wire[c] # "transit"
  <2>1. CASE DeferTo(state[c], next)
    <3>1. next = "reconcile_required"
      BY <1>3, <2>1 DEF DeferTo
    <3>2. state' = [state EXCEPT ![c] = next] /\ UNCHANGED owner
      BY <1>6, <2>1
    <3> QED
      BY <3>1, <3>2 DEF BatchInv, TypeOK, Owners, OwnersMove
  <2>2. CASE ~DeferTo(state[c], next)
    <3>1. Transition(c, next, child[c])
      BY <1>6, <2>2
    <3> QED
      BY <1>3, <1>4, <3>1, TransitionFacts
  <2> QED
    BY <2>1, <2>2
<1>8. /\ child' = child \/ child' = [child EXCEPT ![c] = "none"]
      /\ group' \subseteq group /\ step' \in {"idle", "settling", "read"} /\ TurnSound'
  <2>1. CASE child[c] = "expired" /\ state[c] = "accepted"
    <3>1. UNCHANGED << step, group, child, wire >>
      BY <1>1, <1>5, <2>1 DEF turn, exchange
    <3>2. state'[c] = "reconcile_required" /\ \A d \in Commands : d # c => state'[d] = state[d]
      BY <1>3, <1>7, <2>1 DEF BatchInv, TypeOK
    <3>3. TurnSound'
      BY <1>1, <3>1, <3>2 DEF BatchInv, TurnSound, TypeOK
    <3> QED
      BY <1>1, <3>1, <3>3
  <2>2. CASE ~(child[c] = "expired" /\ state[c] = "accepted")
    <3>1. Leave(c)
      BY <1>5, <2>2
    <3> QED
      BY <1>1, <1>7, <3>1, LeaveStep DEF exchange
  <2> QED
    BY <2>1, <2>2
<1>9. /\ state[c] \in Unresolved
      /\ next \in {"accepted", "reconcile_required", "rejected", "reconciled"}
  BY <1>2, <1>3
<1>10. /\ c \in Places /\ next = "rejected" => order[c] \in {"none", "void"}
       /\ c \in Places /\ next = "reconciled" => order[c] # "none"
  BY <1>4
<1> HIDE DEF next
<1>11. UNCHANGED << instance, chain, exchange, posts, bounds >>
  BY <1>1
<1> HIDE RowsAre
<1> QED
  BY <1>7, <1>8, <1>9, <1>10, <1>11, RowStep

(* recover: a row that a lost turn left in sending has to be reconciled.   *)
LEMMA RecoverSendingStep ==
  ASSUME BatchInv, NEW c \in Commands, RecoverSending(c)
  PROVE  BatchInv'
<1>1. /\ step = "idle" /\ state[c] = "sending"
      /\ Transition(c, "reconcile_required", "none")
      /\ UNCHANGED << instance, chain, exchange, posts, bounds >>
      /\ UNCHANGED << step, group, child >>
  BY DEF RecoverSending, turn
<1>2. /\ state' = [state EXCEPT ![c] = "reconcile_required"] /\ owner' \in Owners
      /\ OwnersMove(c, "reconcile_required")
  BY <1>1, TransitionFacts
<1>3. TurnSound'
  BY <1>1 DEF BatchInv, TurnSound
<1>4. state[c] \in Unresolved
  BY <1>1 DEF Unresolved
<1>5. /\ child' = child /\ group' \subseteq group
      /\ step' \in {"idle", "settling", "read"}
      /\ UNCHANGED << instance, chain, exchange, posts, bounds >>
  BY <1>1
<1> QED
  BY <1>2, <1>3, <1>4, <1>5, RowStep

(* A readback holds what the exchange shows.                               *)
LEMMA ReadBackStep ==
  ASSUME BatchInv, NEW c \in Commands, ReadBack(c)
  PROVE  BatchInv'
<1> USE RowsAre DEF BatchInv
<1>1. /\ step = "idle" /\ group = {} /\ state[c] \in {"accepted", "reconcile_required"}
      /\ step' = "read" /\ group' = {c}
      /\ UNCHANGED << state, owner, instance, tail, pred, queue, wire, order, reply, posts, moves,
                      aborts >>
  BY DEF ReadBack, TurnSound, rows, chain, exchange, bounds
<1>2. PICK res \in Signed(c) \cup {"unknown"} : child' = [child EXCEPT ![c] = res]
  BY DEF ReadBack
<1>3. /\ res \in Results /\ res \notin {"unsent", "rejected"}
      /\ c \in Places => /\ res \in {"accepted", "reconciled"} => order[c] # "none"
                         /\ res = "expired" => order[c] = "void"
      /\ c \in Cancels => /\ res \in {"reconciled", "unknown"}
                          /\ res = "reconciled" => order[TargetOf[c]] \in {"filled", "void"}
  <2>1. CASE res = "unknown"
    BY <2>1 DEF Results
  <2>2. CASE c \in Cancels /\ res # "unknown"
    <3>1. res = "reconciled" /\ order[TargetOf[c]] # "live"
      BY <2>2 DEF Signed
    <3>2. order[TargetOf[c]] # "none"
      BY <1>1, <2>2 DEF RequestsSound
    <3>3. order[TargetOf[c]] \in {"none", "live", "filled", "void"}
      BY <2>2 DEF TypeOK
    <3> QED
      BY <2>2, <3>1, <3>2, <3>3 DEF Results
  <2>3. CASE c \in Places /\ res # "unknown"
    <3>1. order[c] \in {"none", "live", "filled", "void"}
      BY <2>3 DEF TypeOK
    <3> QED
      BY <2>3, <3>1 DEF Signed, Results
  <2> QED
    BY <2>1, <2>2, <2>3
<1>4. child' \in Children /\ child'[c] = res /\ \A d \in Commands : d # c => child'[d] = child[d]
  BY <1>2, <1>3 DEF TypeOK, Children
<1>5. AnswersSound'
  BY <1>1, <1>3, <1>4 DEF AnswersSound
<1>6. TurnSound'
  BY <1>1, <1>3, <1>4 DEF TurnSound, Results
<1>7. BarrierSound'
  BY <1>1 DEF BarrierSound
<1> QED
  BY <1>1, <1>4, <1>5, <1>6, <1>7, QuietStep DEF TypeOK, Replies, rows, chain

(* A crash or an error ends the turn and forgets its answers.              *)
LEMMA AbortTurnStep ==
  ASSUME BatchInv, AbortTurn
  PROVE  BatchInv'
<1> USE RowsAre DEF BatchInv
<1>1. /\ step' = "idle" /\ group' = {}
      /\ child' = [c \in Commands |-> "none"] /\ reply' = [c \in Commands |-> "none"]
      /\ UNCHANGED << state, owner, instance, tail, pred, queue, wire, order, posts, moves >>
      /\ aborts' \in Nat
  BY DEF AbortTurn, TypeOK, rows, chain
<1>2. child' \in Children /\ reply' \in Replies
  BY <1>1 DEF Children, Replies
<1>3. AnswersSound'
  BY <1>1 DEF AnswersSound
<1>4. TurnSound' /\ BarrierSound'
  BY <1>1 DEF TurnSound, BarrierSound
<1> QED
  BY <1>1, <1>2, <1>3, <1>4, QuietStep DEF rows, chain

-----------------------------------------------------------------------------
(* The exchange.                                                           *)

(* Requests arrive or are lost and orders come and end: only the exchange  *)
(* changes.  An order never returns to "none", a filled or void one stays. *)
LEMMA ExchangeStep ==
  ASSUME BatchInv, UNCHANGED << rows, instance, chain, turn, posts, bounds >>,
         wire' \in [Commands -> {"none", "transit", "gone"}],
         order' \in [Places -> {"none", "live", "filled", "void"}],
         reply' \in Replies,
         \A c \in Commands : wire'[c] = wire[c] \/ (wire[c] = "transit" /\ wire'[c] = "gone"),
         \A p \in Places : \/ order'[p] = order[p]
                           \/ order[p] = "none" /\ wire[p] = "transit" /\ wire'[p] = "gone"
                           \/ order[p] = "live" /\ order'[p] \in {"filled", "void"},
         \A p \in Places : \/ reply'[p] = reply[p]
                           \/ reply'[p] = "none"
                           \/ wire[p] = "transit" /\ reply'[p] = "live" /\ order'[p] # "none"
                           \/ wire[p] = "transit" /\ reply'[p] = "void" /\ order'[p] = "void"
                           \/ /\ wire[p] = "transit" /\ wire'[p] = "gone"
                              /\ reply'[p] = "refused" /\ order'[p] = "none",
         \A c \in Cancels : \/ reply'[c] = reply[c]
                            \/ reply'[c] \in {"none", "refused"}
                            \/ reply'[c] = "ended" /\ order'[TargetOf[c]] \in {"filled", "void"}
  PROVE  BatchInv'
<1> USE RowsAre DEF BatchInv
<1>1. UNCHANGED << state, owner, instance, tail, pred, queue, step, group, child, posts, moves,
                   aborts >>
  BY DEF rows, chain, turn, bounds
<1>2. TypeOK'
  BY <1>1 DEF TypeOK, Replies
<1>3. /\ \A c \in Commands : wire'[c] = "none" <=> wire[c] = "none"
      /\ \A c \in Commands : wire'[c] = "transit" => wire[c] = "transit"
      /\ \A c \in Commands : wire[c] = "gone" => wire'[c] = "gone"
  OBVIOUS
<1>4. \A p \in Places : /\ order[p] # "none" => order'[p] # "none" /\ wire[p] = "gone"
                        /\ order[p] \in {"filled", "void"} => order'[p] = order[p]
                        /\ wire[p] = "gone" /\ order[p] = "none" => order'[p] = "none"
                        /\ order'[p] # "none" => wire'[p] = "gone"
  BY DEF RequestsSound
<1>5. RequestsSound'
  BY <1>1, <1>3, <1>4 DEF RequestsSound
<1>6. BatchesSound'
  BY <1>1 DEF BatchesSound, Unsettled, PredecessorDone
<1>7. AnswersSound'
  BY <1>1, <1>3, <1>4 DEF AnswersSound
<1>8. TurnSound'
  BY <1>1, <1>3 DEF TurnSound, TypeOK
<1>9. BarrierSound'
  BY <1>1, <1>3 DEF BarrierSound, TypeOK
<1>10. PlacesFirst' /\ ChainOrdered'
  BY <1>1 DEF PlacesFirst, ChainOrdered, Unsettled, PredecessorDone
<1>11. LiveOrdersOwned'
  BY <1>1, <1>3, <1>4 DEF LiveOrdersOwned
<1> QED
  BY <1>2, <1>5, <1>6, <1>7, <1>8, <1>9, <1>10, <1>11
(* A placement arrives, or is refused.                                     *)
LEMMA DeliverPlaceStep ==
  ASSUME BatchInv, NEW p \in Places, DeliverPlace(p)
  PROVE  BatchInv'
<1> USE RowsAre DEF BatchInv
<1>1. /\ UNCHANGED << rows, instance, chain, turn, posts, bounds >>
      /\ wire[p] = "transit" /\ wire' = [wire EXCEPT ![p] = "gone"] /\ order[p] = "none"
  BY DEF DeliverPlace, RequestsSound
<1>2. PICK o \in {"none", "live", "void"}, r \in {"live", "void", "refused"} :
        /\ o = r \/ (o = "none" /\ r = "refused")
        /\ order' = [order EXCEPT ![p] = o] /\ reply' = Answered(p, r)
  <2>1. CASE \E o \in {"live", "void"} : order' = [order EXCEPT ![p] = o] /\ reply' = Answered(p, o)
    BY <2>1
  <2>2. CASE reply' = Answered(p, "refused") /\ UNCHANGED order
    <3>1. order' = [order EXCEPT ![p] = "none"]
      BY <1>1, <2>2 DEF TypeOK
    <3> QED
      BY <2>2, <3>1
  <2> QED
    BY <2>1, <2>2 DEF DeliverPlace
<1>3. /\ wire' \in [Commands -> {"none", "transit", "gone"}] /\ wire'[p] = "gone"
      /\ \A d \in Commands : d # p => wire'[d] = wire[d]
      /\ order' \in [Places -> {"none", "live", "filled", "void"}] /\ order'[p] = o
      /\ \A q \in Places : q # p => order'[q] = order[q]
  BY <1>1, <1>2 DEF TypeOK
<1>4. /\ reply' \in Replies /\ reply'[p] \in {r, "none"}
      /\ \A d \in Commands : d # p => reply'[d] = reply[d]
  BY <1>2 DEF TypeOK, Answered, Replies
<1>5. \A d \in Commands : wire'[d] = wire[d] \/ (wire[d] = "transit" /\ wire'[d] = "gone")
  BY <1>1, <1>2, <1>3
<1>6. \A q \in Places : \/ order'[q] = order[q]
                        \/ order[q] = "none" /\ wire[q] = "transit" /\ wire'[q] = "gone"
                        \/ order[q] = "live" /\ order'[q] \in {"filled", "void"}
  BY <1>1, <1>2, <1>3
<1>7. \A q \in Places : \/ reply'[q] = reply[q]
                        \/ reply'[q] = "none"
                        \/ wire[q] = "transit" /\ reply'[q] = "live" /\ order'[q] # "none"
                        \/ wire[q] = "transit" /\ reply'[q] = "void" /\ order'[q] = "void"
                        \/ /\ wire[q] = "transit" /\ wire'[q] = "gone"
                           /\ reply'[q] = "refused" /\ order'[q] = "none"
  BY <1>1, <1>2, <1>3, <1>4
<1>8. \A k \in Cancels : \/ reply'[k] = reply[k]
                         \/ reply'[k] \in {"none", "refused"}
                         \/ reply'[k] = "ended" /\ order'[TargetOf[k]] \in {"filled", "void"}
  BY <1>1, <1>2, <1>3, <1>4
<1> QED
  BY <1>1, <1>3, <1>4, <1>5, <1>6, <1>7, <1>8, ExchangeStep

(* A cancel arrives: it ends the order, or finds it gone.                  *)
LEMMA DeliverCancelStep ==
  ASSUME BatchInv, NEW c \in Cancels, DeliverCancel(c)
  PROVE  BatchInv'
<1> USE RowsAre DEF BatchInv
<1>1. /\ UNCHANGED << rows, instance, chain, turn, posts, bounds >>
      /\ wire[c] = "transit" /\ wire' = [wire EXCEPT ![c] = "gone"]
  BY DEF DeliverCancel
<1>2. PICK o \in {"none", "live", "filled", "void"}, r \in {"ended", "refused"} :
        /\ order[TargetOf[c]] = o \/ (order[TargetOf[c]] = "live" /\ o \in {"filled", "void"})
        /\ r = "ended" => o \in {"filled", "void"}
        /\ order' = [order EXCEPT ![TargetOf[c]] = o] /\ reply' = Answered(c, r)
  <2>1. CASE order[TargetOf[c]] = "live"
    BY <2>1 DEF DeliverCancel
  <2>2. CASE order[TargetOf[c]] # "live"
    <3>1. UNCHANGED order /\ reply' = Answered(c, "refused")
      BY <2>2 DEF DeliverCancel
    <3>2. order' = [order EXCEPT ![TargetOf[c]] = order[TargetOf[c]]]
      BY <3>1 DEF TypeOK
    <3>3. order[TargetOf[c]] \in {"none", "live", "filled", "void"}
      BY DEF TypeOK
    <3> QED
      BY <3>1, <3>2, <3>3
  <2> QED
    BY <2>1, <2>2
<1>3. /\ wire' \in [Commands -> {"none", "transit", "gone"}] /\ wire'[c] = "gone"
      /\ \A d \in Commands : d # c => wire'[d] = wire[d]
      /\ order' \in [Places -> {"none", "live", "filled", "void"}] /\ order'[TargetOf[c]] = o
      /\ \A q \in Places : q # TargetOf[c] => order'[q] = order[q]
  BY <1>1, <1>2 DEF TypeOK
<1>4. /\ reply' \in Replies /\ reply'[c] \in {r, "none"}
      /\ \A d \in Commands : d # c => reply'[d] = reply[d]
  BY <1>2 DEF TypeOK, Answered, Replies
<1>5. \A d \in Commands : wire'[d] = wire[d] \/ (wire[d] = "transit" /\ wire'[d] = "gone")
  BY <1>1, <1>2, <1>3
<1>6. \A q \in Places : \/ order'[q] = order[q]
                        \/ order[q] = "none" /\ wire[q] = "transit" /\ wire'[q] = "gone"
                        \/ order[q] = "live" /\ order'[q] \in {"filled", "void"}
  BY <1>1, <1>2, <1>3
<1>7. \A q \in Places : \/ reply'[q] = reply[q]
                        \/ reply'[q] = "none"
                        \/ wire[q] = "transit" /\ reply'[q] = "live" /\ order'[q] # "none"
                        \/ wire[q] = "transit" /\ reply'[q] = "void" /\ order'[q] = "void"
                        \/ /\ wire[q] = "transit" /\ wire'[q] = "gone"
                           /\ reply'[q] = "refused" /\ order'[q] = "none"
  BY <1>1, <1>2, <1>3, <1>4
<1>8. \A k \in Cancels : \/ reply'[k] = reply[k]
                         \/ reply'[k] \in {"none", "refused"}
                         \/ reply'[k] = "ended" /\ order'[TargetOf[k]] \in {"filled", "void"}
  BY <1>1, <1>2, <1>3, <1>4
<1> QED
  BY <1>1, <1>3, <1>4, <1>5, <1>6, <1>7, <1>8, ExchangeStep

(* A request is lost.                                                      *)
LEMMA LoseRequestStep ==
  ASSUME BatchInv, NEW c \in Commands, LoseRequest(c)
  PROVE  BatchInv'
<1>1. /\ UNCHANGED << rows, instance, chain, turn, posts, bounds >>
      /\ order' = order /\ reply' = reply
      /\ wire[c] = "transit" /\ wire' = [wire EXCEPT ![c] = "gone"]
  BY DEF LoseRequest
<1>2. /\ wire' \in [Commands -> {"none", "transit", "gone"}] /\ wire'[c] = "gone"
      /\ \A d \in Commands : d # c => wire'[d] = wire[d]
  BY <1>1 DEF BatchInv, TypeOK
<1>3. order' \in [Places -> {"none", "live", "filled", "void"}] /\ reply' \in Replies
  BY <1>1 DEF BatchInv, TypeOK, Replies
<1>4. \A d \in Commands : wire'[d] = wire[d] \/ (wire[d] = "transit" /\ wire'[d] = "gone")
  BY <1>1, <1>2
<1>5. /\ \A p \in Places : order'[p] = order[p] /\ reply'[p] = reply[p]
      /\ \A k \in Cancels : reply'[k] = reply[k]
  BY <1>1
<1> QED
  BY <1>1, <1>2, <1>3, <1>4, <1>5, ExchangeStep

(* An order fills, or ends unfilled.                                       *)
LEMMA OrderEndsStep ==
  ASSUME BatchInv, NEW p \in Places, OrderEnds(p)
  PROVE  BatchInv'
<1>1. /\ UNCHANGED << rows, instance, chain, turn, wire, reply, posts, bounds >>
      /\ order[p] = "live"
  BY DEF OrderEnds
<1>2. PICK o \in {"filled", "void"} : order' = [order EXCEPT ![p] = o]
  BY DEF OrderEnds
<1>3. /\ order' \in [Places -> {"none", "live", "filled", "void"}] /\ order'[p] = o
      /\ \A q \in Places : q # p => order'[q] = order[q]
  BY <1>2 DEF BatchInv, TypeOK
<1>4. wire' \in [Commands -> {"none", "transit", "gone"}] /\ reply' \in Replies
  BY <1>1 DEF BatchInv, TypeOK, Replies
<1>5. \A q \in Places : \/ order'[q] = order[q]
                        \/ order[q] = "none" /\ wire[q] = "transit" /\ wire'[q] = "gone"
                        \/ order[q] = "live" /\ order'[q] \in {"filled", "void"}
  BY <1>1, <1>3
<1> QED
  BY <1>1, <1>4, <1>3, <1>5, ExchangeStep

-----------------------------------------------------------------------------
(* The theorems.                                                           *)

(* Every step keeps the invariant.                                         *)
LEMMA BatchStep == BatchInv /\ [Next]_vars => BatchInv'
<1> SUFFICES ASSUME BatchInv, [Next]_vars PROVE BatchInv'
  OBVIOUS
<1>1. CASE TurnStep
  BY <1>1, RefuseBatchStep, PrepareStep, StartCancelsStep, EndBurstStep, EnterSendStep,
     FailUnsentStep, CompleteSendStep, SettleChildStep, CompleteChildStep, SettleReadStep
     DEF TurnStep
<1>2. CASE AbortTurn
  BY <1>2, AbortTurnStep
<1>3. ASSUME NEW b \in Batches, CommitPlan(b) \/ EnqueueBatch(b) PROVE BatchInv'
  BY <1>3, InsertStep
<1>4. ASSUME \/ \E action \in {"start", "resume"} : Activate(action)
             \/ \E action \in {"pause", "stop", "reset"} :
                  \E next \in {"paused", "stop_pending", "reset_required"} : Wind(action, next)
             \/ UpdateConfig \/ Ready \/ Block \/ NeedAttention \/ AutomaticReset \/ FinishWind
      PROVE  BatchInv'
  BY <1>4, LifecycleStep
<1>5. ASSUME NEW c \in Commands, Claim(c) \/ RecoverSending(c) \/ ReadBack(c) \/ LoseRequest(c)
      PROVE  BatchInv'
  BY <1>5, ClaimStep, RecoverSendingStep, ReadBackStep, LoseRequestStep
<1>6. ASSUME NEW p \in Places, SeeOrder(p) \/ SeeGone(p) \/ DeliverPlace(p) \/ OrderEnds(p)
      PROVE  BatchInv'
  BY <1>6, SeeStep, DeliverPlaceStep, OrderEndsStep
<1>7. ASSUME NEW c \in Cancels, DeliverCancel(c) PROVE BatchInv'
  BY <1>7, DeliverCancelStep
<1>8. CASE UNCHANGED vars
  <2>1. /\ UNCHANGED << rows, instance, chain, wire, order, posts, moves >>
        /\ UNCHANGED << step, group, child, reply, state, aborts >>
    BY <1>8 DEF vars, rows, turn, exchange, bounds
  <2>2. AnswersSound' /\ TurnSound' /\ BarrierSound'
    BY <2>1 DEF BatchInv, AnswersSound, TurnSound, BarrierSound
  <2> QED
    BY <2>1, <2>2, QuietStep DEF BatchInv, TypeOK, Children, Replies
<1> QED
  BY <1>1, <1>2, <1>3, <1>4, <1>5, <1>6, <1>7, <1>8 DEF Next

(* BatchInv holds in every reachable state, whatever the batches, the      *)
(* queue depth and the number of moves and aborts.                         *)
THEOREM BatchInvariant == Spec => []BatchInv
BY BatchInit, BatchStep, PTL DEF Spec

(* Rows, requests and turns stay in their types.                           *)
THEOREM BatchTypeCorrect == Spec => []TypeOK
<1>1. BatchInv => TypeOK
  BY DEF BatchInv
<1> QED
  BY <1>1, BatchInvariant, PTL

(* place_then_cancel: when a cancel has left, every placement of its batch *)
(* that was not withdrawn has left before it.                              *)
THEOREM BatchPlacesFirst == Spec => []PlacesFirst
<1>1. BatchInv => PlacesFirst
  BY DEF BatchInv
<1> QED
  BY <1>1, BatchInvariant, PTL

(* claim_next_batch: nothing of a batch leaves before its predecessor is   *)
(* settled, and the unsettled rows belong to one batch.                    *)
THEOREM BatchChainOrdered == Spec => []ChainOrdered
<1>1. BatchInv => ChainOrdered
  BY DEF BatchInv
<1> QED
  BY <1>1, BatchInvariant, PTL

(* settle_with_execution, cancel_pending_risk_commands and                 *)
(* synchronize_actual_surface never give up the ownership of an order that *)
(* rests or is still on its way.                                           *)
THEOREM BatchLiveOrdersOwned == Spec => []LiveOrdersOwned
<1>1. BatchInv => LiveOrdersOwned
  BY DEF BatchInv
<1> QED
  BY <1>1, BatchInvariant, PTL
-----------------------------------------------------------------------------
(* The refinement of CommandContract.                                      *)

(* The verdict on a placement agrees with the exchange (RequestsSound), so *)
(* its phases change as the contract has it.                               *)
LEMMA PhasesAre ==
  /\ Phase("absent") = "open" /\ Phase("pending") = "open"
  /\ Phase("cancelled") = "withdrawn"
  /\ \A s \in Unresolved : Phase(s) = "committed"
  /\ Phase("reconciled") = "done" /\ Phase("rejected") = "failed"
BY DEF Phase

(* What an admission, a claim, a pause, a stop or a reset may do to a row. *)
Decided(p) ==
  \/ state'[p] = state[p]
  \/ state[p] = "absent" /\ state'[p] = "pending"
  \/ state[p] = "pending" /\ state'[p] \in {"cancelled", "sending"}

(* The whole batch that is claimed, or all that is withdrawn, is one       *)
(* decision of the contract.                                               *)
LEMMA DecideRefines ==
  ASSUME UNCHANGED order, \A p \in New : Decided(p)
  PROVE  [Contract!ContractNext]_(Contract!contractVars)
<1> DEFINE ph == [p \in New |-> Phase(state[p])]
           ef == [p \in New |-> Effect(order[p])]
           W == { p \in New : state[p] = "pending" /\ state'[p] = "cancelled" }
           C == { p \in New : state[p] = "pending" /\ state'[p] = "sending" }
<1>1. ef' = ef
  OBVIOUS
<1>2. \A p \in W \cup C : ph[p] = "open"
  BY PhasesAre
<1>3. ASSUME NEW p \in New
      PROVE  Phase(state'[p]) =
             CASE p \in C -> "committed" [] p \in W \ C -> "withdrawn" [] OTHER -> Phase(state[p])
  <2>1. Decided(p)
    OBVIOUS
  <2>2. CASE p \in C
    BY PhasesAre, <2>2
  <2>3. CASE p \in W /\ p \notin C
    BY PhasesAre, <2>3
  <2>4. CASE p \notin W /\ p \notin C
    <3>1. state'[p] = state[p] \/ (state[p] = "absent" /\ state'[p] = "pending")
      BY <2>1, <2>4 DEF Decided
    <3>2. Phase(state'[p]) = Phase(state[p])
      BY PhasesAre, <3>1
    <3> QED
      BY <2>4, <3>2
  <2> QED
    BY <2>2, <2>3, <2>4
<1>4. ph' = [p \in New |-> CASE p \in C -> "committed" [] p \in W \ C -> "withdrawn" [] OTHER -> ph[p]]
  BY <1>3
<1>5. Contract!Decide(W, C)
  BY <1>1, <1>2, <1>4 DEF Contract!Decide
<1>6. W \in SUBSET New /\ C \in SUBSET New
  OBVIOUS
<1> QED
  BY <1>5, <1>6 DEF Contract!ContractNext

(* A transition of settle_with_execution is a verdict of the contract, or  *)
(* leaves the row committed.                                               *)
LEMMA TransitionRefines ==
  ASSUME BatchInv, BatchInv', NEW c \in Commands,
         NEW next \in {"accepted", "reconcile_required", "rejected", "reconciled"},
         state[c] \in Unresolved, state' = [state EXCEPT ![c] = next], UNCHANGED order
  PROVE  [Contract!ContractNext]_(Contract!contractVars)
<1> USE DEF BatchInv
<1> DEFINE ph == [p \in New |-> Phase(state[p])]
           ef == [p \in New |-> Effect(order[p])]
<1>1. ef' = ef
  OBVIOUS
<1>2. New \subseteq Places /\ New \subseteq Commands
  BY DEF New, Places
<1>3. state'[c] = next /\ \A p \in New : p # c => state'[p] = state[p]
  BY <1>2 DEF TypeOK
<1>4. Phase(state[c]) = "committed"
  BY PhasesAre
<1>5. CASE c \notin New \/ next \in Unresolved
  <2>1. \A p \in New : Phase(state'[p]) = Phase(state[p])
    BY PhasesAre, <1>3, <1>4, <1>5
  <2>2. ph' = ph
    BY <2>1
  <2> QED
    BY <1>1, <2>2 DEF Contract!contractVars
<1>6. CASE c \in New /\ next \notin Unresolved
  <2>1. ph' = [ph EXCEPT ![c] = Phase(next)]
    <3>1. \A p \in New : Phase(state'[p]) = IF p = c THEN Phase(next) ELSE Phase(state[p])
      BY <1>3
    <3>2. ph' = [p \in New |-> IF p = c THEN Phase(next) ELSE Phase(state[p])]
      BY <3>1
    <3> QED
      BY <3>2
  <2>2. ph[c] = "committed" /\ ef[c] = Effect(order[c])
    BY <1>4, <1>6
  <2>3. order[c] \in {"none", "live", "filled", "void"}
    BY <1>2, <1>6 DEF TypeOK
  <2>4. CASE next = "reconciled"
    <3>1. order[c] # "none"
      BY <1>2, <1>3, <1>6, <2>4 DEF RequestsSound
    <3>2. Phase(next) = "done" /\ Effect(order[c]) # "none"
      BY PhasesAre, <2>3, <2>4, <3>1 DEF Effect
    <3>3. Contract!Succeed(c)
      BY <1>1, <2>1, <2>2, <3>2 DEF Contract!Succeed
    <3> QED
      BY <1>6, <3>3 DEF Contract!ContractNext
  <2>5. CASE next = "rejected"
    <3>1. order[c] \in {"none", "void"}
      BY <1>2, <1>3, <1>6, <2>5 DEF RequestsSound
    <3>2. Phase(next) = "failed" /\ Effect(order[c]) # "alive"
      BY PhasesAre, <2>5, <3>1 DEF Effect
    <3>3. Contract!Fail(c)
      BY <1>1, <2>1, <2>2, <3>2 DEF Contract!Fail
    <3> QED
      BY <1>6, <3>3 DEF Contract!ContractNext
  <2> QED
    BY <1>6, <2>4, <2>5
<1> QED
  BY <1>5, <1>6

(* An order comes to be while its row is unsettled; a live one ends.       *)
LEMMA OrderRefines ==
  ASSUME BatchInv, NEW p \in Places, NEW o \in {"none", "live", "filled", "void"},
         order' = [order EXCEPT ![p] = o], UNCHANGED state,
         \/ order[p] = "none" /\ state[p] \in Unresolved
         \/ order[p] = "live" /\ o \in {"filled", "void"}
         \/ o = order[p]
  PROVE  [Contract!ContractNext]_(Contract!contractVars)
<1> DEFINE ph == [q \in New |-> Phase(state[q])]
           ef == [q \in New |-> Effect(order[q])]
<1>1. ph' = ph
  OBVIOUS
<1>2. order'[p] = o /\ \A q \in New : q # p => order'[q] = order[q]
  BY DEF BatchInv, TypeOK, New
<1>3. CASE p \notin New \/ Effect(o) = Effect(order[p])
  <2>1. \A q \in New : Effect(order'[q]) = Effect(order[q])
    BY <1>2, <1>3
  <2>2. ef' = ef
    BY <2>1
  <2> QED
    BY <1>1, <2>2 DEF Contract!contractVars
<1>4. CASE p \in New /\ Effect(o) # Effect(order[p])
  <2>1. ef' = [ef EXCEPT ![p] = Effect(o)]
    <3>1. \A q \in New : Effect(order'[q]) = IF q = p THEN Effect(o) ELSE Effect(order[q])
      BY <1>2
    <3>2. ef' = [q \in New |-> IF q = p THEN Effect(o) ELSE Effect(order[q])]
      BY <3>1
    <3> QED
      BY <3>2
  <2>2. ph[p] = Phase(state[p]) /\ ef[p] = Effect(order[p])
    BY <1>4
  <2>3. CASE order[p] = "none" /\ state[p] \in Unresolved
    <3>1. Phase(state[p]) = "committed" /\ Effect(order[p]) = "none" /\ Effect(o) \in {"alive", "dead"}
      BY PhasesAre, <1>4, <2>3 DEF Effect
    <3>2. Contract!TakeEffect(p)
      BY <1>1, <2>1, <2>2, <3>1 DEF Contract!TakeEffect
    <3> QED
      BY <1>4, <3>2 DEF Contract!ContractNext
  <2>4. CASE order[p] = "live" /\ o \in {"filled", "void"}
    <3>1. Effect(order[p]) = "alive" /\ Effect(o) = "dead"
      BY <1>4, <2>4 DEF Effect
    <3>2. Contract!EndUnfilled(p)
      BY <1>1, <2>1, <2>2, <3>1 DEF Contract!EndUnfilled
    <3> QED
      BY <1>4, <3>2 DEF Contract!ContractNext
  <2> QED
    BY <1>4, <2>3, <2>4
<1> QED
  BY <1>3, <1>4

(* Every step of the batches is a step of the contract, or none of its     *)
(* business.                                                               *)
LEMMA BatchStepRefines ==
  ASSUME BatchInv, BatchInv', [Next]_vars
  PROVE  [Contract!ContractNext]_(Contract!contractVars)
<1> USE RowsAre
<1>1. ASSUME UNCHANGED << state, order >>
      PROVE  [Contract!ContractNext]_(Contract!contractVars)
  BY <1>1 DEF Contract!contractVars
<1>2. ASSUME FenceRisk, UNCHANGED order
      PROVE  [Contract!ContractNext]_(Contract!contractVars)
  <2>1. \A p \in New : Decided(p)
    BY <1>2 DEF FenceRisk, Decided, New
  <2> QED
    BY <1>2, <2>1, DecideRefines
<1>3. ASSUME NEW b \in Batches, Insert(b), UNCHANGED order
      PROVE  [Contract!ContractNext]_(Contract!contractVars)
  <2>1. \A p \in New : Decided(p)
    BY <1>3 DEF Insert, Decided, New
  <2> QED
    BY <1>3, <2>1, DecideRefines
<1>4. ASSUME NEW c \in Commands, Claim(c)
      PROVE  [Contract!ContractNext]_(Contract!contractVars)
  <2>1. UNCHANGED order /\ group' = { d \in In(BatchOf[c]) : state[d] = "pending" /\ SeqOf[d] >= SeqOf[c] }
        /\ state' = [d \in Commands |-> IF d \in group' THEN "sending" ELSE state[d]]
    BY <1>4 DEF Claim, exchange
  <2>2. \A p \in New : Decided(p)
    BY <2>1 DEF Decided, New
  <2> QED
    BY <2>1, <2>2, DecideRefines
<1>5. ASSUME NEW c \in Commands,
             NEW next \in {"accepted", "reconcile_required", "rejected", "reconciled"},
             NEW res, Transition(c, next, res), UNCHANGED order
      PROVE  [Contract!ContractNext]_(Contract!contractVars)
  <2>1. state[c] \in Unresolved /\ state' = [state EXCEPT ![c] = next]
    BY <1>5 DEF Transition, SettleFrom
  <2> QED
    BY <1>5, <2>1, TransitionRefines
<1>6. CASE TurnStep
  <2>1. CASE RefuseBatch \/ Prepare \/ StartCancels \/ EndBurst
    BY <1>1, <2>1 DEF RefuseBatch, Prepare, StartCancels, EndBurst, rows, exchange
  <2>2. ASSUME NEW c \in Commands, EnterSend(c) \/ FailUnsent(c) \/ CompleteSend(c)
        PROVE  [Contract!ContractNext]_(Contract!contractVars)
    BY <1>1, <2>2 DEF EnterSend, FailUnsent, CompleteSend, rows, exchange
  <2>3. ASSUME NEW c \in Commands, SettleChild(c)
        PROVE  [Contract!ContractNext]_(Contract!contractVars)
    <3>1. /\ step = "settling" /\ c \in group /\ Transition(c, Settled(child[c]), child[c])
          /\ UNCHANGED order
      BY <2>3 DEF SettleChild, FirstOfGroup, exchange
    <3>2. child[c] \in Results
      BY <3>1 DEF BatchInv, TurnSound
    <3>3. Settled(child[c]) \in {"accepted", "reconcile_required", "rejected", "reconciled"}
      BY <3>2 DEF Settled, Results
    <3> QED
      BY <1>5, <3>1, <3>3
  <2>4. ASSUME NEW c \in Commands, CompleteChild(c)
        PROVE  [Contract!ContractNext]_(Contract!contractVars)
    BY <1>5, <2>4 DEF CompleteChild, exchange
  <2>5. ASSUME NEW c \in Commands, SettleRead(c)
        PROVE  [Contract!ContractNext]_(Contract!contractVars)
    <3>1. /\ step = "read" /\ c \in group /\ UNCHANGED order
          /\ IF DeferTo(state[c], ReadSettled(c))
               THEN state' = [state EXCEPT ![c] = ReadSettled(c)] /\ UNCHANGED owner
               ELSE Transition(c, ReadSettled(c), child[c])
      BY <2>5 DEF SettleRead, exchange
    <3>2. /\ state[c] \in Unresolved
          /\ ReadSettled(c) \in {"accepted", "reconcile_required", "rejected", "reconciled"}
      BY <3>1 DEF BatchInv, TurnSound, ReadSettled
    <3>3. state' = [state EXCEPT ![c] = ReadSettled(c)]
      BY <3>1 DEF Transition
    <3> QED
      BY <3>1, <3>2, <3>3, TransitionRefines
  <2> QED
    BY <1>6, <2>1, <2>2, <2>3, <2>4, <2>5 DEF TurnStep
<1>7. ASSUME NEW b \in Batches, CommitPlan(b) \/ EnqueueBatch(b)
      PROVE  [Contract!ContractNext]_(Contract!contractVars)
  BY <1>3, <1>7 DEF CommitPlan, EnqueueBatch, exchange
<1>8. CASE \E action \in {"pause", "stop", "reset"} :
             \E next \in {"paused", "stop_pending", "reset_required"} : Wind(action, next)
  BY <1>2, <1>8 DEF Wind, exchange
<1>9. CASE UpdateConfig \/ AutomaticReset
  BY <1>2, <1>9 DEF UpdateConfig, AutomaticReset, exchange
<1>10. CASE \/ AbortTurn \/ Ready \/ Block \/ NeedAttention \/ FinishWind
            \/ \E action \in {"start", "resume"} : Activate(action)
  BY <1>1, <1>10 DEF AbortTurn, Ready, Block, NeedAttention, FinishWind, Activate, rows, exchange
<1>11. ASSUME NEW c \in Commands, RecoverSending(c) \/ ReadBack(c) \/ LoseRequest(c)
       PROVE  [Contract!ContractNext]_(Contract!contractVars)
  <2>1. CASE RecoverSending(c)
    BY <1>5, <2>1 DEF RecoverSending, exchange
  <2>2. CASE ReadBack(c) \/ LoseRequest(c)
    BY <1>1, <2>2 DEF ReadBack, LoseRequest, rows, exchange
  <2> QED
    BY <1>11, <2>1, <2>2
<1>12. ASSUME NEW p \in Places, SeeOrder(p) \/ SeeGone(p)
       PROVE  [Contract!ContractNext]_(Contract!contractVars)
  BY <1>1, <1>12 DEF SeeOrder, SeeGone, exchange
<1>13. ASSUME NEW p \in Places, DeliverPlace(p)
       PROVE  [Contract!ContractNext]_(Contract!contractVars)
  <2>1. UNCHANGED state /\ wire[p] = "transit"
    BY <1>13 DEF DeliverPlace, rows
  <2>2. order[p] = "none" /\ state[p] \in Unresolved
    BY <2>1 DEF BatchInv, RequestsSound
  <2>3. UNCHANGED order \/ \E o \in {"live", "void"} : order' = [order EXCEPT ![p] = o]
    BY <1>13 DEF DeliverPlace
  <2> QED
    BY <1>1, <2>1, <2>2, <2>3, OrderRefines
<1>14. ASSUME NEW c \in Cancels, DeliverCancel(c)
       PROVE  [Contract!ContractNext]_(Contract!contractVars)
  <2>1. UNCHANGED state
    BY <1>14 DEF DeliverCancel, rows
  <2>2. \/ UNCHANGED order
        \/ /\ order[TargetOf[c]] = "live"
           /\ \E o \in {"filled", "void"} : order' = [order EXCEPT ![TargetOf[c]] = o]
    BY <1>14 DEF DeliverCancel
  <2> QED
    BY <1>1, <2>1, <2>2, OrderRefines
<1>15. ASSUME NEW p \in Places, OrderEnds(p)
       PROVE  [Contract!ContractNext]_(Contract!contractVars)
  <2>1. UNCHANGED state /\ order[p] = "live"
        /\ \E o \in {"filled", "void"} : order' = [order EXCEPT ![p] = o]
    BY <1>15 DEF OrderEnds, rows
  <2> QED
    BY <2>1, OrderRefines
<1>16. CASE UNCHANGED vars
  BY <1>1, <1>16 DEF vars, rows, exchange
<1> QED
  BY <1>4, <1>6, <1>7, <1>8, <1>9, <1>10, <1>11, <1>12, <1>13, <1>14, <1>15, <1>16 DEF Next

(* Every new placement keeps the contract of CommandContract: its order is *)
(* created at most once, between the claim of its batch and the verdict,   *)
(* and the verdict that submit_grid_batch, recover or a readback writes    *)
(* agrees with the exchange.                                               *)
THEOREM BatchKeepsContract == Spec => KeepsContract
<1>1. Init => Contract!ContractInit
  <2> SUFFICES ASSUME Init PROVE Contract!ContractInit
    OBVIOUS
  <2>1. \A p \in New : state[p] = "absent" /\ order[p] = "none"
    BY DEF Init, Initially, New, Places
  <2> QED
    BY PhasesAre, <2>1 DEF Contract!ContractInit, Effect
<1>2. BatchInv /\ BatchInv' /\ [Next]_vars => [Contract!ContractNext]_(Contract!contractVars)
  BY BatchStepRefines
<1> QED
  BY <1>1, <1>2, BatchInvariant, PTL DEF Spec, KeepsContract, Contract!ContractSpec

=============================================================================
