------------------------------ MODULE GridBatch ------------------------------
(***************************************************************************)
(* The mutation batches of one Binance Grid instance: admission in a chain *)
(* of batches (grid_store/hot_batch.rs), the claim of a whole batch        *)
(* (kol_executor.rs claim_next_batch), the burst that sends every          *)
(* placement before the first cancel (executor_exchange/grid_batch.rs),    *)
(* the settlement of its children one after the other                      *)
(* (executor_runtime.rs submit_grid_batch) and the ownership rows that     *)
(* follow them, under pauses, stops and resets of the instance.            *)
(*                                                                         *)
(* The account carries this instance only; what other origins add to the   *)
(* fence is in CommandLedger.  Which orders the planner wants is left out: *)
(* the batches are given, each is admitted at most once, as a new plan or  *)
(* as the rest of the present one.  The private projection that the        *)
(* runtime acts on is newer than the rows it judges (observed_ms >         *)
(* last_seen_ms), hence the exchange's present state here.                 *)
(***************************************************************************)
EXTENDS CommandStates, Naturals, Sequences, FiniteSets

CONSTANTS
    Batches,
    Commands,
    BatchOf,            \* grid_batch_id
    SeqOf,              \* dispatch_sequence: placements first, then cancels
    TargetOf,           \* of a cancel: the placement whose order it cancels
    Cancels,
    Resting,            \* placements of earlier plans whose orders rest at the start
    MaxQueueDepth,      \* MAX_ACCOUNT_QUEUE_DEPTH
    MaxMoves,           \* bound: requests of the user and outages explored
    MaxAborts,          \* bound: aborted turns explored
    NoBatch

Places == Commands \ Cancels
In(b) == { c \in Commands : BatchOf[c] = b }

ASSUME GridAssumption ==
    /\ Cancels \subseteq Commands
    /\ Resting \subseteq Places
    /\ \A c \in Commands : BatchOf[c] \in { BatchOf[p] : p \in Resting } => c \in Resting
    /\ BatchOf \in [Commands -> Batches]
    /\ SeqOf \in [Commands -> Nat]
    /\ TargetOf \in [Cancels -> Places]
    /\ \A c, d \in Commands :
        (c # d /\ BatchOf[c] = BatchOf[d]) =>
            /\ SeqOf[c] # SeqOf[d]
            /\ (c \in Places /\ d \in Cancels) => SeqOf[c] < SeqOf[d]
            /\ (c \in Cancels /\ d \in Cancels) => TargetOf[c] # TargetOf[d]
    /\ MaxQueueDepth \in Nat
    /\ MaxMoves \in Nat
    /\ MaxAborts \in Nat
    /\ NoBatch \notin Batches

VARIABLES
    state,              \* command_state of each row
    owner,              \* venue_binance_grid_order_owners, one row per placement
    instance,           \* instance_state
    tail,               \* grid_tail_batch_id
    pred,               \* predecessor_batch_id of each admitted batch
    queue,              \* admitted batches in created_ms order
    step,               \* where the account's turn stands
    group,              \* rows of the turn that are not settled yet
    child,              \* a row's progress and result within the turn
    wire, order, reply, \* the request, the order, the answer of the exchange
    posts,              \* history: physical requests per command
    moves, aborts       \* bound counters

rows == << state, owner >>
chain == << tail, pred, queue >>
turn == << step, group, child >>
exchange == << wire, order, reply >>
bounds == << moves, aborts >>
vars == << rows, instance, chain, turn, exchange, posts, bounds >>

(* GridInstanceState without draft.                                        *)
InstanceStates == {"start_pending", "running", "blocked", "paused", "stop_pending",
                   "stopped", "reset_required", "needs_attention"}
Results == {"accepted", "reconciled", "rejected", "expired", "unknown", "unsent"}

TypeOK ==
    /\ state \in [Commands -> CommandState]
    /\ owner \in [Places -> {"none", "unbound", "bound", "terminal"}]
    /\ instance \in InstanceStates
    /\ tail \in Batches \cup {NoBatch}
    /\ pred \in [Batches -> Batches \cup {NoBatch}]
    /\ queue \in Seq(Batches)
    /\ step \in {"idle", "claimed", "burst", "settling", "read"}
    /\ group \subseteq Commands
    /\ child \in [Commands -> {"none", "held", "ready", "entered"} \cup Results]
    /\ wire \in [Commands -> {"none", "transit", "gone"}]
    /\ order \in [Places -> {"none", "live", "filled", "void"}]
    /\ reply \in [Commands -> {"none", "live", "void", "ended", "refused"}]
    /\ posts \in [Commands -> Nat]
    /\ moves \in Nat
    /\ aborts \in Nat

(* A running instance.                                                     *)
Initially(c, early, fresh) == IF c \in Resting THEN early ELSE fresh

Init ==
    /\ state = [c \in Commands |-> Initially(c, "reconciled", "absent")]
    /\ owner = [p \in Places |-> Initially(p, "bound", "none")]
    /\ instance = "running"
    /\ tail = NoBatch
    /\ pred = [b \in Batches |-> NoBatch]
    /\ queue = << >>
    /\ step = "idle"
    /\ group = {}
    /\ child = [c \in Commands |-> "none"]
    /\ wire = [c \in Commands |-> Initially(c, "gone", "none")]
    /\ order = [p \in Places |-> Initially(p, "live", "none")]
    /\ reply = [c \in Commands |-> "none"]
    /\ posts = [c \in Commands |-> Initially(c, 1, 0)]
    /\ moves = 0
    /\ aborts = 0

-----------------------------------------------------------------------------
(* Admission of a batch by the grid runtime.                               *)

Depth == Cardinality({ c \in Commands : state[c] \in Nonterminal })

(* Receipt, rows and ownership in one transaction; a batch whose receipt   *)
(* exists is only replayed.  A cancel needs the native id of its order     *)
(* (load_cancel_native_id).                                                *)
Insert(b) ==
    /\ \A i \in DOMAIN queue : queue[i] # b
    /\ \A c \in In(b) : state[c] = "absent"
    /\ Depth + Cardinality(In(b)) <= MaxQueueDepth
    /\ \A c \in In(b) \cap Cancels : owner[TargetOf[c]] = "bound"
    /\ state' = [c \in Commands |-> IF c \in In(b) THEN "pending" ELSE state[c]]
    /\ owner' = [p \in Places |-> IF p \in In(b) THEN "unbound" ELSE owner[p]]
    /\ queue' = Append(queue, b)

(* commit_plan_mutation_batch: a new plan, chained to the instance's tail. *)
(* A plan that changes no order is committed too, without rows, and is the *)
(* tail from then on.                                                      *)
CommitPlan(b) ==
    /\ instance = "running"
    /\ Insert(b)
    /\ pred' = [pred EXCEPT ![b] = tail]
    /\ tail' = b
    /\ UNCHANGED << instance, turn, exchange, posts, bounds >>

(* enqueue_mutation_batch: the difference that is left of the present      *)
(* plan, outside the chain.                                                *)
CancelStates == {"running", "paused", "stop_pending", "blocked", "reset_required", "needs_attention"}

EnqueueBatch(b) ==
    /\ In(b) # {}
    /\ instance \in (IF In(b) \cap Places = {} THEN CancelStates ELSE {"running"})
    /\ Insert(b)
    /\ UNCHANGED << instance, tail, pred, turn, exchange, posts, bounds >>

-----------------------------------------------------------------------------
(* The instance's lifecycle.                                               *)

(* cancel_pending_risk_commands: what waits and would add risk is          *)
(* withdrawn; pending cancels stay.                                        *)
FenceRisk ==
    LET fenced == { p \in Places : state[p] = "pending" } IN
    /\ state' = [c \in Commands |-> IF c \in fenced THEN "cancelled" ELSE state[c]]
    /\ owner' = [p \in Places |-> IF p \in fenced /\ owner[p] = "unbound" THEN "terminal" ELSE owner[p]]

(* lifecycle_transition.                                                   *)
LifecycleNext ==
    [start  |-> {"stopped"},
     resume |-> {"paused"},
     pause  |-> {"running", "start_pending", "blocked", "reset_required", "needs_attention"},
     stop   |-> {"running", "start_pending", "paused", "blocked", "reset_required", "needs_attention"},
     reset  |-> {"running", "paused", "blocked", "needs_attention"}]

Activate(action) ==
    /\ action \in {"start", "resume"}
    /\ instance \in LifecycleNext[action]
    /\ instance' = "start_pending"
    /\ UNCHANGED << rows, chain, turn, exchange, posts, bounds >>

Wind(action, next) ==
    /\ moves < MaxMoves
    /\ << action, next >> \in {<< "pause", "paused" >>, << "stop", "stop_pending" >>,
                               << "reset", "reset_required" >>}
    /\ instance \in LifecycleNext[action]
    /\ FenceRisk
    /\ instance' = next
    /\ moves' = moves + 1
    /\ UNCHANGED << chain, turn, exchange, posts, aborts >>

(* update_config: a new revision withdraws what waits in the same way and  *)
(* leaves the instance in its state.                                       *)
UpdateConfig ==
    /\ moves < MaxMoves
    /\ instance \notin {"start_pending", "stop_pending"}
    /\ FenceRisk
    /\ moves' = moves + 1
    /\ UNCHANGED << instance, chain, turn, exchange, posts, aborts >>

(* settle_runtime_state: runtime_transition_allowed.                       *)
Ready ==
    /\ instance \in {"start_pending", "blocked"}
    /\ instance' = "running"
    /\ UNCHANGED << rows, chain, turn, exchange, posts, bounds >>

(* block_if_running: facts are missing or stale.                           *)
Block ==
    /\ moves < MaxMoves
    /\ instance \in {"start_pending", "running"}
    /\ instance' = "blocked"
    /\ moves' = moves + 1
    /\ UNCHANGED << rows, chain, turn, exchange, posts, aborts >>

(* settle_lifecycle_timeout, or a conflict on the surface.                 *)
NeedAttention ==
    /\ moves < MaxMoves
    /\ instance \in {"paused", "stop_pending", "reset_required"}
    /\ instance' = "needs_attention"
    /\ moves' = moves + 1
    /\ UNCHANGED << rows, chain, turn, exchange, posts, aborts >>

(* A convergence timeout, too many failures, an exchange rejection that is *)
(* 30 s old, a conflict on the surface, or the planner's verdict.          *)
AutomaticReset ==
    /\ instance \in {"start_pending", "running", "blocked"}
    /\ FenceRisk
    /\ instance' = "reset_required"
    /\ UNCHANGED << chain, turn, exchange, posts, bounds >>

(* finish_reset and finish_stop: nothing outstanding and a later           *)
(* projection shows no order of the instance.                              *)
Drained ==
    /\ \A c \in Commands : state[c] \notin Nonterminal
    /\ \A p \in Places : order[p] # "live"

FinishWind ==
    /\ instance \in {"reset_required", "stop_pending"}
    /\ Drained
    /\ instance' = IF instance = "stop_pending" THEN "stopped" ELSE "running"
    /\ UNCHANGED << rows, chain, turn, exchange, posts, bounds >>

(* synchronize_actual_surface: an order in the projection binds its owner, *)
(* a bound owner whose order is gone is terminal (also                     *)
(* refresh_allocated_owner_progress, once all of it is filled).            *)
SeeOrder(p) ==
    /\ instance \in {"start_pending", "running", "blocked"}
    /\ owner[p] = "unbound"
    /\ order[p] = "live"
    /\ owner' = [owner EXCEPT ![p] = "bound"]
    /\ UNCHANGED << state, instance, chain, turn, exchange, posts, bounds >>

(* Mutant: an owner without a native id is given up as well.               *)
SeeGoneUnbound(p) ==
    /\ instance \notin {"needs_attention", "stopped"}
    /\ owner[p] \in {"bound", "unbound"}
    /\ order[p] # "live"
    /\ owner' = [owner EXCEPT ![p] = "terminal"]
    /\ UNCHANGED << state, instance, chain, turn, exchange, posts, bounds >>

SeeGone(p) ==
    /\ instance \notin {"needs_attention", "stopped"}
    /\ owner[p] = "bound"
    /\ order[p] # "live"
    /\ owner' = [owner EXCEPT ![p] = "terminal"]
    /\ UNCHANGED << state, instance, chain, turn, exchange, posts, bounds >>

-----------------------------------------------------------------------------
(* The claim.                                                              *)

Unsettled == { c \in Commands : state[c] \in Unresolved }

WindingStates == {"paused", "stop_pending", "reset_required", "needs_attention"}

PredecessorDone(b) == pred[b] = NoBatch \/ \A c \in In(pred[b]) : state[c] \in Terminal

(* Mutants: unresolved rows are not waited for; a cancel waits for its      *)
(* placements in every state of the instance.                              *)
CandidateUnfenced(c) ==
    /\ state[c] = "pending"
    /\ PredecessorDone(BatchOf[c])
    /\ \/ c \in Cancels /\ instance \in WindingStates
       \/ \A p \in In(BatchOf[c]) \cap Places : SeqOf[p] < SeqOf[c] => state[p] = "reconciled"

CandidateStrict(c) ==
    /\ state[c] = "pending"
    /\ Unsettled = {}
    /\ PredecessorDone(BatchOf[c])
    /\ \A p \in In(BatchOf[c]) \cap Places : SeqOf[p] < SeqOf[c] => state[p] = "reconciled"

Candidate(c) ==
    /\ state[c] = "pending"
    /\ Unsettled = {}
    /\ PredecessorDone(BatchOf[c])
    /\ \/ c \in Cancels /\ instance \in WindingStates
       \/ \A p \in In(BatchOf[c]) \cap Places : SeqOf[p] < SeqOf[c] => state[p] = "reconciled"

(* ORDER BY created_ms, dispatch_sequence: the first candidate, and with   *)
(* it every pending row of its batch from its sequence on.                 *)
FirstCandidate(c) ==
    /\ Candidate(c)
    /\ \E i \in DOMAIN queue :
        /\ queue[i] = BatchOf[c]
        /\ \A j \in 1..(i - 1) : \A d \in In(queue[j]) : ~Candidate(d)
    /\ \A d \in In(BatchOf[c]) : SeqOf[d] < SeqOf[c] => ~Candidate(d)

Claim(c) ==
    /\ step = "idle"
    /\ FirstCandidate(c)
    /\ group' = { d \in In(BatchOf[c]) : state[d] = "pending" /\ SeqOf[d] >= SeqOf[c] }
    /\ state' = [d \in Commands |-> IF d \in group' THEN "sending" ELSE state[d]]
    /\ step' = "claimed"
    /\ UNCHANGED << owner, instance, chain, child, exchange, posts, bounds >>

-----------------------------------------------------------------------------
(* The burst.                                                              *)

(* Credentials, reservations, shape, rules or signing refuse the batch     *)
(* before anything is sent: every row is rejected.                         *)
RefuseBatch ==
    /\ step = "claimed"
    /\ step' = "settling"
    /\ child' = [c \in Commands |-> IF c \in group THEN "unsent" ELSE "none"]
    /\ UNCHANGED << rows, instance, chain, group, exchange, posts, bounds >>

(* prepare_grid_batch finds a cancelled order gone from the signed         *)
(* snapshot and has no request for it; prepare_hot_grid_batch takes no     *)
(* snapshot.                                                               *)
GoneTargets == { c \in group \cap Cancels : order[TargetOf[c]] # "live" }

Prepare ==
    /\ step = "claimed"
    /\ \E done \in {GoneTargets, {}} :
        child' = [c \in Commands |->
                    CASE c \in done                       -> "reconciled"
                      [] c \in group \cap Places          -> "ready"
                      [] c \in (group \cap Cancels) \ done -> "held"
                      [] OTHER                            -> "none"]
    /\ step' = "burst"
    /\ UNCHANGED << rows, instance, chain, group, exchange, posts, bounds >>

(* The send entry: the observer runs immediately before the request        *)
(* leaves; whether it arrives is the network's.                            *)
EnterSend(c) ==
    /\ step = "burst"
    /\ child[c] = "ready"
    /\ child' = [child EXCEPT ![c] = "entered"]
    /\ wire' = [wire EXCEPT ![c] = "transit"]
    /\ posts' = [posts EXCEPT ![c] = @ + 1]
    /\ UNCHANGED << rows, instance, chain, step, group, order, reply, bounds >>

FailUnsent(c) ==
    /\ step = "burst"
    /\ child[c] = "ready"
    /\ child' = [child EXCEPT ![c] = "unsent"]
    /\ UNCHANGED << rows, instance, chain, step, group, exchange, posts, bounds >>

(* PlaceSendBarrier: every placement of the burst has entered its send.    *)
(* A placement that completes without having entered keeps it shut.        *)
(* Mutant: a failed one counts as entered.                                 *)
BarrierOpenOnFailure == \A p \in group \cap Places : child[p] # "ready"

BarrierOpen == \A p \in group \cap Places : child[p] \notin {"ready", "unsent"}

Held == { c \in Commands : child[c] = "held" }

StartCancels ==
    /\ step = "burst"
    /\ Held # {}
    /\ BarrierOpen
    /\ child' = [c \in Commands |-> IF c \in Held THEN "ready" ELSE child[c]]
    /\ UNCHANGED << rows, instance, chain, step, group, exchange, posts, bounds >>

(* Mutant: a request without an answer counts as not sent.                 *)
ResultOfTimeoutUnsent(c) ==
    CASE reply[c] = "live"    -> {"accepted", "unknown"}
      [] reply[c] = "void"    -> {"expired", "unknown"}
      [] reply[c] = "ended"   -> {"reconciled", "unknown"}
      [] reply[c] = "refused" -> {"rejected", "unknown"}
      [] reply[c] = "none"    -> {"unsent"}

(* record_phase_results, grid_result_outcome: the answer carries the       *)
(* order's state.  A placement that rests is accepted, one that expired at *)
(* once (post-only) rejected with its native id; an order the cancel ended *)
(* is reconciled.  Anything else, and any late or lost answer, is unknown. *)
ResultOf(c) ==
    CASE reply[c] = "live"    -> {"accepted", "unknown"}
      [] reply[c] = "void"    -> {"expired", "unknown"}
      [] reply[c] = "ended"   -> {"reconciled", "unknown"}
      [] reply[c] = "refused" -> {"rejected", "unknown"}
      [] reply[c] = "none"    -> {"unknown"}

CompleteSend(c) ==
    /\ step = "burst"
    /\ child[c] = "entered"
    /\ \E res \in ResultOf(c) : child' = [child EXCEPT ![c] = res]
    /\ reply' = [reply EXCEPT ![c] = "none"]
    /\ UNCHANGED << rows, instance, chain, step, group, wire, order, posts, bounds >>

(* No request is in flight; cancels that were never started are reported   *)
(* as not dispatched.                                                      *)
EndBurst ==
    /\ step = "burst"
    /\ \A c \in group : child[c] \notin {"ready", "entered"}
    /\ Held = {} \/ ~BarrierOpen
    /\ step' = "settling"
    /\ child' = [c \in Commands |-> IF c \in Held THEN "unsent" ELSE child[c]]
    /\ UNCHANGED << rows, instance, chain, group, exchange, posts, bounds >>

-----------------------------------------------------------------------------
(* Settlement, a transaction per row and transition, in dispatch order.    *)

(* synchronize_grid_owner and terminalize_unsubmitted_grid_owner within    *)
(* settle_with_execution; a rejection that carries a native id leaves the  *)
(* ownership to the projection.                                            *)
OwnerAfter(c, next, res) ==
    [p \in Places |->
        CASE next = "reconciled" /\ c = p /\ owner[p] = "unbound"             -> "bound"
          [] next = "reconciled" /\ c \in Cancels /\ p = TargetOf[c]          -> "terminal"
          [] next = "rejected" /\ res # "expired" /\ c = p /\ owner[p] = "unbound" -> "terminal"
          [] OTHER                                                           -> owner[p]]

Transition(c, next, res) ==
    /\ state[c] \in SettleFrom(next)
    /\ state' = [state EXCEPT ![c] = next]
    /\ owner' = OwnerAfter(c, next, res)

Settled(res) ==
    CASE res \in {"rejected", "expired", "unsent"} -> "rejected"
      [] res = "unknown"                           -> "reconcile_required"
      [] res \in {"accepted", "reconciled"}        -> "accepted"

FirstOfGroup(c) == c \in group /\ \A d \in group : SeqOf[c] <= SeqOf[d]

Leave(c) ==
    /\ group' = group \ {c}
    /\ child' = [child EXCEPT ![c] = "none"]
    /\ step' = IF group' = {} THEN "idle" ELSE step

SettleChild(c) ==
    /\ step = "settling"
    /\ FirstOfGroup(c)
    /\ state[c] = "sending"
    /\ Transition(c, Settled(child[c]), child[c])
    /\ IF Settled(child[c]) = "accepted" THEN UNCHANGED turn ELSE Leave(c)
    /\ UNCHANGED << instance, chain, exchange, posts, bounds >>

CompleteChild(c) ==
    /\ step = "settling"
    /\ FirstOfGroup(c)
    /\ state[c] = "accepted"
    /\ Transition(c, "reconciled", child[c])
    /\ Leave(c)
    /\ UNCHANGED << instance, chain, exchange, posts, bounds >>

(* A crash, a shutdown, or an error that ends the turn.                    *)
AbortTurn ==
    /\ step # "idle"
    /\ aborts < MaxAborts
    /\ aborts' = aborts + 1
    /\ step' = "idle"
    /\ group' = {}
    /\ child' = [c \in Commands |-> "none"]
    /\ reply' = [c \in Commands |-> "none"]
    /\ UNCHANGED << rows, instance, chain, wire, order, posts, moves >>

-----------------------------------------------------------------------------
(* Recovery and readback, as in CommandLedger.                             *)

RecoverSending(c) ==
    /\ step = "idle"
    /\ state[c] = "sending"
    /\ Transition(c, "reconcile_required", "none")
    /\ UNCHANGED << instance, chain, turn, exchange, posts, bounds >>

Signed(c) ==
    IF c \in Cancels
      THEN IF order[TargetOf[c]] = "live" THEN {} ELSE {"reconciled"}
      ELSE CASE order[c] = "none"   -> {}
             [] order[c] = "live"   -> {"accepted"}
             [] order[c] = "filled" -> {"reconciled"}
             [] order[c] = "void"   -> {"expired"}

(* A readback that shows a cancel's order still live, or that lacks        *)
(* credentials, only moves the row's deadline and is left out.             *)
ReadBack(c) ==
    /\ step = "idle"
    /\ state[c] \in {"accepted", "reconcile_required"}
    /\ \E res \in Signed(c) \cup {"unknown"} : child' = [child EXCEPT ![c] = res]
    /\ step' = "read"
    /\ group' = {c}
    /\ UNCHANGED << rows, instance, chain, exchange, posts, bounds >>

(* The rejection of an accepted row takes two transactions.                *)
ReadSettled(c) ==
    CASE child[c] \in {"accepted", "reconciled"}              -> "reconciled"
      [] child[c] = "expired" /\ state[c] # "accepted"        -> "rejected"
      [] OTHER                                                -> "reconcile_required"

SettleRead(c) ==
    /\ step = "read"
    /\ c \in group
    /\ IF DeferTo(state[c], ReadSettled(c))
         THEN state' = [state EXCEPT ![c] = ReadSettled(c)] /\ UNCHANGED owner
         ELSE Transition(c, ReadSettled(c), child[c])
    /\ IF child[c] = "expired" /\ state[c] = "accepted" THEN UNCHANGED turn ELSE Leave(c)
    /\ UNCHANGED << instance, chain, exchange, posts, bounds >>

-----------------------------------------------------------------------------
(* The exchange and the network (external).  An answer is kept as long as   *)
(* the sender waits for it.                                                *)
Answered(c, r) == [reply EXCEPT ![c] = IF child[c] = "entered" THEN r ELSE "none"]

DeliverPlace(p) ==
    /\ wire[p] = "transit"
    /\ wire' = [wire EXCEPT ![p] = "gone"]
    /\ \/ \E o \in {"live", "void"} :
            /\ order' = [order EXCEPT ![p] = o]
            /\ reply' = Answered(p, o)
       \/ /\ reply' = Answered(p, "refused")
          /\ UNCHANGED order
    /\ UNCHANGED << rows, instance, chain, turn, posts, bounds >>

DeliverCancel(c) ==
    /\ wire[c] = "transit"
    /\ wire' = [wire EXCEPT ![c] = "gone"]
    /\ IF order[TargetOf[c]] = "live"
         THEN /\ \E o \in {"filled", "void"} : order' = [order EXCEPT ![TargetOf[c]] = o]
              /\ reply' = Answered(c, "ended")
         ELSE /\ reply' = Answered(c, "refused")
              /\ UNCHANGED order
    /\ UNCHANGED << rows, instance, chain, turn, posts, bounds >>

LoseRequest(c) ==
    /\ wire[c] = "transit"
    /\ wire' = [wire EXCEPT ![c] = "gone"]
    /\ UNCHANGED << rows, instance, chain, turn, order, reply, posts, bounds >>

OrderEnds(p) ==
    /\ order[p] = "live"
    /\ \E o \in {"filled", "void"} : order' = [order EXCEPT ![p] = o]
    /\ UNCHANGED << rows, instance, chain, turn, wire, reply, posts, bounds >>

-----------------------------------------------------------------------------
TurnStep ==
    \/ RefuseBatch
    \/ Prepare
    \/ StartCancels
    \/ EndBurst
    \/ \E c \in Commands :
        \/ EnterSend(c)
        \/ FailUnsent(c)
        \/ CompleteSend(c)
        \/ SettleChild(c)
        \/ CompleteChild(c)
        \/ SettleRead(c)

Next ==
    \/ TurnStep
    \/ AbortTurn
    \/ \E b \in Batches : CommitPlan(b) \/ EnqueueBatch(b)
    \/ \E action \in {"start", "resume"} : Activate(action)
    \/ \E action \in {"pause", "stop", "reset"} :
        \E next \in {"paused", "stop_pending", "reset_required"} : Wind(action, next)
    \/ UpdateConfig
    \/ Ready
    \/ Block
    \/ NeedAttention
    \/ AutomaticReset
    \/ FinishWind
    \/ \E c \in Commands :
        \/ Claim(c)
        \/ RecoverSending(c)
        \/ ReadBack(c)
        \/ LoseRequest(c)
    \/ \E p \in Places :
        \/ SeeOrder(p)
        \/ SeeGone(p)
        \/ DeliverPlace(p)
        \/ OrderEnds(p)
    \/ \E c \in Cancels : DeliverCancel(c)

Spec == Init /\ [][Next]_vars

(* The executor keeps claiming, a turn's steps end, and an instance whose  *)
(* commands stay outstanding is reset when its convergence timeout, or the *)
(* 30 s after a rejection, run out.                                        *)
Fairness ==
    /\ WF_vars(TurnStep)
    /\ WF_vars(\E c \in Commands : Claim(c))
    /\ WF_vars(AutomaticReset /\ \E c \in Commands : state[c] \in Nonterminal)

FairSpec == Spec /\ Fairness

-----------------------------------------------------------------------------
(* Properties.                                                             *)

(* The barrier: when a cancel has left, every placement of its batch has   *)
(* left before it, so the grid is never thinned out before its replacement *)
(* is on the way; only placements that a pause, stop, reset or new         *)
(* configuration withdrew are excepted.  Across failures of single         *)
(* children, crashes and restarts.                                         *)
PlacesFirst ==
    \A c \in Cancels : posts[c] > 0 =>
        \A p \in In(BatchOf[c]) \cap Places : posts[p] > 0 \/ state[p] = "cancelled"

(* The chain: nothing of a plan's batch leaves before every row of the     *)
(* batch it was chained to is reconciled, rejected or withdrawn, and at    *)
(* any time the unsettled rows belong to one batch.  Behind a plan without *)
(* rows there is nothing to wait for.                                      *)
ChainOrdered ==
    /\ \A c \in Commands : posts[c] > 0 => PredecessorDone(BatchOf[c])
    /\ \A c, d \in Unsettled : BatchOf[c] = BatchOf[d]

(* What docs/GRID_RUNTIME_REFACTOR.md says of the chain.                   *)
(* Line 115: a later batch may be claimed only once the commands of the    *)
(* batch before it are all Reconciled.  The claim takes rejected and       *)
(* cancelled rows for done as well.                                        *)
ChainReconciled ==
    \A c \in Commands : (posts[c] > 0 /\ pred[BatchOf[c]] # NoBatch) =>
        \A d \in In(pred[BatchOf[c]]) : state[d] = "reconciled"

(* Line 111: a plan whose difference is zero writes a batch of no commands *)
(* so that its commit can be audited, and line 115 keeps the batches in    *)
(* order.  It becomes the tail, and what follows it does not wait for the  *)
(* batch before it.                                                        *)
EmptyPlanKeepsOrder ==
    \A c \in Commands : LET b == pred[BatchOf[c]] IN
        (posts[c] > 0 /\ b # NoBatch /\ In(b) = {}) => PredecessorDone(b)

(* An order that rests at the exchange, or may still arrive there, has a   *)
(* working ownership row, without which the grid would neither count nor   *)
(* cancel it.                                                              *)
LiveOrdersOwned ==
    \A p \in Places :
        (order[p] = "live" \/ wire[p] = "transit") => owner[p] \in {"unbound", "bound"}

(* Every new placement keeps the contract of CommandContract: admitted in  *)
(* a batch, sent in a burst or withdrawn by a pause, it is reported as the *)
(* exchange has it.                                                        *)
Phase(s) ==
    CASE s \in {"absent", "pending"} -> "open"
      [] s \in Unresolved           -> "committed"
      [] s = "cancelled"            -> "withdrawn"
      [] s = "reconciled"           -> "done"
      [] s = "rejected"             -> "failed"

Effect(o) ==
    CASE o = "none"               -> "none"
      [] o \in {"live", "filled"} -> "alive"
      [] o = "void"               -> "dead"

New == Places \ Resting
Contract == INSTANCE CommandContract WITH
    Placements <- New,
    phase <- [p \in New |-> Phase(state[p])],
    effect <- [p \in New |-> Effect(order[p])]
KeepsContract == Contract!ContractSpec

(* A pause withdraws the placements of a batch and leaves its cancels      *)
(* behind; a resume before they are claimed, or a new configuration of a   *)
(* running instance, makes them wait for placements that will never be     *)
(* reconciled, and the chain waits for them.  They get out: as long as     *)
(* nothing unsettled fences the account, a waiting cancel is claimed in    *)
(* the end.                                                                *)
Waiting == \E c \in Cancels : state[c] = "pending"
CancelsGetOut == (Waiting /\ Unsettled = {}) ~> (~Waiting \/ Unsettled # {})

-----------------------------------------------------------------------------
(* The inductive invariant behind PlacesFirst, ChainOrdered,               *)
(* LiveOrdersOwned and KeepsContract.                                      *)

\* Rows, requests, orders and ownership: what was never claimed was never
\* sent, a request under way belongs to an unsettled row, an order needs a
\* request that arrived, ownership starts open and is bound by an order, and the
\* verdict on a placement agrees with the exchange.
RequestsSound ==
    /\ \A c \in Commands :
        /\ posts[c] > 0 <=> wire[c] # "none"
        /\ state[c] \in {"absent", "pending", "cancelled"} => wire[c] = "none"
    /\ \A p \in Places :
        /\ order[p] # "none" => wire[p] = "gone"
        /\ wire[p] = "transit" => state[p] \in Unresolved
        /\ (state[p] \in Nonterminal /\ order[p] = "none") => owner[p] = "unbound"
        /\ owner[p] = "bound" => order[p] # "none"
        /\ state[p] = "reconciled" => order[p] # "none"
        /\ state[p] = "rejected" => order[p] \in {"none", "void"}
    /\ \A c \in Cancels : state[c] # "absent" => order[TargetOf[c]] # "none"

\* A cancel that waits has seen none of its placements claimed, a winding
\* instance has no placement waiting, and a claimed batch has its turn.
BatchesSound ==
    /\ \A k \in Cancels, p \in Places :
        (state[k] = "pending" /\ BatchOf[p] = BatchOf[k]) => state[p] \in {"pending", "cancelled"}
    /\ instance \in WindingStates => \A p \in Places : state[p] # "pending"
    /\ \A c \in Unsettled : PredecessorDone(BatchOf[c])

\* What an answer, and the result made of it, say of the exchange stays true.
AnswersSound ==
    /\ \A p \in Places :
        /\ reply[p] # "ended"
        /\ reply[p] = "live" => order[p] # "none"
        /\ reply[p] = "void" => order[p] = "void"
        /\ reply[p] = "refused" => order[p] = "none" /\ wire[p] = "gone"
        /\ child[p] \in {"accepted", "reconciled"} => order[p] # "none"
        /\ child[p] = "expired" => order[p] = "void"
        /\ child[p] = "rejected" => order[p] = "none" /\ wire[p] = "gone"
        /\ child[p] = "unsent" => wire[p] = "none"
    /\ \A c \in Cancels :
        /\ reply[c] \notin {"live", "void"}
        /\ reply[c] = "ended" => order[TargetOf[c]] \in {"filled", "void"}
        /\ child[c] \notin {"accepted", "expired"}
        /\ child[c] = "reconciled" => order[TargetOf[c]] \in {"filled", "void"}

\* The rows of a turn, from the claim to the last settlement.
TurnSound ==
    /\ step = "idle" => group = {}
    /\ \A c \in Commands : child[c] # "none" => c \in group
    /\ \A c \in group :
        /\ step = "claimed" => state[c] = "sending" /\ wire[c] = "none"
        /\ step = "burst" => /\ state[c] = "sending" /\ child[c] # "none"
                             /\ child[c] \in {"ready", "held"} => wire[c] = "none"
        /\ step = "settling" => /\ state[c] \in {"sending", "accepted"} /\ child[c] \in Results
                                /\ state[c] = "accepted" => child[c] \in {"accepted", "reconciled"}
        /\ step = "read" => state[c] \in {"accepted", "reconcile_required"} /\ child[c] \in Results

\* The group of a claim holds with a cancel all placements of its batch that
\* were not withdrawn, and its cancels wait until each of them has left.
BarrierSound ==
    /\ step \in {"claimed", "burst"} =>
        \A c \in group \cap Cancels : \A p \in In(BatchOf[c]) \cap Places :
            p \in group \/ state[p] = "cancelled"
    /\ step = "burst" =>
        /\ \A p \in group \cap Places :
            child[p] # "held" /\ (wire[p] = "none" => child[p] \in {"ready", "unsent"})
        /\ (\E c \in Cancels : child[c] = "ready") => \A p \in group \cap Places : wire[p] # "none"

BatchInv ==
    /\ TypeOK
    /\ RequestsSound /\ BatchesSound /\ AnswersSound /\ TurnSound /\ BarrierSound
    /\ PlacesFirst /\ ChainOrdered /\ LiveOrdersOwned

=============================================================================
