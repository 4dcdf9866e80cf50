---------------------------- MODULE GridLifecycle ----------------------------
(***************************************************************************)
(* The lifecycle of one Binance Grid instance as the runtime's turns drive *)
(* it (grid_runtime.rs, grid_runtime/reconcile.rs) over rows that the user *)
(* (grid_store.rs), the hot path and the executor change meanwhile, and    *)
(* over a private projection that lags behind the exchange.                *)
(*                                                                         *)
(* A turn reads the instance, then the projection and the ownership rows,  *)
(* then the commands, and writes at the end; anything may happen between   *)
(* those reads.  Times in milliseconds are compared all along the turn:    *)
(* projection.observed_ms with updated_ms of commands and of the instance  *)
(* and with last_seen_ms of ownership rows.  The module keeps no clock: it *)
(* keeps, for a projection, the set of stamps that are NOT older than it   *)
(* (stamp >= observed_ms), which is all the comparisons ask.  A stamp made *)
(* in the millisecond in which a snapshot starts is one made just after.   *)
(*                                                                         *)
(* Which orders the planner wants, quantities and prices are left out; the *)
(* executor's turns are those of GridBatch, here one row at a time.        *)
(***************************************************************************)
EXTENDS Naturals, FiniteSets

CONSTANTS
    Orders,             \* placements, each with its own client order id
    Resting,            \* those that rest at the start
    MaxConfig,          \* bound: config revisions explored
    MaxMoves            \* bound: requests of the user explored

ASSUME LifecycleAssumption ==
    Resting \subseteq Orders /\ MaxConfig \in Nat \ {0} /\ MaxMoves \in Nat

Configs == 1..MaxConfig
Cancels == Orders \X Configs      \* a cancel's id is made of its target and the revision

VARIABLES
    instance,           \* instance_state
    dirty,
    digest,             \* desired_digest: null, of the empty surface, of a plan
    timer,              \* convergence_started_ms: none, running, expired
    config,             \* current_config_revision
    place,              \* command_state of each placement
    cancel,             \* command_state of each cancel
    owner,              \* ownership row: none, unbound, bound, terminal
    order,              \* the exchange: none, live, gone
    proj,               \* the stored projection: its open orders, its late stamps
    snap,               \* a snapshot being taken
    turn,               \* the runtime's turn on the instance
    moves               \* bound counter

row == << instance, dirty, digest, timer, config >>
commands == << place, cancel >>
projections == << proj, snap >>
vars == << row, commands, owner, order, projections, turn, moves >>

States == {"start_pending", "running", "blocked", "paused", "stop_pending",
           "stopped", "reset_required", "needs_attention"}
Winding == {"paused", "stop_pending", "reset_required"}

(* A stamp: updated_ms of the instance, of the commands (only their        *)
(* maximum matters), last_seen_ms of an ownership row, the turn's now.     *)
OfInstance == << "instance" >>
OfCommands == << "commands" >>
OfTurn == << "turn" >>
OfOwner(o) == << "owner", o >>
Stamps == {OfInstance, OfCommands, OfTurn}
            \cup { OfOwner(o) : o \in Orders }

Open == { o \in Orders : order[o] = "live" }
Unsettled == {"pending", "sending"}
Nonterminal == { o \in Orders : place[o] \in Unsettled }
                \cup { c \in Cancels : cancel[c] \in Unsettled }

TypeOK ==
    /\ instance \in States
    /\ dirty \in BOOLEAN
    /\ digest \in {"null", "empty", "plan"}
    /\ timer \in {"none", "running", "expired"}
    /\ config \in Configs
    /\ place \in [Orders -> {"absent", "pending", "sending", "reconciled", "rejected", "cancelled"}]
    /\ cancel \in [Cancels -> {"absent", "pending", "sending", "reconciled", "rejected"}]
    /\ owner \in [Orders -> {"none", "unbound", "bound", "terminal"}]
    /\ order \in [Orders -> {"none", "live", "gone"}]
    /\ proj \in [open : SUBSET Orders, late : SUBSET Stamps]
    /\ snap \in [step : {"idle", "taken"}, open : SUBSET Orders, late : SUBSET Stamps]
    /\ turn \in [step : {"idle", "loaded", "synced", "judged"}, state : States, config : Configs,
                 expired : BOOLEAN, stale : BOOLEAN, open : SUBSET Orders,
                 late : SUBSET {OfInstance, OfCommands}, converged : BOOLEAN]
    /\ moves \in 0..MaxMoves

NoTurn == [step |-> "idle", state |-> "running", config |-> 1, expired |-> FALSE,
           stale |-> FALSE, open |-> {}, late |-> {}, converged |-> FALSE]
NoSnap == [step |-> "idle", open |-> {}, late |-> {}]

(* A running instance whose plan has converged on the resting orders.      *)
Init ==
    /\ instance = "running"
    /\ dirty = FALSE
    /\ digest = "plan"
    /\ timer = "none"
    /\ config = 1
    /\ place = [o \in Orders |-> IF o \in Resting THEN "reconciled" ELSE "absent"]
    /\ cancel = [c \in Cancels |-> "absent"]
    /\ owner = [o \in Orders |-> IF o \in Resting THEN "bound" ELSE "none"]
    /\ order = [o \in Orders |-> IF o \in Resting THEN "live" ELSE "none"]
    /\ proj = [open |-> Resting, late |-> {}]
    /\ snap = NoSnap
    /\ turn = NoTurn
    /\ moves = 0

-----------------------------------------------------------------------------
(* Stamps.  What is stamped with the present time is not older than any    *)
(* projection; what a turn stamps with its now is as old as the turn.      *)

StampSnap(E) ==
    snap' = IF snap.step = "idle" THEN snap ELSE [snap EXCEPT !.late = @ \cup E]

Stamp(E) ==
    /\ proj' = [proj EXCEPT !.late = @ \cup E]
    /\ StampSnap(E)

As(S, E) == IF OfTurn \in S THEN S \cup E ELSE S \ (E \ {OfCommands})

StampAsTurn(E) ==
    /\ proj' = [proj EXCEPT !.late = As(@, E)]
    /\ snap' = IF snap.step = "idle" THEN snap ELSE [snap EXCEPT !.late = As(@, E)]

(* A turn that is under way has read the instance before this write.       *)
Overtake(E) ==
    turn' = IF turn.step = "idle" THEN turn
            ELSE [turn EXCEPT !.stale = @ \/ OfInstance \in E,
                              !.late = IF turn.step = "loaded" THEN @
                                       ELSE @ \cup (E \cap {OfInstance, OfCommands})]

(* Any actor other than the turn writes rows.                              *)
Write(E) == Stamp(E) /\ Overtake(E)

(* convergence_timeout_ms passes; only winding down looks at it here.      *)
Expire ==
    /\ timer = "running"
    /\ instance \in Winding
    /\ timer' = "expired"
    /\ UNCHANGED << instance, dirty, digest, config, commands, owner, order, projections,
                    turn, moves >>

-----------------------------------------------------------------------------
(* The private projection: observed_ms is taken before the account is read *)
(* (account_gateway.rs clock_start), the row is written when all is there. *)
(* The orders are those of the earliest moment the stamp allows.           *)

SnapshotTake ==
    /\ snap.step = "idle"
    /\ snap' = [step |-> "taken", open |-> Open, late |-> {}]
    /\ UNCHANGED << row, commands, owner, order, proj, turn, moves >>

SnapshotPublish ==
    /\ snap.step = "taken"
    /\ proj' = [open |-> snap.open, late |-> snap.late]
    /\ snap' = NoSnap
    /\ UNCHANGED << row, commands, owner, order, turn, moves >>

-----------------------------------------------------------------------------
(* The exchange and the executor, one row at a time (GridBatch has them in *)
(* full).  A request in doubt stays in sending until readback tells.       *)

ClaimPlace(o) ==
    /\ place[o] = "pending"
    /\ place' = [place EXCEPT ![o] = "sending"]
    /\ Write({OfCommands})
    /\ UNCHANGED << row, cancel, owner, order, moves >>

ClaimCancel(o, k) ==
    /\ cancel[<<o, k>>] = "pending"
    /\ cancel' = [cancel EXCEPT ![<<o, k>>] = "sending"]
    /\ Write({OfCommands})
    /\ UNCHANGED << row, place, owner, order, moves >>

Accept(o) ==
    /\ place[o] = "sending"
    /\ order[o] = "none"
    /\ order' = [order EXCEPT ![o] = "live"]
    /\ UNCHANGED << row, commands, owner, projections, turn, moves >>

(* A fill, or a cancel that reaches the exchange.                          *)
End(o) ==
    /\ order[o] = "live"
    /\ order' = [order EXCEPT ![o] = "gone"]
    /\ UNCHANGED << row, commands, owner, projections, turn, moves >>

(* settle_with_execution of a placement: the row and its ownership.        *)
SettlePlace(o) ==
    /\ place[o] = "sending"
    /\ \/ /\ order[o] # "none"
          /\ place' = [place EXCEPT ![o] = "reconciled"]
          /\ owner' = [owner EXCEPT ![o] = IF @ = "unbound" THEN "bound" ELSE @]
       \/ /\ order[o] = "none"
          /\ place' = [place EXCEPT ![o] = "rejected"]
          /\ owner' = [owner EXCEPT ![o] = IF @ = "unbound" THEN "terminal" ELSE @]
    /\ Write({OfCommands, OfOwner(o)})
    /\ UNCHANGED << row, cancel, order, moves >>

SettleCancel(o, k) ==
    /\ cancel[<<o, k>>] = "sending"
    /\ \/ /\ order[o] = "gone"
          /\ cancel' = [cancel EXCEPT ![<<o, k>>] = "reconciled"]
          /\ owner' = [owner EXCEPT ![o] = "terminal"]
          /\ Write({OfCommands, OfOwner(o)})
       \/ /\ order[o] = "live"
          /\ cancel' = [cancel EXCEPT ![<<o, k>>] = "rejected"]
          /\ owner' = owner
          /\ Write({OfCommands})
    /\ UNCHANGED << row, place, order, moves >>

-----------------------------------------------------------------------------
(* The hot path: a new plan, with its placements and cancels, in one       *)
(* transaction; only of a running instance.                                *)

CommitPlan(P, C) ==
    /\ P \cup C # {}
    /\ instance = "running"
    /\ \A o \in P : place[o] = "absent"
    /\ \A o \in C : owner[o] = "bound" /\ cancel[<<o, config>>] = "absent"
    /\ place' = [o \in Orders |-> IF o \in P THEN "pending" ELSE place[o]]
    /\ owner' = [o \in Orders |-> IF o \in P THEN "unbound" ELSE owner[o]]
    /\ cancel' = [c \in Cancels |-> IF c \in C \X {config} THEN "pending" ELSE cancel[c]]
    /\ digest' = "plan"
    /\ dirty' = TRUE
    /\ timer' = "running"
    /\ Write({OfInstance, OfCommands} \cup { OfOwner(o) : o \in P })
    /\ UNCHANGED << instance, config, order, moves >>

-----------------------------------------------------------------------------
(* Requests of the user.                                                   *)

(* cancel_pending_risk_commands.                                           *)
FenceRisk ==
    /\ place' = [o \in Orders |-> IF place[o] = "pending" THEN "cancelled" ELSE place[o]]
    /\ owner' = [o \in Orders |->
                    IF place[o] = "pending" /\ owner[o] = "unbound" THEN "terminal" ELSE owner[o]]

Fenced == { OfCommands : o \in { p \in Orders : place[p] = "pending" } }
            \cup { OfOwner(o) : o \in { p \in Orders : place[p] = "pending" } }

LifecycleNext(action) ==
    CASE action = "start"  /\ instance = "stopped" -> "start_pending"
      [] action = "resume" /\ instance = "paused" -> "start_pending"
      [] action = "pause"  /\ instance \in {"running", "start_pending", "blocked",
                                            "reset_required", "needs_attention"} -> "paused"
      [] action = "stop"   /\ instance \in {"running", "start_pending", "paused", "blocked",
                                            "reset_required", "needs_attention"} -> "stop_pending"
      [] action = "reset"  /\ instance \in {"running", "paused", "blocked",
                                            "needs_attention"} -> "reset_required"
      [] OTHER -> "none"

(* request_lifecycle.                                                      *)
RequestLifecycle(action) ==
    /\ moves < MaxMoves
    /\ moves' = moves + 1
    /\ LifecycleNext(action) # "none"
    /\ instance' = LifecycleNext(action)
    /\ dirty' = TRUE
    /\ timer' = "running"
    /\ IF action \in {"pause", "stop", "reset"}
       THEN /\ FenceRisk
            /\ digest' = "empty"
            /\ Write({OfInstance} \cup Fenced)
       ELSE /\ digest' = "null"
            /\ Write({OfInstance})
            /\ UNCHANGED << place, owner >>
    /\ IF action = "reset"
       THEN config < MaxConfig /\ config' = config + 1
       ELSE config' = config
    /\ UNCHANGED << cancel, order >>

Operational == {"running", "blocked", "reset_required", "needs_attention"}

ConfigDirty == instance \in Operational

(* update_config.                                                          *)
UpdateConfig ==
    /\ moves < MaxMoves
    /\ moves' = moves + 1
    /\ instance \notin {"start_pending", "stop_pending"}
    /\ config < MaxConfig
    /\ config' = config + 1
    /\ digest' = "null"
    /\ dirty' = ConfigDirty
    /\ timer' = IF ConfigDirty THEN "running" ELSE "none"
    /\ FenceRisk
    /\ Write({OfInstance} \cup Fenced)
    /\ UNCHANGED << instance, cancel, order >>

-----------------------------------------------------------------------------
(* A turn of the runtime (process).                                        *)

(* list_runtime_instances and the early returns of process.                *)
TurnLoad ==
    /\ turn.step = "idle"
    /\ instance \notin {"stopped", "needs_attention"}
    /\ instance = "paused" => dirty
    /\ turn' = [NoTurn EXCEPT !.step = "loaded", !.state = instance, !.config = config,
                              !.expired = timer = "expired"]
    /\ Stamp({OfTurn})
    /\ UNCHANGED << row, commands, owner, order, moves >>

TurnEnds == turn' = NoTurn

(* settle_runtime_state: compares the state, not the revision.             *)
Settle(next) ==
    /\ instance = turn.state
    /\ instance' = next
    /\ StampAsTurn({OfInstance} \cup (IF next = "reset_required" THEN Fenced ELSE {}))
    /\ IF next = "reset_required"
       THEN config < MaxConfig /\ config' = config + 1 /\ FenceRisk
       ELSE config' = config /\ UNCHANGED << place, owner >>
    /\ digest' = IF next \in {"reset_required", "stopped"} THEN "empty" ELSE digest
    /\ dirty' = CASE next = "stopped" -> FALSE
                  [] next = "running" /\ instance = "reset_required" -> FALSE
                  [] next = "reset_required" -> TRUE
                  [] OTHER -> dirty
    /\ timer' = CASE next = "stopped" -> "none"
                  [] next = "running" /\ instance = "reset_required" -> "none"
                  [] next = "reset_required" -> "running"
                  [] OTHER -> timer

(* The write fails or nothing is to be written: the turn is over.          *)
Abandon ==
    /\ TurnEnds
    /\ UNCHANGED << row, commands, owner, order, projections, moves >>

(* Mutant: the time is never up.                                           *)
TimeOutNever == Abandon

(* settle_lifecycle_timeout.                                               *)
TimeOut ==
    IF turn.state \in Winding /\ turn.expired /\ instance = turn.state
    THEN /\ Settle("needs_attention")
         /\ TurnEnds
         /\ UNCHANGED << cancel, order, moves >>
    ELSE Abandon

(* No healthy projection, or a stale one.                                  *)
TurnNoFacts ==
    /\ turn.step = "loaded"
    /\ IF turn.state \in {"start_pending", "running"} /\ instance = turn.state
       THEN Settle("blocked") /\ TurnEnds /\ UNCHANGED << cancel, order, moves >>
       ELSE TimeOut

Unseen(o) == o \notin proj.open /\ owner[o] = "bound" /\ OfOwner(o) \notin proj.late

(* synchronize_actual_surface.  A row closed by the projection is stamped  *)
(* with its observed_ms, so it is not older than it.                       *)
TurnSync ==
    /\ turn.step = "loaded"
    /\ OfTurn \in proj.late
    /\ LET closed == { o \in Orders : Unseen(o) }
           stamps == { OfOwner(o) : o \in closed }
           kept == { o \in proj.open : owner[o] # "none" /\
                        ~ (owner[o] = "terminal" /\ OfOwner(o) \in proj.late) }
           found == { o \in Orders : owner[o] = "unbound" /\ o \in kept
                                        /\ turn.state \notin Winding }
       IN /\ owner' = [o \in Orders |-> CASE o \in closed -> "terminal"
                                          [] o \in found -> "bound"
                                          [] OTHER -> owner[o]]
          /\ proj' = [proj EXCEPT !.late = @ \cup stamps]
          /\ turn' = [turn EXCEPT !.step = "synced", !.open = kept,
                                  !.late = proj.late \cap {OfInstance, OfCommands}]
    /\ UNCHANGED << row, commands, order, snap, moves >>

(* The rest of process for an instance that is not winding down: it is     *)
(* made running, blocked, reset, or its plan has converged.                *)
TurnRun ==
    /\ turn.step = "synced"
    /\ turn.state \notin Winding
    /\ \/ /\ turn.state \in {"start_pending", "blocked"}
          /\ Settle("running")
       \/ /\ turn.state \in {"start_pending", "running"}
          /\ Settle("blocked")
       \/ Settle("reset_required")
       \/ /\ turn.state = "running" /\ ~ turn.stale /\ dirty
          /\ digest # "null" /\ Nonterminal = {}
          /\ dirty' = FALSE
          /\ timer' = "none"
          /\ StampAsTurn({OfInstance})
          /\ UNCHANGED << instance, digest, config, place, owner >>
    /\ TurnEnds
    /\ UNCHANGED << cancel, order, moves >>

(* prepare_empty_surface of a running instance whose desired surface is    *)
(* gone.                                                                   *)
TurnPrepare ==
    /\ turn.step = "synced"
    /\ turn.state = "running" /\ ~ turn.stale /\ digest = "null"
    /\ digest' = "empty"
    /\ dirty' = TRUE
    /\ StampAsTurn({OfInstance})
    /\ TurnEnds
    /\ UNCHANGED << instance, timer, config, commands, owner, order, moves >>

(* reconcile_desired towards the empty surface: what the turn would cancel *)
(* and whether nothing is left.                                            *)
Prior(o) == cancel[<<o, turn.config>>]
ToCancel == { o \in turn.open : Prior(o) = "absent" }
FailedCancel == \E o \in turn.open : Prior(o) = "rejected"

(* lock_instance and load_cancel_native_id of the cancel batch.            *)
Admitted == ~ turn.stale /\ digest = "empty" /\ \A o \in ToCancel : owner[o] \in {"bound", "terminal"}

TurnReconcile ==
    /\ turn.step = "synced"
    /\ turn.state \in Winding
    /\ IF ~ FailedCancel /\ ToCancel # {}
       THEN IF Admitted
            THEN /\ cancel' = [c \in Cancels |-> IF c \in ToCancel \X {turn.config}
                                                 THEN "pending" ELSE cancel[c]]
                 /\ StampAsTurn({OfCommands})
                 /\ turn' = [turn EXCEPT !.step = "judged"]
                 /\ UNCHANGED << row, place, owner, order, moves >>
            ELSE Abandon
       ELSE /\ turn' = [turn EXCEPT !.step = "judged",
                                    !.converged = turn.open = {} /\ Nonterminal = {}]
            /\ UNCHANGED << row, commands, owner, order, projections, moves >>

(* Mutant: the times are not compared.                                     *)
CommandsSettled == Nonterminal = {}

(* lifecycle_commands_observed: no command is in flight and the projection *)
(* is newer than everything the instance has written.                      *)
CommandsObserved == Nonterminal = {} /\ turn.late \cap {OfCommands, OfInstance} = {}

(* finish_pause, finish_stop, finish_reset.                                *)
FinishPause ==
    /\ turn.step = "judged" /\ turn.state = "paused"
    /\ turn.converged /\ CommandsObserved
    /\ IF instance = "paused" /\ ~ turn.stale /\ digest = "empty"
       THEN /\ dirty' = FALSE
            /\ timer' = "none"
            /\ StampAsTurn({OfInstance})
            /\ TurnEnds
            /\ UNCHANGED << instance, digest, config, commands, owner, order, moves >>
       ELSE Abandon

(* Mutant: converged on whatever projection is stored.                     *)
FinishStopUnobserved ==
    /\ turn.step = "judged" /\ turn.state = "stop_pending"
    /\ turn.converged
    /\ IF instance = "stop_pending"
       THEN Settle("stopped") /\ TurnEnds /\ UNCHANGED << cancel, order, moves >>
       ELSE Abandon

FinishStop ==
    /\ turn.step = "judged" /\ turn.state = "stop_pending"
    /\ turn.converged /\ CommandsObserved
    /\ IF instance = "stop_pending"
       THEN Settle("stopped") /\ TurnEnds /\ UNCHANGED << cancel, order, moves >>
       ELSE Abandon

(* Mutant: converged on whatever projection is stored.                     *)
FinishResetUnobserved ==
    /\ turn.step = "judged" /\ turn.state = "reset_required"
    /\ turn.converged
    /\ IF instance = "reset_required"
       THEN Settle("running") /\ TurnEnds /\ UNCHANGED << cancel, order, moves >>
       ELSE Abandon

FinishReset ==
    /\ turn.step = "judged" /\ turn.state = "reset_required"
    /\ turn.converged /\ CommandsObserved
    /\ IF instance = "reset_required"
       THEN Settle("running") /\ TurnEnds /\ UNCHANGED << cancel, order, moves >>
       ELSE Abandon

FinishLater ==
    /\ turn.step = "judged"
    /\ ~ (turn.converged /\ CommandsObserved)
    /\ TimeOut

(* A storage error, a superseded write, a restart of the runtime.          *)
TurnAborts ==
    /\ turn.step # "idle"
    /\ Abandon

-----------------------------------------------------------------------------

Exchange == \E o \in Orders : Accept(o) \/ End(o)

ExecutorStep ==
    \E o \in Orders :
        \/ ClaimPlace(o) \/ SettlePlace(o)
        \/ \E k \in Configs : ClaimCancel(o, k) \/ SettleCancel(o, k)

Snapshot == SnapshotTake \/ SnapshotPublish

User == UpdateConfig \/ \E a \in {"start", "resume", "pause", "stop", "reset"} : RequestLifecycle(a)

TurnStep ==
    \/ TurnLoad \/ TurnSync \/ TurnRun \/ TurnPrepare \/ TurnReconcile
    \/ FinishPause \/ FinishStop \/ FinishReset \/ FinishLater

Next ==
    \/ Expire
    \/ Snapshot
    \/ ExecutorStep
    \/ Exchange
    \/ \E P, C \in SUBSET Orders : CommitPlan(P, C)
    \/ User
    \/ TurnStep \/ TurnNoFacts \/ TurnAborts

Spec == Init /\ [][Next]_vars

(* The executor, the projection writer and the runtime keep running, time  *)
(* passes, and the storage errors and outages that end a turn early do not *)
(* hit every single turn.                                                  *)
Fairness ==
    /\ WF_vars(Expire)
    /\ WF_vars(SnapshotTake) /\ WF_vars(SnapshotPublish)
    /\ WF_vars(ExecutorStep)
    /\ WF_vars(TurnStep \/ TurnNoFacts \/ TurnAborts)
    /\ SF_vars(TurnSync) /\ SF_vars(TurnReconcile)
    /\ SF_vars(FinishPause \/ FinishStop \/ FinishReset \/ FinishLater)

FairSpec == Spec /\ Fairness

-----------------------------------------------------------------------------
(* Properties.                                                             *)

(* No order of the instance rests, and none can come to rest any more.     *)
Flat == Open = {} /\ \A o \in Orders : place[o] \notin Unsettled

(* finish_stop reports an instance as stopped only when the exchange holds *)
(* nothing of it, although it judges by a projection that lags, by rows    *)
(* read one after the other, and by an expected state without revision.    *)
StoppedIsFlat == instance = "stopped" => Flat

(* finish_pause declares a pause drained (dirty is cleared by a turn) only *)
(* when the exchange holds nothing of the instance.                        *)
PauseConfirmsFlat ==
    [][ (instance = "paused" /\ instance' = "paused" /\ dirty /\ ~dirty' /\ config' = config)
            => Flat ]_vars

(* finish_reset lets a new grid be laid out only over an empty surface.    *)
ResetStartsClean ==
    [][ (instance = "reset_required" /\ instance' = "running") => Flat ]_vars

(* A stop ends: stopped, or handed to the user once the time is up.        *)
StopEnds == instance = "stop_pending" ~> instance # "stop_pending"

(* docs/GRID_RUNTIME_REFACTOR.md 95: a pause that is over (the runtime     *)
(* does not look at the instance any more) has an empty order surface.     *)
PausedIsFlat == (instance = "paused" /\ ~dirty) => Flat

(* docs/GRID_RUNTIME_REFACTOR.md 92: a reset cancels the orders of the     *)
(* instance and lays the grid out again; or it times out.                  *)
ResetEnds == instance = "reset_required" ~> instance # "reset_required"

-----------------------------------------------------------------------------
(* The inductive invariant behind StoppedIsFlat, PauseConfirmsFlat and     *)
(* ResetStartsClean.                                                       *)

\* Rows, ownership and exchange: what may still come to rest has an unbound
\* ownership row, what rests an open one, what is bound has been at the
\* exchange.
RowsSound ==
    \A o \in Orders :
        /\ place[o] \in {"absent", "pending", "rejected", "cancelled"} => order[o] = "none"
        /\ (place[o] \in Unsettled /\ order[o] = "none") => owner[o] = "unbound"
        /\ order[o] = "live" => owner[o] \in {"unbound", "bound"}
        /\ owner[o] = "bound" => order[o] # "none"

\* What a projection tells of the present: an order that it lacks has ended
\* if its row is bound and older, and does not rest unless a command was
\* written since or its own is being sent.
Sees(open, late) ==
    \A o \in Orders :
        /\ o \in open => order[o] # "none"
        /\ (o \notin open /\ owner[o] = "bound" /\ OfOwner(o) \notin late) => order[o] = "gone"
        /\ (o \notin open /\ order[o] = "live") => (OfCommands \in late \/ place[o] = "sending")

ProjectionsSound ==
    /\ Sees(proj.open, proj.late)
    /\ snap.step = "taken" => /\ Sees(snap.open, snap.late)
                              /\ \A o \in proj.open \ snap.open : order[o] = "gone"

\* The turn's state is the instance's unless it was written, and its view of
\* the open orders is a projection's, from its read to its end.
TurnSound ==
    /\ turn.step # "idle" => /\ turn.state \notin {"stopped", "needs_attention"}
                             /\ ~ turn.stale => instance = turn.state
    /\ turn.step \in {"synced", "judged"} =>
        \A o \in Open \ turn.open : OfCommands \in turn.late \/ place[o] = "sending"
    /\ turn.converged => turn.step = "judged" /\ turn.open = {}

LifecycleInv == TypeOK /\ RowsSound /\ ProjectionsSound /\ TurnSound /\ StoppedIsFlat

=============================================================================
