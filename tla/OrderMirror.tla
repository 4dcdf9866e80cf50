----------------------------- MODULE OrderMirror -----------------------------
(***************************************************************************)
(* The order mirror (order_mirror/store.rs, settlement.rs,                 *)
(* completed_source.rs): each limit order of a leader is copied by a child *)
(* order of a follower, which is cancelled when its source goes away or is *)
(* amended, replaced for what is left to copy, and kept when its source    *)
(* filled.                                                                 *)
(*                                                                         *)
(* One bot, one follow relation and one source order, which the leader may *)
(* amend.  The planner reads the leader's order in a projection that lags, *)
(* writes mirrors and command rows in one transaction (it holds the locks  *)
(* of the relation and of the follower's queue, as a claim does), and      *)
(* learns of its children from the signed facts that the executor records  *)
(* in transactions of their own, before the row's transition.  The bot may *)
(* be stopped, revoked, paused and started again at any time.              *)
(*                                                                         *)
(* Rows are those of CommandLedger with their in-flight states told apart  *)
(* by what has left the process: "sending" (claimed), "admitted" (the last *)
(* checks passed), "posted" (the request left), and "unknown" for accepted *)
(* and reconcile_required, which are only read back.  The source is an     *)
(* opening order and the follower's scale is one: Quantity is what the     *)
(* sizing yields, in units that need not be the exchange's.  Sizing by     *)
(* source_ratio, which never rounds up, is a Minimum of one; closing       *)
(* orders, market and stop sources, queue depth and the number of mirrors  *)
(* per relation are left out.                                              *)
(***************************************************************************)
EXTENDS Integers, Sequences, FiniteSets, FiniteSetsExt, SequencesExt

CONSTANTS
    Terms,          \* what an amendment changes: price and quantity
    Quantity,       \* what is to be copied of each of the terms
    Minimum,        \* the exchange's minimum order at the price of each
    Step,           \* the exchange's quantity step
    MaxAttempts,    \* cancellations of one child: 8 in store.rs
    MaxAmends,      \* bound: amendments of the source
    MaxMoves,       \* bound: operator requests
    MaxChildren     \* bound: children of the source

ASSUME MirrorAssumption ==
    /\ Quantity \in [Terms -> Nat \ {0}]
    /\ Minimum \in [Terms -> Nat \ {0}] /\ Step \in Nat \ {0}
    /\ \A t \in Terms : Minimum[t] % Step = 0
    /\ {MaxAttempts, MaxAmends, MaxMoves, MaxChildren} \subseteq Nat
    /\ MaxAttempts > 0

VARIABLES
    bot,        \* venue_leader_bots.bot_state
    granted,    \* venue_leader_bot_permissions.enabled
    relation,   \* venue_kol_follow_relations.relation_state
    revision,   \* the revisions of bot, relation and grant as one number: a
                \* mirror stores all three and is compared for equality
    source,     \* the leader's order at the exchange
    view,       \* the leader's projection, and the bounded histories of its
                \* observations (terms, while seen) and fills (trimmed)
    mirror,     \* venue_order_mirrors, in the order of child_sequence
    place,      \* command_state of each child's placement
    cancel,     \* command_state of each child's latest cancellation
    child,      \* each child at the follower's exchange
    moves       \* bound: what the leader and the operators did

mirrorVars == << mirror, place, cancel >>
controlVars == << bot, granted, relation, revision >>
vars == << controlVars, source, view, mirrorVars, child, moves >>

InFlight == {"sending", "admitted", "posted", "unknown"}
Open == InFlight \cup {"pending"}
RowState == Open \cup {"none", "reconciled", "rejected", "cancelled"}
Over == {"terminal", "blocked"}
Children == DOMAIN mirror

Mirrors == [state : {"pending", "live", "cancelling", "terminal", "blocked"},
            terms : Terms, qty : Nat \ {0}, filled : Nat, native : BOOLEAN,
            revision : Nat, done : BOOLEAN, attempts : 0..MaxAttempts, exhausted : BOOLEAN]
Orders == [status : {"none", "transit", "open", "closed", "refused", "lost"},
           size : Nat, filled : Nat, asked : BOOLEAN]

TypeOK ==
    /\ bot \in {"running", "draining", "stopped", "needs_attention"}
    /\ granted \in BOOLEAN
    /\ relation \in {"active", "paused"}
    /\ revision \in Nat
    /\ source \in [status : {"open", "filled", "gone"}, terms : Terms, new : BOOLEAN]
    /\ view \in [fresh : BOOLEAN, open : BOOLEAN, terms : Terms, seen : BOOLEAN,
                fills : Nat, trimmed : BOOLEAN]
    /\ mirror \in Seq(Mirrors)
    /\ {Len(place), Len(cancel), Len(child)} = {Len(mirror)}
    /\ place \in Seq(RowState) /\ cancel \in Seq(RowState)
    /\ child \in Seq(Orders)
    /\ moves \in [amends : 0..MaxAmends, requests : 0..MaxMoves]

\* The bot runs, the follower follows, and nothing has been read yet.
Init ==
    /\ bot = "running" /\ granted = TRUE /\ relation = "active" /\ revision = 0
    /\ source \in [status : {"open"}, terms : Terms, new : {TRUE}]
    /\ view = [fresh |-> FALSE, open |-> FALSE, terms |-> source.terms, seen |-> FALSE,
               fills |-> 0, trimmed |-> FALSE]
    /\ mirror = << >> /\ place = << >> /\ cancel = << >> /\ child = << >>
    /\ moves = [amends |-> 0, requests |-> 0]

-----------------------------------------------------------------------------
(* The leader and the projection of the leader's account.                  *)

Leader(s) == source' = s /\ UNCHANGED << controlVars, view, mirrorVars, child >>

AmendSource == \E t \in Terms \ {source.terms} :
    /\ source.status = "open"
    /\ moves.amends < MaxAmends
    /\ moves' = [moves EXCEPT !.amends = @ + 1]
    /\ Leader([source EXCEPT !.terms = t])

EndSource == \E end \in {"filled", "gone"} :
    /\ source.status = "open"
    /\ Leader([source EXCEPT !.status = end])
    /\ UNCHANGED moves

Viewed(seen, fills, trimmed) ==
    /\ view' = [fresh |-> TRUE, open |-> source.status = "open",
                terms |-> IF source.status = "open" THEN source.terms ELSE view.terms,
                seen |-> seen, fills |-> fills, trimmed |-> trimmed]
    /\ UNCHANGED << controlVars, source, mirrorVars, child, moves >>

\* What is left of the source's fills in a history of HISTORY_LIMIT rows:
\* partial sums differ in how they compare with the terms.
Kept == IF source.status = "filled"
        THEN { f \in {0} \cup { Quantity[t] : t \in Terms } :
                 f <= IF view.trimmed THEN view.fills ELSE Quantity[source.terms] }
        ELSE {0}

\* The observation of an order that is open is as new as the projection; one
\* of an order that is gone stays until newer rows displace it.
Observed == IF source.status = "open" THEN {TRUE} ELSE {FALSE, view.seen}

(* Mutant: the fills follow in a later transaction.                        *)
ProjectOrdersOnly == \E seen \in Observed, f \in Kept :
    IF view.open THEN Viewed(seen, view.fills, view.trimmed)
    ELSE Viewed(seen, f, source.status = "filled" /\ f # Quantity[source.terms])

\* A projection is stored with the fills collected after its orders, and the
\* histories are trimmed in the same transaction.
Project == \E seen \in Observed, f \in Kept :
    Viewed(seen, f, source.status = "filled" /\ f # Quantity[source.terms])

\* Fills of the private stream are stored as they come, before the orders.
StreamFills ==
    /\ source.status = "filled" /\ ~view.trimmed
    /\ view' = [view EXCEPT !.fills = Quantity[source.terms]]
    /\ UNCHANGED << controlVars, source, mirrorVars, child, moves >>

\* The stream is unhealthy, or the projection older than three seconds.
GrowStale ==
    /\ view' = [view EXCEPT !.fresh = FALSE]
    /\ UNCHANGED << controlVars, source, mirrorVars, child, moves >>

-----------------------------------------------------------------------------
(* Operators: the bot's lifecycle, the grant, the relation.                *)

Settled == /\ \A i \in Children : mirror[i].state \in Over
           /\ \A i \in Children : {place[i], cancel[i]} \cap Open = {}

Request ==
    /\ moves.requests < MaxMoves
    /\ moves' = [moves EXCEPT !.requests = @ + 1]
    /\ UNCHANGED << view, child >>

Retire == revision' = revision + 1

\* The cutoff moves: an order created before is never copied.
StartBot ==
    /\ Request /\ Retire
    /\ bot = "stopped" /\ granted /\ Settled
    /\ bot' = "running"
    /\ source' = [source EXCEPT !.new = FALSE]
    /\ UNCHANGED << granted, relation, mirrorVars >>

StopBot ==
    /\ Request /\ Retire
    /\ bot # "stopped"
    /\ bot' = "draining"
    /\ mirror' = [i \in Children |->
                    IF mirror[i].state = "cancelling" THEN [mirror[i] EXCEPT !.attempts = 0]
                                                      ELSE mirror[i]]
    /\ UNCHANGED << granted, relation, source, place, cancel >>

\* Even a grant given again ends the run it finds.
SetPermission ==
    /\ Request /\ Retire
    /\ granted' \in BOOLEAN
    /\ bot' = IF bot = "running" THEN "draining" ELSE bot
    /\ UNCHANGED << relation, source, mirrorVars >>

\* Placements not yet claimed are cancelled; cancellations are kept.
PauseRelation ==
    /\ Request /\ Retire
    /\ relation = "active"
    /\ relation' = "paused"
    /\ place' = [i \in Children |-> IF place[i] = "pending" THEN "cancelled" ELSE place[i]]
    /\ UNCHANGED << bot, granted, source, mirror, cancel >>

ActivateRelation ==
    /\ Request
    /\ relation = "paused" /\ bot = "running" /\ Settled
    /\ relation' = "active"
    /\ source' = [source EXCEPT !.new = FALSE]
    /\ UNCHANGED << bot, granted, revision, mirrorVars >>

Operate == StartBot \/ StopBot \/ SetPermission \/ PauseRelation \/ ActivateRelation

-----------------------------------------------------------------------------
(* The planner's transaction, plan_relation.  `see` is what it finds of    *)
(* the follower's projection: none that is healthy and fresh, one from     *)
(* before the children's latest fills, or the present.                     *)

Active == relation = "active" /\ bot = "running" /\ granted
Desired == Active /\ view.fresh /\ view.open /\ source.new

\* No observation that is still kept shows other terms.
TermsStand(m) == view.seen => view.terms = m.terms

SourceComplete(m) ==
    m.done \/ (TermsStand(m) /\ view.fills = Quantity[m.terms])

Shown(i, see) == IF see = "now" /\ mirror[i].native /\ child[i].status = "open"
                 THEN child[i].filled ELSE mirror[i].filled

\* Not placed: the row was cancelled or refused while the mirror was pending.
Unplaced(i) == mirror[i].state = "pending" /\ place[i] \in {"cancelled", "rejected"}

CancelFailed(i) == mirror[i].state = "cancelling" /\ cancel[i] \in {"cancelled", "rejected"}

(* Mutant: off by one at the last attempt.                                 *)
ExhaustedLate(i) == CancelFailed(i) /\ mirror[i].attempts > MaxAttempts

Exhausted(i) == CancelFailed(i) /\ mirror[i].attempts >= MaxAttempts

\* Thirty seconds after the failure, with the follower's projection healthy:
\* a turn that comes too early is one that finds none.
Retried(i, see) == /\ CancelFailed(i) /\ mirror[i].attempts < MaxAttempts
                   /\ see # "none"

Gone(i) == Active /\ view.fresh /\ ~Desired
           /\ mirror[i].state \in {"pending", "live"} /\ ~Unplaced(i)

\* More was filled than the copied terms allow: the transaction fails.
FillConflict == \E i \in Children :
    /\ Gone(i) /\ ~mirror[i].done
    /\ TermsStand(mirror[i])
    /\ view.fills > Quantity[mirror[i].terms]

Retained(i) == Gone(i) /\ SourceComplete(mirror[i])

\* The child filled too, and its own fills say so.
Completed(i, see) ==
    /\ Retained(i) /\ mirror[i].state = "live"
    /\ see = "now" /\ child[i].status = "closed" /\ child[i].filled = mirror[i].qty

Obsolete(i) ==
    \/ ~Active
    \/ mirror[i].revision # revision
    \/ view.fresh /\ IF Desired THEN view.terms # mirror[i].terms ELSE ~Retained(i)

Unsent(i) == Obsolete(i) /\ mirror[i].state = "pending" /\ place[i] = "pending"
Withdrawn(i, see) == Obsolete(i) /\ mirror[i].state = "live" /\ ~Completed(i, see)

PlannedMirror(i, see) ==
    LET m == [mirror[i] EXCEPT !.filled = Shown(i, see), !.done = @ \/ Retained(i)] IN
    CASE Exhausted(i)      -> [m EXCEPT !.exhausted = TRUE]
      [] Retried(i, see)   -> [m EXCEPT !.state = "live"]
      [] Unplaced(i)       -> [m EXCEPT !.state = "blocked"]
      [] Completed(i, see) -> [m EXCEPT !.state = "terminal", !.filled = mirror[i].qty]
      [] Unsent(i)         -> [m EXCEPT !.state = "terminal"]
      [] Withdrawn(i, see) -> [m EXCEPT !.state = "cancelling", !.attempts = @ + 1]
      [] OTHER             -> m

\* The sum of a sequence of lots.
Total(lots) ==
    LET sum[n \in 0..Len(lots)] == IF n = 0 THEN 0 ELSE sum[n - 1] + lots[n]
    IN  sum[Len(lots)]

\* The fills of every child of the source under the revisions of today.
Copied(see) == Total([i \in Children |->
                        IF mirror[i].revision = revision THEN Shown(i, see) ELSE 0])

(* Mutant: the fills of earlier children are not subtracted.               *)
LeftToCopyWhole(see) == Quantity[view.terms]

LeftToCopy(see) == Quantity[view.terms] - Copied(see)

\* The latest child as the transaction read it: one that it has just ended
\* is replaced in a later turn, and terms are never placed twice in a row.
Replaceable ==
    \/ mirror = << >>
    \/ Last(mirror).state \in Over /\ Last(mirror).terms # view.terms

PlacesChild(see) == Desired /\ see # "none" /\ Replaceable /\ LeftToCopy(see) > 0

NewChild(see) ==
    [state |-> "pending", terms |-> view.terms, qty |-> LeftToCopy(see), filled |-> 0,
     native |-> FALSE, revision |-> revision, done |-> FALSE, attempts |-> 0,
     exhausted |-> FALSE]

PlanTurn(see) ==
    LET new == IF PlacesChild(see) THEN 1 ELSE 0
        Extended(old, row) == old \o (IF new = 1 THEN << row >> ELSE << >>)
    IN
    /\ bot # "stopped" /\ ~FillConflict
    /\ Len(mirror) + new <= MaxChildren
    /\ mirror' = Extended([i \in Children |-> PlannedMirror(i, see)], NewChild(see))
    /\ place' = Extended([i \in Children |-> IF Unsent(i) THEN "cancelled" ELSE place[i]],
                         "pending")
    /\ cancel' = Extended([i \in Children |-> IF Withdrawn(i, see) THEN "pending" ELSE cancel[i]],
                          "none")
    /\ child' = Extended(child, [status |-> "none", size |-> 0, filled |-> 0, asked |-> FALSE])
    /\ UNCHANGED << controlVars, source, view, moves >>

\* The statements that end a turn of run_order_mirror.
AskAttention ==
    /\ bot # "needs_attention"
    /\ \E i \in Children : /\ mirror[i].state = "cancelling"
                           /\ mirror[i].attempts >= MaxAttempts /\ mirror[i].exhausted
    /\ bot' = "needs_attention"
    /\ UNCHANGED << granted, relation, revision, source, view, mirrorVars, child, moves >>

(* Mutant: the command rows are not asked.                                 *)
FinishDrainEarly ==
    /\ bot = "draining" /\ \A i \in Children : mirror[i].state \in Over
    /\ bot' = "stopped"
    /\ UNCHANGED << granted, relation, revision, source, view, mirrorVars, child, moves >>

FinishDrain ==
    /\ bot = "draining" /\ Settled
    /\ bot' = "stopped"
    /\ UNCHANGED << granted, relation, revision, source, view, mirrorVars, child, moves >>

-----------------------------------------------------------------------------
(* The executor, for the one account of the follower.                      *)

Executor == UNCHANGED << controlVars, source, view, moves >>
Rows(p, c) == place' = p /\ cancel' = c
PlaceTo(i, s) == Rows([place EXCEPT ![i] = s], cancel)
CancelTo(i, s) == Rows(place, [cancel EXCEPT ![i] = s])

Fenced == \E i \in Children : {place[i], cancel[i]} \cap InFlight # {}

\* The claim sweeps placements of a relation that no longer follows.
ClaimPlace(i) ==
    /\ place[i] = "pending" /\ ~Fenced
    /\ PlaceTo(i, IF relation = "active" THEN "sending" ELSE "cancelled")
    /\ Executor /\ UNCHANGED << mirror, child >>

ClaimCancel(i) ==
    /\ cancel[i] = "pending" /\ ~Fenced
    /\ CancelTo(i, "sending")
    /\ Executor /\ UNCHANGED << mirror, child >>

\* mirror_send_allowed for a placement.
SendAllowed(i) ==
    /\ Active /\ mirror[i].revision = revision
    /\ view.fresh
    /\ IF view.open THEN view.terms = mirror[i].terms ELSE SourceComplete(mirror[i])

Blocked(i) == [mirror EXCEPT ![i].state = IF @ = "terminal" THEN @ ELSE "blocked"]

AdmitPlace(i) ==
    /\ place[i] = "sending"
    /\ IF SendAllowed(i) THEN PlaceTo(i, "admitted") /\ UNCHANGED mirror
                         ELSE PlaceTo(i, "rejected") /\ mirror' = Blocked(i)
    /\ Executor /\ UNCHANGED child

\* A cancellation goes out for the native order it names, whoever stopped what.
AdmitCancel(i) ==
    /\ cancel[i] = "sending"
    /\ CancelTo(i, IF mirror[i].native THEN "admitted" ELSE "rejected")
    /\ Executor /\ UNCHANGED << mirror, child >>

\* An opening goes down to whole steps, and up to the exchange's minimum.
Rounded(t, q) == IF q - (q % Step) >= Minimum[t] THEN q - (q % Step) ELSE Minimum[t]

PostPlace(i) ==
    /\ place[i] = "admitted"
    /\ PlaceTo(i, "posted")
    /\ child' = [child EXCEPT ![i].status = "transit",
                    ![i].size = Rounded(mirror[i].terms, mirror[i].qty)]
    /\ Executor /\ UNCHANGED mirror

\* An order that the fresh snapshot no longer lists is read, not cancelled.
PostCancel(i) ==
    /\ cancel[i] = "admitted"
    /\ CancelTo(i, "posted")
    /\ child' = [child EXCEPT ![i].asked = child[i].status = "open"]
    /\ Executor /\ UNCHANGED mirror

\* A check of submit fails, or the exchange refuses the cancellation.
NotDispatched(i) ==
    /\ \/ place[i] = "admitted" /\ PlaceTo(i, "rejected") /\ mirror' = Blocked(i)
       \/ cancel[i] \in {"admitted", "posted"} /\ CancelTo(i, "rejected") /\ UNCHANGED mirror
    /\ child' = [child EXCEPT ![i].asked = FALSE]
    /\ Executor

PlaceRefused(i) ==
    /\ place[i] = "posted" /\ child[i].status = "refused"
    /\ PlaceTo(i, "rejected") /\ mirror' = Blocked(i)
    /\ Executor /\ UNCHANGED child

\* No answer, or no fact with it.
AnswerUnknown(i) ==
    /\ \/ place[i] = "posted" /\ PlaceTo(i, "unknown")
       \/ cancel[i] = "posted" /\ CancelTo(i, "unknown")
    /\ Executor /\ UNCHANGED << mirror, child >>

\* The process ends: rows in flight are found as reconcile_required.
RestartExecutor ==
    /\ \E i \in Children : {place[i], cancel[i]} \cap (InFlight \ {"unknown"}) # {}
    /\ Rows([i \in Children |-> IF place[i] \in InFlight THEN "unknown" ELSE place[i]],
            [i \in Children |-> IF cancel[i] \in InFlight THEN "unknown" ELSE cancel[i]])
    /\ Executor /\ UNCHANGED << mirror, child >>

\* record_mirror_order_fact, from the answer of a request or from a readback:
\* the child has the quantity that was sent.
RecordFact(i) ==
    /\ {place[i], cancel[i]} \cap {"posted", "unknown"} # {}
    /\ child[i].status \in {"open", "closed"}
    /\ mirror' = [mirror EXCEPT ![i].native = TRUE, ![i].qty = child[i].size,
                    ![i].filled = child[i].filled,
                    ![i].state = IF child[i].status = "closed" THEN "terminal" ELSE @]
    /\ Executor /\ UNCHANGED << place, cancel, child >>

\* A placement is reconciled by the fact of its order, resting or not.
SettlePlace(i) ==
    /\ place[i] \in {"posted", "unknown"} /\ mirror[i].native
    /\ PlaceTo(i, "reconciled")
    /\ mirror' = [mirror EXCEPT ![i].state = IF @ = "terminal" THEN @ ELSE "live"]
    /\ Executor /\ UNCHANGED child

\* A cancellation is reconciled by a final fact; accepted until then.
SettleCancel(i) ==
    /\ cancel[i] \in {"posted", "unknown"} /\ mirror[i].state = "terminal"
    /\ CancelTo(i, "reconciled")
    /\ Executor /\ UNCHANGED << mirror, child >>

\* settle_absent_mirror_drain: no native order, no history, no position, no
\* other row, and a minute since the request could have left.
DrainAbsent(i) ==
    /\ bot = "draining"
    /\ place[i] = "unknown" /\ mirror[i].state = "pending" /\ ~mirror[i].native
    /\ \A j \in Children : /\ j # i => {place[j], cancel[j]} \cap Open = {}
                           /\ child[j].filled = 0 /\ child[j].status \notin {"open", "transit"}
    /\ PlaceTo(i, "cancelled")
    /\ mirror' = [mirror EXCEPT ![i].state = "terminal"]
    /\ Executor /\ UNCHANGED child

-----------------------------------------------------------------------------
(* The follower's exchange.                                                *)

Exchange == UNCHANGED << controlVars, source, view, mirrorVars, moves >>

PlaceLands(i) ==
    /\ child[i].status = "transit"
    /\ \E s \in {"open", "refused"} : child' = [child EXCEPT ![i].status = s]
    /\ Exchange

CancelLands(i) ==
    /\ child[i].asked
    /\ child' = [child EXCEPT ![i].asked = FALSE,
                    ![i].status = IF @ = "open" THEN "closed" ELSE @]
    /\ Exchange

RequestLost(i) ==
    /\ \/ child[i].status = "transit" /\ child' = [child EXCEPT ![i].status = "lost"]
       \/ child[i].asked /\ child' = [child EXCEPT ![i].asked = FALSE]
    /\ Exchange

ChildFills(i) ==
    /\ child[i].status = "open" /\ child[i].filled + Step <= child[i].size
    /\ child' = [child EXCEPT ![i].filled = @ + Step,
                    ![i].status = IF child[i].filled + Step = child[i].size THEN "closed" ELSE @]
    /\ Exchange

-----------------------------------------------------------------------------
Views == {"none", "old", "now"}

Submit(i) == \/ ClaimPlace(i) \/ AdmitPlace(i) \/ PostPlace(i) \/ PlaceRefused(i)
             \/ ClaimCancel(i) \/ AdmitCancel(i) \/ PostCancel(i)
Answer(i) == RecordFact(i) \/ SettlePlace(i) \/ SettleCancel(i)

Next ==
    \/ AmendSource \/ EndSource \/ Project \/ StreamFills \/ GrowStale
    \/ Operate
    \/ \E see \in Views : PlanTurn(see)
    \/ AskAttention \/ FinishDrain
    \/ RestartExecutor
    \/ \E i \in Children :
          \/ Submit(i) \/ NotDispatched(i) \/ AnswerUnknown(i) \/ Answer(i) \/ DrainAbsent(i)
          \/ PlaceLands(i) \/ CancelLands(i) \/ RequestLost(i) \/ ChildFills(i)

Spec == Init /\ [][Next]_vars

\* The planner ticks every 100 ms and meets a healthy follower in the end;
\* the executor serves its rows, reads back what it does not know, and the
\* exchange handles what reaches it.  Nothing obliges an operator or a leader
\* to act, an order to fill, or a request to be lost.
Fairness ==
    /\ WF_vars(PlanTurn("now")) /\ WF_vars(AskAttention) /\ WF_vars(FinishDrain)
    /\ \A i \in 1..MaxChildren :
          /\ WF_vars(i \in Children /\ Submit(i))
          /\ WF_vars(i \in Children /\ AnswerUnknown(i))
          /\ WF_vars(i \in Children /\ RecordFact(i))
          /\ WF_vars(i \in Children /\ SettlePlace(i))
          /\ WF_vars(i \in Children /\ SettleCancel(i))
          /\ WF_vars(i \in Children /\ DrainAbsent(i))
          /\ WF_vars(i \in Children /\ PlaceLands(i))
          /\ WF_vars(i \in Children /\ CancelLands(i))

FairSpec == Spec /\ Fairness

-----------------------------------------------------------------------------
\* What a child may still come to hold of the follower's position.
Exposure(i) ==
    IF place[i] \in {"pending", "sending", "admitted"}
      THEN Rounded(mirror[i].terms, mirror[i].qty)
      ELSE IF child[i].status \in {"transit", "open"} THEN child[i].size ELSE child[i].filled

(* A source is never copied twice: whatever amendments, partial fills, late *)
(* facts, restarts and pauses did, its children together cannot hold more   *)
(* than the largest of the terms they were copied from, except for what     *)
(* rounding one order up to the exchange's minimum adds, which is less than *)
(* that minimum.  The uplifts of several children do not add up: what a     *)
(* child holds above the terms is subtracted from the next (the filled sum  *)
(* and the latest child of store.rs:240-452, copy_risk.rs:285-297).         *)
Uplifted(t) == Quantity[t] + Minimum[t] - 1

NeverOvercopied ==
    mirror # << >> =>
        Total([i \in Children |-> Exposure(i)]) <= Max({Uplifted(mirror[i].terms) : i \in Children})

(* A stopped bot has left nothing behind: no child rests or is on its way,  *)
(* and no row can still send or settle one (store.rs:130).                  *)
StoppedLeavesNothing ==
    bot = "stopped" =>
        \A i \in Children : /\ child[i].status \notin {"transit", "open"}
                            /\ {place[i], cancel[i]} \cap Open = {}

(* A child outlives its source only when the source filled, and then it     *)
(* does: as long as the bot and the relation stand, the planner withdraws   *)
(* no child whose source filled with the terms that were copied and last    *)
(* seen, however the projection lagged, if the fills have not been trimmed  *)
(* (completed_source.rs:13, private_projection.rs:364-392) or a turn before *)
(* recorded them (store.rs:323).                                            *)
Withdraws(i) ==
    /\ mirror[i].state = "live" /\ mirror'[i].state = "cancelling"
    /\ Active /\ mirror[i].revision = revision
    /\ source.terms = mirror[i].terms /\ view.terms = mirror[i].terms

FilledSourceKeepsChild ==
    [][\A i \in Children : Withdraws(i) =>
          ~(source.status = "filled" /\ (~view.trimmed \/ mirror[i].done))]_vars

(* docs/LEADER_ORDER_MIRROR.md:49 makes no exception: the mirror of a source*)
(* that filled is kept and does not end because the source has left the     *)
(* open orders.  Fills that were trimmed before any turn saw them are gone. *)
FilledSourceAlwaysKeepsChild ==
    [][\A i \in Children : Withdraws(i) => source.status # "filled"]_vars

-----------------------------------------------------------------------------
(* The inductive invariant.                                                *)

\* Nothing of a placement has left the process.
Unposted == {"pending", "sending", "admitted"}

\* Before it is posted a child is nowhere; from then until its placement is
\* settled only a fact ends the mirror; a settled placement is known.
PlacementSound(i) ==
    /\ place[i] # "none"
    /\ place[i] \in Unposted => mirror[i].state = "pending" /\ child[i].status = "none"
    /\ place[i] \in {"posted", "unknown"} => mirror[i].state \in {"pending", "terminal"}
    /\ place[i] = "reconciled" => mirror[i].native /\ mirror[i].state \in {"live", "cancelling", "terminal"}
    /\ place[i] \in {"cancelled", "rejected"} =>
          /\ mirror[i].state \in {"pending", "terminal", "blocked"} /\ ~mirror[i].native
          /\ child[i].filled = 0 /\ child[i].status \notin {"transit", "open"}
    /\ cancel[i] # "none" => place[i] = "reconciled"

\* A mirror knows no more than the exchange, and all of it once it is over.
FillsSound(i) ==
    /\ child[i].status = "transit" => place[i] \in {"posted", "unknown"}
    /\ child[i].status # "none" => child[i].size > 0
    /\ mirror[i].native => mirror[i].qty = child[i].size
    /\ child[i].status \notin {"open", "closed"} => child[i].filled = 0 /\ ~mirror[i].native
    /\ child[i].status = "open" => child[i].filled < child[i].size /\ mirror[i].state \notin Over
    /\ child[i].status = "transit" => mirror[i].state \notin Over
    /\ mirror[i].filled <= child[i].filled /\ child[i].filled <= child[i].size
    /\ mirror[i].state \in Over => mirror[i].filled = child[i].filled
    /\ mirror[i].state \in {"pending", "live"} => mirror[i].attempts < MaxAttempts

\* A mirror made before the source grew old, or before the relation was
\* paused, belongs to a revision of the past; while the source can be copied
\* there is none.
RevisionsSound ==
    /\ \A i \in Children : mirror[i].revision <= revision
    /\ ~source.new \/ relation = "paused" => \A i \in Children : mirror[i].revision < revision
    /\ source.new /\ relation = "active" /\ bot = "running" =>
          \A i \in Children : mirror[i].revision = revision

\* What a fresh view says of the source.
ViewSound ==
    view.fresh /\ ~view.open =>
        /\ source.status # "open"
        /\ source.status = "filled" => view.trimmed \/ view.fills = Quantity[source.terms]

\* A child is made only when the ones before it are over.
OneAtATime == \A i \in Children : i # Len(mirror) => mirror[i].state \in Over

\* The copied terms that bound what the children can hold.
Covered ==
    mirror # << >> => \E k \in Children :
        Total([i \in Children |-> Exposure(i)]) <= Uplifted(mirror[k].terms)

MirrorInv ==
    /\ TypeOK
    /\ \A i \in Children : PlacementSound(i) /\ FillsSound(i)
    /\ RevisionsSound /\ ViewSound /\ OneAtATime /\ Covered /\ StoppedLeavesNothing

-----------------------------------------------------------------------------
\* Silence that no read can end: the request never reached the exchange, or
\* was refused and the answer lost, while the follower holds a position; or
\* the cancellation was lost, and accepted rows are never sent again.
Silence == \E i \in Children :
    \/ /\ place[i] = "unknown" /\ child[i].status \in {"none", "refused", "lost"}
       /\ \E j \in Children : child[j].filled > 0
    \/ cancel[i] = "unknown" /\ child[i].status = "open" /\ ~child[i].asked

(* A drain ends: stopped, or asking for attention, unless the exchange owes *)
(* an answer that no read can replace (store.rs:128-130, mirror_drain.rs).  *)
DrainEnds == bot = "draining" ~> (bot \in {"stopped", "needs_attention"} \/ Silence)
=============================================================================
