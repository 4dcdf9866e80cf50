--------------------------- MODULE PositionReverse ---------------------------
(***************************************************************************)
(* Close and reverse of one position leg from the terminal                 *)
(* (accounts/terminal/position_actions.rs, executor_store and              *)
(* executor_runtime terminal_positions.rs, executor_exchange               *)
(* terminal_market.rs).  A reverse is two durable market commands: the     *)
(* close of the leg and an opening of the opposite one, which stays gated  *)
(* until the close is confirmed filled and the leg flat.                   *)
(*                                                                         *)
(* prepared_json is written before the request leaves the process and      *)
(* settlement_json before the row is settled, each in a transaction of its *)
(* own; a turn may be aborted between any two steps.  One account and one  *)
(* symbol; the leg also moves by other orders, and the projection that     *)
(* admission and preparation read may be stale.                            *)
(***************************************************************************)
EXTENDS CommandStates, Integers, FiniteSets

CONSTANTS
    Requests,           \* position actions on the leg
    Reversals,          \* those of them that reverse
    MaxQuantity,        \* bound: quantities of the leg
    MaxQueueDepth,      \* MAX_ACCOUNT_QUEUE_DEPTH
    NoRow               \* row of an idle turn

ASSUME ReverseAssumption ==
    /\ Reversals \subseteq Requests
    /\ MaxQuantity \in Nat \ {0}
    /\ MaxQueueDepth \in Nat
    /\ NoRow \notin Requests \X {"close", "open"}

Rows == Requests \X {"close", "open"}
Close(r) == << r, "close" >>
Open(r) == << r, "open" >>
Quantities == 0..MaxQuantity
NoSettlement == [executed |-> -1, flat |-> FALSE]    \* settlement_json IS NULL

VARIABLES
    state,              \* command_state
    want,               \* requested_quantity
    prepared,           \* prepared_json.quantity; 0 when NULL
    settlement,         \* settlement_json of a row
    released,           \* released of the opening of a request
    turn,               \* the account's turn
    wire, order,        \* request and order at the exchange
    leg, projectedLeg,  \* quantity of the leg: at the exchange, as projected
    posts               \* history: physical submits

rowVars == << state, want, prepared, settlement, released >>
worldVars == << wire, order, leg, projectedLeg, posts >>
vars == << rowVars, turn, worldVars >>

Settlements == {NoSettlement} \cup [executed : Quantities, flat : BOOLEAN]
Turn(op, row, res, s) == [op |-> op, row |-> row, res |-> res, settlement |-> s]
Idle == Turn("idle", NoRow, "none", NoSettlement)
NoOrder == [status |-> "none", executed |-> 0]

TypeOK ==
    /\ state \in [Rows -> CommandState]
    /\ want \in [Rows -> Quantities]
    /\ prepared \in [Rows -> Quantities]
    /\ settlement \in [Rows -> Settlements]
    /\ released \in [Requests -> BOOLEAN]
    /\ turn \in [op : {"idle", "claimed", "prepared", "sent", "known", "saved", "accepting"},
                 row : Rows \cup {NoRow},
                 res : {"none", "reconciled", "rejected", "unknown"},
                 settlement : Settlements]
    /\ wire \in [Rows -> {"none", "transit", "acked", "refused", "lost"}]
    /\ order \in [Rows -> [status : {"none", "working", "filled", "ended"}, executed : Quantities]]
    /\ leg \in Quantities /\ projectedLeg \in Quantities
    /\ posts \in [Rows -> Nat]

Init ==
    /\ state = [w \in Rows |-> "absent"]
    /\ want = [w \in Rows |-> 0]
    /\ prepared = [w \in Rows |-> 0]
    /\ settlement = [w \in Rows |-> NoSettlement]
    /\ released = [r \in Requests |-> FALSE]
    /\ turn = Idle
    /\ wire = [w \in Rows |-> "none"]
    /\ order = [w \in Rows |-> NoOrder]
    /\ leg \in Quantities /\ projectedLeg = leg
    /\ posts = [w \in Rows |-> 0]

Smaller(m, n) == IF m <= n THEN m ELSE n

-----------------------------------------------------------------------------
(* Admission: enqueue_position_action.                                     *)

Depth == Cardinality({ w \in Rows : state[w] \in Nonterminal })

Busy == \E w \in Rows : state[w] \in Nonterminal

RequestAction(r, asked) ==
    /\ state[Close(r)] = "absent"
    /\ Depth + (IF r \in Reversals THEN 2 ELSE 1) <= MaxQueueDepth
    /\ ~Busy
    /\ LET q == Smaller(asked, projectedLeg)
           rows == {Close(r)} \cup (IF r \in Reversals THEN {Open(r)} ELSE {}) IN
        /\ q > 0
        /\ state' = [w \in Rows |-> IF w \in rows THEN "pending" ELSE state[w]]
        /\ want' = [w \in Rows |-> IF w \in rows THEN q ELSE want[w]]
    /\ UNCHANGED << prepared, settlement, released, turn, worldVars >>

-----------------------------------------------------------------------------
(* Settlement: the row, and in the same transaction its gated opening      *)
(* (settle_reverse_child).                                                 *)

Gated(w) == w[2] = "close" /\ w[1] \in Reversals /\ ~released[w[1]]

Filled(w, next) == next = "reconciled" /\ settlement[w].executed > 0 /\ settlement[w].flat

(* Mutant: the opening keeps the quantity it was admitted with.            *)
SettleRowWhole(w, next) ==
    /\ state[w] \in SettleFrom(next)
    /\ LET child == Open(w[1]) IN
        IF Gated(w) /\ next \in Terminal
          THEN IF Filled(w, next)
                 THEN /\ state' = [state EXCEPT ![w] = next]
                      /\ released' = [released EXCEPT ![w[1]] = TRUE]
                      /\ UNCHANGED want
                 ELSE /\ state' = [state EXCEPT ![w] = next,
                                     ![child] = IF @ = "pending" THEN "cancelled" ELSE @]
                      /\ UNCHANGED << want, released >>
          ELSE /\ state' = [state EXCEPT ![w] = next]
               /\ UNCHANGED << want, released >>
    /\ UNCHANGED << prepared, settlement, worldVars >>

SettleRow(w, next) ==
    /\ state[w] \in SettleFrom(next)
    /\ LET child == Open(w[1]) IN
        IF Gated(w) /\ next \in Terminal
          THEN IF Filled(w, next)
                 THEN /\ state' = [state EXCEPT ![w] = next]
                      /\ want' = [want EXCEPT ![child] = settlement[w].executed]
                      /\ released' = [released EXCEPT ![w[1]] = TRUE]
                 ELSE /\ state' = [state EXCEPT ![w] = next,
                                     ![child] = IF @ = "pending" THEN "cancelled" ELSE @]
                      /\ UNCHANGED << want, released >>
          ELSE /\ state' = [state EXCEPT ![w] = next]
               /\ UNCHANGED << want, released >>
    /\ UNCHANGED << prepared, settlement, worldVars >>

-----------------------------------------------------------------------------
(* Claim and submit.                                                       *)

ClaimGate(w) ==
    w[2] = "open" => released[w[1]] /\ state[Close(w[1])] = "reconciled"

Claim(w) ==
    /\ turn = Idle
    /\ state[w] = "pending"
    /\ ClaimGate(w)
    /\ \A v \in Rows : state[v] \notin Unresolved
    /\ state' = [state EXCEPT ![w] = "sending"]
    /\ turn' = Turn("claimed", w, "none", NoSettlement)
    /\ UNCHANGED << want, prepared, settlement, released, worldVars >>

(* position_context: the quantity that will be sent, or a Conflict         *)
(* (RejectUnsent) when the projection contradicts the action.              *)
PrepareQuantity(w) ==
    IF w[2] = "close" THEN Smaller(projectedLeg, want[w])
    ELSE IF projectedLeg = 0 THEN want[w] ELSE 0

Prepare ==
    /\ turn.op = "claimed"
    /\ LET w == turn.row IN
        /\ prepared[w] = 0
        /\ PrepareQuantity(w) > 0
        /\ prepared' = [prepared EXCEPT ![w] = PrepareQuantity(w)]
    /\ turn' = [turn EXCEPT !.op = "prepared"]
    /\ UNCHANGED << state, want, settlement, released, worldVars >>

(* Credentials, a Conflict of position_context, or any error before the    *)
(* request enters the transport.                                           *)
RejectUnsent ==
    /\ turn.op \in {"claimed", "prepared"}
    /\ SettleRow(turn.row, "rejected")
    /\ turn' = Idle

Send ==
    /\ turn.op = "prepared"
    /\ wire' = [wire EXCEPT ![turn.row] = "transit"]
    /\ posts' = [posts EXCEPT ![turn.row] = @ + 1]
    /\ turn' = [turn EXCEPT !.op = "sent"]
    /\ UNCHANGED << rowVars, order, leg, projectedLeg >>

(* terminal_market_request after an acknowledgement or an exact read: the  *)
(* order's state decides, once the signed positions could be read.  What a *)
(* working order has executed so far is saved too, with an unknown result. *)
SignedResult(w) ==
    CASE order[w].status = "filled" -> "reconciled"
      [] order[w].status = "ended"  -> "rejected"
      [] OTHER                      -> "unknown"

Observed(w) == [executed |-> order[w].executed, flat |-> leg = 0]

Uncertain(w) == turn' = Turn("known", w, "unknown", NoSettlement)

LearnSigned(w) ==
    /\ order[w].status # "none"
    /\ turn' = Turn("known", w, SignedResult(w), Observed(w))

Answer ==
    /\ turn.op = "sent"
    /\ LET w == turn.row IN
        \/ Uncertain(w)
        \/ wire[w] = "acked" /\ LearnSigned(w)
        \/ wire[w] = "refused" /\ turn' = Turn("known", w, "rejected", NoSettlement)
    /\ UNCHANGED << rowVars, worldVars >>

(* save_settlement, when the result carries one.                           *)
Save ==
    /\ turn.op = "known"
    /\ settlement' = IF turn.settlement = NoSettlement THEN settlement
                     ELSE [settlement EXCEPT ![turn.row] = turn.settlement]
    /\ turn' = [turn EXCEPT !.op = "saved"]
    /\ UNCHANGED << state, want, prepared, released, worldVars >>

(* The settlement of a submit is that of CommandLedger; of a readback,     *)
(* that of readback_with_credentials.  An accepted row was read as filled, *)
(* so its readback is never a rejection.                                   *)
RowNext(current, res) ==
    CASE res = "rejected"                              -> "rejected"
      [] res = "unknown"                               -> "reconcile_required"
      [] res = "reconciled" /\ current = "sending"     -> "accepted"
      [] res = "reconciled" /\ current # "sending"     -> "reconciled"

Settle ==
    /\ turn.op = "saved"
    /\ LET w == turn.row
           next == RowNext(state[w], turn.res) IN
        /\ IF state[w] = "reconcile_required" /\ next = "reconcile_required"
             THEN UNCHANGED << rowVars, worldVars >>
             ELSE SettleRow(w, next)
        /\ turn' = IF next = "accepted" THEN [turn EXCEPT !.op = "accepting"] ELSE Idle

Complete ==
    /\ turn.op = "accepting"
    /\ SettleRow(turn.row, "reconciled")
    /\ turn' = Idle

-----------------------------------------------------------------------------
(* Recovery.                                                               *)

RecoverSending(w) ==
    /\ turn = Idle
    /\ state[w] = "sending"
    /\ SettleRow(w, "reconcile_required")
    /\ UNCHANGED turn

(* A row without prepared_json never reached the transport.                *)
(* Mutant: every unresolved row is taken for one that was never sent.      *)
RejectUnread(w) ==
    /\ turn = Idle
    /\ state[w] = "reconcile_required"
    /\ SettleRow(w, "rejected")
    /\ UNCHANGED turn

RejectUnprepared(w) ==
    /\ turn = Idle
    /\ state[w] \in {"accepted", "reconcile_required"}
    /\ prepared[w] = 0
    /\ SettleRow(w, "rejected")
    /\ UNCHANGED turn

ReadBack(w) ==
    /\ turn = Idle
    /\ state[w] \in {"accepted", "reconcile_required"}
    /\ prepared[w] # 0
    /\ Uncertain(w) \/ LearnSigned(w)
    /\ UNCHANGED << rowVars, worldVars >>

AbortTurn ==
    /\ turn # Idle
    /\ turn' = Idle
    /\ UNCHANGED << rowVars, worldVars >>

-----------------------------------------------------------------------------
(* The exchange, other orders and the projection (external).               *)

(* A market order executes by and by, wholly, in part, or not at all; a    *)
(* close is reduce-only.  As long as it works it may be read as partially  *)
(* filled.                                                                 *)
Executable(w) ==
    LET rest == prepared[w] - order[w].executed IN
    IF w[2] = "close" THEN Smaller(rest, leg) ELSE rest

Execute(w, n) ==
    LET done == order[w].executed + n IN
    /\ \E status \in (IF done = prepared[w] THEN {"filled"} ELSE {"working", "ended"}) :
        order' = [order EXCEPT ![w] = [status |-> status, executed |-> done]]
    /\ leg' = IF w[2] = "close" THEN leg - n ELSE leg

Deliver(w) ==
    /\ wire[w] = "transit"
    /\ \/ /\ \E n \in 0..Executable(w) : Execute(w, n)
          /\ wire' = [wire EXCEPT ![w] = "acked"]
       \/ /\ wire' = [wire EXCEPT ![w] = "refused"]
          /\ UNCHANGED << order, leg >>
       \/ /\ wire' = [wire EXCEPT ![w] = "lost"]
          /\ UNCHANGED << order, leg >>
    /\ UNCHANGED << rowVars, turn, projectedLeg, posts >>

WorkingExecutes(w) ==
    /\ order[w].status = "working"
    /\ \E n \in 0..Executable(w) : Execute(w, n)
    /\ UNCHANGED << rowVars, turn, wire, projectedLeg, posts >>

LegMoves ==
    /\ leg' \in Quantities \ {leg}
    /\ UNCHANGED << rowVars, turn, wire, order, projectedLeg, posts >>

ProjectionRefreshed ==
    /\ projectedLeg' = leg
    /\ UNCHANGED << rowVars, turn, wire, order, leg, posts >>

Next ==
    \/ \E r \in Requests, asked \in 1..MaxQuantity : RequestAction(r, asked)
    \/ \E w \in Rows :
        \/ Claim(w)
        \/ RecoverSending(w)
        \/ RejectUnprepared(w)
        \/ ReadBack(w)
        \/ Deliver(w)
        \/ WorkingExecutes(w)
    \/ Prepare
    \/ RejectUnsent
    \/ Send
    \/ Answer
    \/ Save
    \/ Settle
    \/ Complete
    \/ AbortTurn
    \/ LegMoves
    \/ ProjectionRefreshed

Spec == Init /\ [][Next]_vars

-----------------------------------------------------------------------------
(* Properties.                                                             *)

(* An opening is sent only behind a close that was filled completely, and  *)
(* for exactly the quantity that the close executed: a failed, partial or  *)
(* uncertain close never releases its opening, nor does a settlement left  *)
(* over from an earlier read.                                              *)
ReversalBacked ==
    \A r \in Requests : posts[Open(r)] > 0 =>
        /\ order[Close(r)].status = "filled"
        /\ prepared[Open(r)] = order[Close(r)].executed

(* A row reported rejected or cancelled is over at the exchange: not under *)
(* way, not working, not filled.  In particular a restart that finds no    *)
(* prepared_json is right that nothing was sent.                           *)
RejectedIsOver ==
    \A w \in Rows : state[w] \in {"rejected", "cancelled"} =>
        wire[w] # "transit" /\ order[w].status \in {"none", "ended"}

(* A gated opening never outlives the close that decides about it, where   *)
(* it would keep the symbol busy for good.                                 *)
NoOrphanOpening ==
    \A r \in Reversals :
        (state[Open(r)] = "pending" /\ ~released[r]) => state[Close(r)] \in Nonterminal

-----------------------------------------------------------------------------
(* The inductive invariant behind them.                                    *)

\* A settlement may be of a partial fill that goes on: it is a lower bound.
Executed(w, s) == s.executed <= order[w].executed

RequestSound(w) ==
    /\ posts[w] > 0 => wire[w] # "none"
    /\ wire[w] # "none" => prepared[w] # 0
    /\ wire[w] # "acked" => order[w].status = "none"
    /\ order[w].status = "none" => order[w].executed = 0
    /\ order[w].executed <= prepared[w]

RowSound(w) ==
    /\ state[w] \in {"absent", "pending", "cancelled"} => prepared[w] = 0
    /\ state[w] = "rejected" => wire[w] # "transit" /\ order[w].status \in {"none", "ended"}
    /\ Executed(w, settlement[w])

\* The opening of a request follows its close.
PairSound(r) ==
    /\ state[Open(r)] # "absent" => r \in Reversals /\ state[Close(r)] # "absent"
    /\ (state[Open(r)] = "pending" /\ ~released[r]) => state[Close(r)] \in Nonterminal
    /\ state[Open(r)] \notin {"absent", "pending", "cancelled"} => released[r]
    /\ released[r] => /\ state[Close(r)] = "reconciled"
                      /\ order[Close(r)].status = "filled"
                      /\ want[Open(r)] = order[Close(r)].executed
    /\ prepared[Open(r)] # 0 => prepared[Open(r)] = want[Open(r)]

\* What the turn knows of its row is still true when it writes it down.
TurnSound ==
    turn.op # "idle" =>
        /\ turn.row \in Rows
        /\ turn.op \in {"claimed", "prepared", "sent"} => state[turn.row] = "sending"
        /\ turn.op \in {"claimed", "prepared"} => wire[turn.row] = "none"
        /\ turn.op \in {"prepared", "sent"} => prepared[turn.row] # 0
        /\ turn.op \in {"known", "saved"} => turn.res # "none"
        /\ turn.op = "accepting" => turn.res = "reconciled"
        /\ turn.res = "reconciled" =>
              /\ order[turn.row].status = "filled"
              /\ turn.settlement.executed = order[turn.row].executed
              /\ turn.op \in {"saved", "accepting"} => settlement[turn.row] = turn.settlement
        /\ turn.res = "rejected" => \/ wire[turn.row] = "refused"
                                    \/ order[turn.row].status = "ended"
        /\ Executed(turn.row, turn.settlement)

ReverseInv ==
    /\ TypeOK
    /\ \A w \in Rows : RequestSound(w) /\ RowSound(w)
    /\ \A r \in Requests : PairSound(r)
    /\ TurnSound
=============================================================================
