--------------------------- MODULE TerminalReplace ---------------------------
(***************************************************************************)
(* Cancel-and-replace of one resting terminal order                        *)
(* (accounts/terminal/replace.rs, executor_store/terminal_replace.rs): a   *)
(* request admits two durable commands, an exact cancel (the parent) and a *)
(* limit placement (the child) that may not be claimed before the parent   *)
(* is reconciled with the signed final fill of the original.               *)
(*                                                                         *)
(* The life of the two rows is that of CommandLedger, one account, with    *)
(* the transactions that matter here kept apart: the fact is recorded, the *)
(* row is accepted, the row is reconciled and the child released, each in  *)
(* a transaction of its own and a turn may be aborted between any two.     *)
(* The cancel request itself is part of OriginalEnds: the original may end *)
(* at any time, whoever asks.  The original may be amended elsewhere, and  *)
(* the projection that admission reads is as stale as its age limit allows.*)
(***************************************************************************)
EXTENDS CommandStates, Integers, FiniteSets

CONSTANTS
    Requests,           \* replace requests for the same native order
    MaxQuantity,        \* bound: quantities of the original
    MaxQueueDepth,      \* MAX_ACCOUNT_QUEUE_DEPTH
    NoRequest           \* request of an idle turn

ASSUME ReplaceAssumption ==
    /\ MaxQuantity \in Nat \ {0}
    /\ MaxQueueDepth \in Nat
    /\ NoRequest \notin Requests

NoFact == -1                            \* remaining_quantity IS NULL
Facts == {NoFact} \cup 0..MaxQuantity

VARIABLES
    parent, child,      \* command_state of the two rows of a request
    originalQuantity,   \* venue_terminal_replacements.original_quantity
    remaining,          \* venue_terminal_replacements.remaining_quantity
    released,           \* venue_terminal_replacements.released
    quantity,           \* the child's requested_quantity
    turn,               \* the account's turn
    original,           \* the order at the exchange
    projected,          \* the order in the private projection
    sent                \* history: quantity the child's submit asked for

rowVars == << parent, child, originalQuantity, remaining, released, quantity >>
vars == << rowVars, turn, original, projected, sent >>

Orders == [open : BOOLEAN, qty : 1..MaxQuantity, filled : 0..MaxQuantity]
Turn(op, r, res, fact) == [op |-> op, req |-> r, res |-> res, fact |-> fact]
Idle == Turn("idle", NoRequest, "none", NoFact)

TypeOK ==
    /\ parent \in [Requests -> CommandState]
    /\ child \in [Requests -> CommandState]
    /\ originalQuantity \in [Requests -> 0..MaxQuantity]
    /\ remaining \in [Requests -> Facts]
    /\ released \in [Requests -> BOOLEAN]
    /\ quantity \in [Requests -> 0..MaxQuantity]
    /\ turn \in [op : {"idle", "claimed", "known", "recorded", "accepting", "placing", "placed"},
                 req : Requests \cup {NoRequest},
                 res : {"none", "accepted", "reconciled", "rejected", "unknown"},
                 fact : Facts]
    /\ original \in Orders
    /\ projected \in Orders
    /\ sent \in [Requests -> 0..MaxQuantity]

Init ==
    /\ parent = [r \in Requests |-> "absent"]
    /\ child = [r \in Requests |-> "absent"]
    /\ originalQuantity = [r \in Requests |-> 0]
    /\ remaining = [r \in Requests |-> NoFact]
    /\ released = [r \in Requests |-> FALSE]
    /\ quantity = [r \in Requests |-> 0]
    /\ turn = Idle
    /\ original \in { o \in Orders : o.open /\ o.filled < o.qty }
    /\ projected = original
    /\ sent = [r \in Requests |-> 0]

-----------------------------------------------------------------------------
(* Admission.                                                              *)

Depth == Cardinality({ r \in Requests : parent[r] \in Nonterminal })
         + Cardinality({ r \in Requests : child[r] \in Nonterminal })

(* A command that selects the order is under way, or a replacement of it   *)
(* was already carried out.                                                *)
(* Mutant: a replacement that was carried out does not block another.      *)
BusyUnresolvedOnly == \E r \in Requests : parent[r] \in Nonterminal

Busy == \E r \in Requests : parent[r] \in Nonterminal \cup {"reconciled"}

Replace(r) ==
    /\ parent[r] = "absent"
    /\ Depth + 2 <= MaxQueueDepth
    /\ projected.open
    /\ projected.filled < projected.qty
    /\ ~Busy
    /\ parent' = [parent EXCEPT ![r] = "pending"]
    /\ child' = [child EXCEPT ![r] = "pending"]
    /\ originalQuantity' = [originalQuantity EXCEPT ![r] = projected.qty]
    /\ quantity' = [quantity EXCEPT ![r] = projected.qty]
    /\ UNCHANGED << remaining, released, turn, original, projected, sent >>

-----------------------------------------------------------------------------
(* The parent.                                                             *)

(* A replacement's cancel and its placement both wait for every unresolved *)
(* row of the account.                                                     *)
Unfenced == \A r \in Requests : parent[r] \notin Unresolved /\ child[r] \notin Unresolved

ClaimParent(r) ==
    /\ turn = Idle
    /\ parent[r] = "pending"
    /\ Unfenced
    /\ parent' = [parent EXCEPT ![r] = "sending"]
    /\ turn' = Turn("claimed", r, "none", NoFact)
    /\ UNCHANGED << child, originalQuantity, remaining, released, quantity, original, projected, sent >>

(* settle_replace_child, in the transaction that settles the parent.       *)
Release(r, next) ==
    IF next = "reconciled" /\ ~released[r] /\ remaining[r] > 0
      THEN /\ quantity' = IF child[r] = "pending" THEN [quantity EXCEPT ![r] = remaining[r]] ELSE quantity
           /\ released' = [released EXCEPT ![r] = TRUE]
           /\ UNCHANGED child
      ELSE /\ child' = IF next \in Terminal /\ ~released[r] /\ child[r] = "pending"
                         THEN [child EXCEPT ![r] = "cancelled"] ELSE child
           /\ UNCHANGED << quantity, released >>

SettleParent(r, next) ==
    /\ parent[r] \in SettleFrom(next) \/ DeferTo(parent[r], next)
    /\ parent' = [parent EXCEPT ![r] = next]
    /\ Release(r, next)
    /\ UNCHANGED << originalQuantity, remaining, original, projected, sent >>

RejectUnsent ==
    /\ turn.op = "claimed"
    /\ SettleParent(turn.req, "rejected")
    /\ turn' = Idle

(* The signed exact read of the original: `remaining` of terminal_replace  *)
(* counts only a final fact about the quantity that was admitted.          *)
SignedFact(r) ==
    IF ~original.open /\ original.qty = originalQuantity[r]
      THEN original.qty - original.filled ELSE NoFact

SignedState == IF original.open THEN "accepted" ELSE "reconciled"

Learn(r, res) == turn' = Turn("known", r, res, IF res = "reconciled" THEN SignedFact(r) ELSE NoFact)

(* submit_cancel, with or without a request, and its answer.               *)
SubmitParent ==
    /\ turn.op = "claimed"
    /\ \E res \in {"unknown", "rejected", SignedState} : Learn(turn.req, res)
    /\ UNCHANGED << rowVars, original, projected, sent >>

ReadParent(r) ==
    /\ turn = Idle
    /\ parent[r] \in {"accepted", "reconcile_required"}
    /\ \E res \in {"unknown", SignedState} : Learn(r, res)
    /\ UNCHANGED << rowVars, original, projected, sent >>

RecoverParent(r) ==
    /\ turn = Idle
    /\ parent[r] = "sending"
    /\ SettleParent(r, "reconcile_required")
    /\ UNCHANGED turn

(* record_replace_fact: a transaction of its own, before the settlement.   *)
RecordFact ==
    /\ turn.op = "known"
    /\ remaining' = IF released[turn.req] THEN remaining
                    ELSE [remaining EXCEPT ![turn.req] = turn.fact]
    /\ turn' = [turn EXCEPT !.op = "recorded"]
    /\ UNCHANGED << parent, child, originalQuantity, released, quantity, original, projected, sent >>

(* settle_submit_result of a row being sent, readback_with_credentials of  *)
(* any other.                                                              *)
ParentNext(state, res) ==
    CASE res = "rejected"                            -> "rejected"
      [] res = "unknown"                             -> "reconcile_required"
      [] res = "accepted" /\ state = "sending"       -> "accepted"
      [] res = "accepted" /\ state # "sending"       -> state
      [] res = "reconciled" /\ state = "sending"     -> "accepted"
      [] res = "reconciled" /\ state # "sending"     -> "reconciled"

Settle ==
    /\ turn.op = "recorded"
    /\ LET r == turn.req
           next == ParentNext(parent[r], turn.res) IN
        /\ SettleParent(r, next)
        /\ turn' = IF parent[r] = "sending" /\ turn.res = "reconciled"
                     THEN [turn EXCEPT !.op = "accepting"] ELSE Idle

Complete ==
    /\ turn.op = "accepting"
    /\ SettleParent(turn.req, "reconciled")
    /\ turn' = Idle

-----------------------------------------------------------------------------
(* The child: the claim's gate, one submit, and a settlement that          *)
(* CommandLedger describes.                                                *)

ClaimChild(r) ==
    /\ turn = Idle
    /\ child[r] = "pending"
    /\ released[r]
    /\ parent[r] = "reconciled"
    /\ Unfenced
    /\ child' = [child EXCEPT ![r] = "sending"]
    /\ turn' = Turn("placing", r, "none", NoFact)
    /\ UNCHANGED << parent, originalQuantity, remaining, released, quantity, original, projected, sent >>

SendChild ==
    /\ turn.op = "placing"
    /\ sent' = [sent EXCEPT ![turn.req] = @ + quantity[turn.req]]
    /\ turn' = [turn EXCEPT !.op = "placed"]
    /\ UNCHANGED << rowVars, original, projected >>

SettleChild(r, next) ==
    /\ child[r] \in Unresolved
    /\ child[r] \in SettleFrom(next)
    /\ IF turn = Idle
         THEN child[r] = "sending" => next = "reconcile_required"
         ELSE /\ turn.req = r
              /\ turn.op = "placed" \/ (turn.op = "placing" /\ next = "rejected")
    /\ child' = [child EXCEPT ![r] = next]
    /\ turn' = Idle
    /\ UNCHANGED << parent, originalQuantity, remaining, released, quantity, original, projected, sent >>

-----------------------------------------------------------------------------
(* Crashes, and the world.                                                 *)

AbortTurn ==
    /\ turn # Idle
    /\ turn' = Idle
    /\ UNCHANGED << rowVars, original, projected, sent >>

OriginalFills ==
    /\ original.open
    /\ \E n \in (original.filled + 1)..original.qty :
        original' = [original EXCEPT !.filled = n, !.open = (n < original.qty)]
    /\ UNCHANGED << rowVars, turn, projected, sent >>

OriginalEnds ==
    /\ original.open
    /\ original' = [original EXCEPT !.open = FALSE]
    /\ UNCHANGED << rowVars, turn, projected, sent >>

OriginalAmended ==
    /\ original.open
    /\ \E n \in (original.filled + 1)..MaxQuantity : original' = [original EXCEPT !.qty = n]
    /\ UNCHANGED << rowVars, turn, projected, sent >>

ProjectionRefreshed ==
    /\ projected' = original
    /\ UNCHANGED << rowVars, turn, original, sent >>

Next ==
    \/ \E r \in Requests :
        \/ Replace(r)
        \/ ClaimParent(r)
        \/ ReadParent(r)
        \/ RecoverParent(r)
        \/ ClaimChild(r)
        \/ \E next \in CommandState : SettleChild(r, next)
    \/ RejectUnsent
    \/ SubmitParent
    \/ RecordFact
    \/ Settle
    \/ Complete
    \/ SendChild
    \/ AbortTurn
    \/ OriginalFills
    \/ OriginalEnds
    \/ OriginalAmended
    \/ ProjectionRefreshed

Spec == Init /\ [][Next]_vars

-----------------------------------------------------------------------------
(* Properties.                                                             *)

(* The replacement never adds exposure: nothing is sent while the original *)
(* can still fill, what is sent is at most what the original left, and     *)
(* only one of several requests (from a stale projection, after a crash)   *)
(* is ever carried out.                                                    *)
NoOverExposure ==
    \A r \in Requests : sent[r] > 0 =>
        /\ ~original.open
        /\ original.filled + sent[r] <= original.qty
        /\ \A q \in Requests : sent[q] > 0 => q = r

(* A child that waits has a parent that will decide about it: no crash     *)
(* between the transactions leaves it pending behind a settled parent,     *)
(* where it would hold a place in the account's queue for good.            *)
NoOrphanChild ==
    \A r \in Requests :
        (child[r] = "pending" /\ ~released[r]) => parent[r] \in Nonterminal

-----------------------------------------------------------------------------
(* The inductive invariant behind them.                                    *)

\* A fact is final: the original has ended and this is what it left.
Final(fact) == ~original.open /\ fact = original.qty - original.filled

FactsTrue ==
    /\ original.filled <= original.qty
    /\ turn.fact # NoFact => Final(turn.fact)
    /\ \A r \in Requests : remaining[r] # NoFact => Final(remaining[r])

\* The child's state follows the parent's; released is the parent's last word.
RowsAgree ==
    \A r \in Requests :
        /\ parent[r] = "absent" => child[r] = "absent"
        /\ parent[r] \in Nonterminal => child[r] = "pending"
        /\ parent[r] \in {"rejected", "cancelled"} => child[r] = "cancelled"
        /\ parent[r] = "reconciled" => released[r] \/ child[r] = "cancelled"
        /\ released[r] => /\ parent[r] = "reconciled"
                          /\ remaining[r] > 0
                          /\ quantity[r] = remaining[r]

OneCarried ==
    \A q, r \in Requests :
        {parent[q], parent[r]} \subseteq Nonterminal \cup {"reconciled"} => q = r

SentAsReleased ==
    \A r \in Requests :
        sent[r] # 0 => sent[r] = quantity[r] /\ released[r] /\ child[r] # "pending"

TurnSound ==
    /\ turn.op # "idle" => turn.req \in Requests
    /\ turn.op \in {"known", "recorded"} => turn.res # "none"
    /\ turn.op = "placing" => child[turn.req] = "sending" /\ sent[turn.req] = 0

ReplaceInv == TypeOK /\ FactsTrue /\ RowsAgree /\ OneCarried /\ SentAsReleased /\ TurnSound

=============================================================================
