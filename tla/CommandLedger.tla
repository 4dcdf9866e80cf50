---------------------------- MODULE CommandLedger ----------------------------
(***************************************************************************)
(* The durable Binance command from admission to settlement: the claim     *)
(* (kol_executor.rs claim_next_batch), the one physical submit             *)
(* (executor_runtime.rs submit), the two-transaction settlement            *)
(* (settle_submit_result), restart recovery and signed readback            *)
(* (reconcile, readback_with_credentials).                                 *)
(*                                                                         *)
(* Each account has one worker: the turn of ExecutorDispatch.  Every       *)
(* database transaction and every network step is an action of its own; a  *)
(* turn may be aborted between any two of them (process crash, shutdown,   *)
(* database error propagated with `?`), which leaves the rows as they are  *)
(* and a request that was already sent on its way.  The exchange is        *)
(* external: it may receive a request late, never, refuse it or act on it, *)
(* and its answer may be lost.                                             *)
(*                                                                         *)
(* Data is reduced to what the claim and the settlement look at.  A command*)
(* is a limit or market placement or a cancel of one placed order.  An     *)
(* Accepted or Reconciled outcome without the signed identity or fact that *)
(* settlement demands (signed_identity_missing, require_signed_mirror_fact)*)
(* is the outcome "unknown".  Readback backoff only delays a readback and  *)
(* is left to ExecutorDispatch.                                            *)
(***************************************************************************)
EXTENDS CommandStates, Naturals, Sequences, FiniteSets

CONSTANTS
    Accounts,
    Commands,
    AccountOf,          \* trading_account_id of a command
    KindOf,             \* order_kind: "limit", "market" or "cancel"
    TargetOf,           \* selected order of a cancel: the command that placed it
    Standalone,         \* terminal cancels that are no replacement's parent
    Revocable,          \* copy placements: withdrawn while pending
    MaxQueueDepth,      \* MAX_ACCOUNT_QUEUE_DEPTH
    MaxAborts,          \* bound: aborted turns explored
    NoCommand           \* cmd of an idle worker

Kinds == {"limit", "market", "cancel"}
Placements == { c \in Commands : KindOf[c] # "cancel" }
Cancels == { c \in Commands : KindOf[c] = "cancel" }

ASSUME LedgerAssumption ==
    /\ AccountOf \in [Commands -> Accounts]
    /\ KindOf \in [Commands -> Kinds]
    /\ TargetOf \in [Commands -> Commands]
    /\ \A c \in Cancels : KindOf[TargetOf[c]] = "limit"
    /\ Standalone \subseteq Cancels
    /\ Revocable \subseteq Placements
    /\ MaxQueueDepth \in Nat
    /\ MaxAborts \in Nat
    /\ NoCommand \notin Commands

VARIABLES
    state,              \* command_state of each row
    queue,              \* rows in created_ms order
    worker,             \* the account's turn
    wire,               \* the submit request: not sent, in transit, gone
    order,              \* the order a placement created at the exchange
    reply,              \* what the exchange answers to the submit request
    posts,              \* history: physical submit requests per command
    aborts,             \* bound counter
    retired             \* copy rows whose relation has moved on

vars == << state, queue, worker, wire, order, reply, posts, aborts, retired >>

Ops == {"idle", "claimed", "sent", "answered", "accepting", "read", "rejecting"}
Outcomes == {"none", "accepted", "reconciled", "rejected", "unknown", "deferred"}
Holding(op, c, res) == [op |-> op, cmd |-> c, res |-> res]
Idle == Holding("idle", NoCommand, "none")

TypeOK ==
    /\ state \in [Commands -> CommandState]
    /\ queue \in Seq(Commands)
    /\ worker \in [Accounts -> [op : Ops, cmd : Commands \cup {NoCommand}, res : Outcomes]]
    /\ wire \in [Commands -> {"none", "transit", "gone"}]
    /\ order \in [Commands -> {"none", "live", "filled", "void"}]
    /\ reply \in [Commands -> {"none", "ack", "refused"}]
    /\ posts \in [Commands -> Nat]
    /\ aborts \in Nat
    /\ retired \subseteq Revocable

Init ==
    /\ state = [c \in Commands |-> "absent"]
    /\ queue = << >>
    /\ worker = [a \in Accounts |-> Idle]
    /\ wire = [c \in Commands |-> "none"]
    /\ order = [c \in Commands |-> "none"]
    /\ reply = [c \in Commands |-> "none"]
    /\ posts = [c \in Commands |-> 0]
    /\ aborts = 0
    /\ retired = {}

-----------------------------------------------------------------------------
(* Admission and withdrawal by the control server.                         *)

Depth(a) == Cardinality({ c \in Commands : AccountOf[c] = a /\ state[c] \in Nonterminal })

(* The cancelled order was seen open in a signed projection; by now it may *)
(* have ended.                                                             *)
Admit(c) ==
    /\ state[c] = "absent"
    /\ Depth(AccountOf[c]) < MaxQueueDepth
    /\ c \in Cancels => order[TargetOf[c]] # "none"
    /\ state' = [state EXCEPT ![c] = "pending"]
    /\ queue' = Append(queue, c)
    /\ UNCHANGED << worker, wire, order, reply, posts, aborts, retired >>

(* The follow relation of copy commands moves on: its revision, its state, *)
(* its profile or its symbols change.  A pause also cancels the commands   *)
(* that are still pending (cancel_pending_copy_commands); the rest is left *)
(* to the next claim.                                                      *)
Copies == { c \in Revocable : state[c] # "absent" }

Swept(S) == [c \in Commands |-> IF c \in S /\ state[c] = "pending" THEN "cancelled" ELSE state[c]]

Retire(S) ==
    /\ retired' = retired \cup S
    /\ UNCHANGED << state, queue, worker, wire, order, reply, posts, aborts >>

Pause(S) ==
    /\ retired' = retired \cup S
    /\ state' = Swept(S)
    /\ UNCHANGED << queue, worker, wire, order, reply, posts, aborts >>

-----------------------------------------------------------------------------
(* Claim and submit.                                                       *)

(* The fence of claim_next_batch: nothing of the account is unresolved,    *)
(* except that a standalone exact cancel passes rows that are not sending  *)
(* and are not a cancel of the same order.                                 *)
(* Mutant: the same-order condition of the fence's exception is lost.      *)
PassesSameOrder(c, blocked) ==
    /\ state[blocked] # "sending"
    /\ c \in Standalone

Passes(c, blocked) ==
    /\ state[blocked] # "sending"
    /\ c \in Standalone
    /\ ~(blocked \in Cancels /\ TargetOf[blocked] = TargetOf[c])

Eligible(c) ==
    /\ state[c] = "pending"
    /\ c \notin retired
    /\ \A b \in Commands :
        (AccountOf[b] = AccountOf[c] /\ state[b] \in Unresolved) => Passes(c, b)

OldestEligible(c) ==
    \E i \in DOMAIN queue :
        /\ queue[i] = c
        /\ Eligible(c)
        /\ \A j \in 1..(i - 1) : AccountOf[queue[j]] = AccountOf[c] => ~Eligible(queue[j])

(* lock_account_claim retires what the relation no longer stands for, in   *)
(* the transaction of the claim, whether or not a row is found.            *)
RetiredOf(a) == { c \in retired : AccountOf[c] = a }

Claim(a, c) ==
    /\ worker[a] = Idle
    /\ AccountOf[c] = a
    /\ OldestEligible(c)
    /\ state' = [Swept(RetiredOf(a)) EXCEPT ![c] = "sending"]
    /\ worker' = [worker EXCEPT ![a] = Holding("claimed", c, "none")]
    /\ UNCHANGED << queue, wire, order, reply, posts, aborts, retired >>

ClaimNothing(a) ==
    /\ worker[a] = Idle
    /\ \A c \in Commands : AccountOf[c] = a => ~Eligible(c)
    /\ state' = Swept(RetiredOf(a))
    /\ UNCHANGED << queue, worker, wire, order, reply, posts, aborts, retired >>

(* Everything submit does before exchange.submit, and every error with     *)
(* which exchange.submit proves that nothing was sent, ends here: missing  *)
(* credentials, reservations, market baseline, mirror admission, rules.    *)
RejectUnsent(a) ==
    /\ worker[a].op = "claimed"
    /\ LET c == worker[a].cmd IN
        /\ state[c] \in SettleFrom("rejected")
        /\ state' = [state EXCEPT ![c] = "rejected"]
    /\ worker' = [worker EXCEPT ![a] = Idle]
    /\ UNCHANGED << queue, wire, order, reply, posts, aborts, retired >>

(* submit_cancel: the signed snapshot no longer shows the order, so the    *)
(* cancel is done and no request is sent.                                  *)
CancelAlreadyTrue(a) ==
    /\ worker[a].op = "claimed"
    /\ worker[a].cmd \in Cancels
    /\ order[TargetOf[worker[a].cmd]] # "live"
    /\ worker' = [worker EXCEPT ![a] = Holding("answered", worker[a].cmd, "reconciled")]
    /\ UNCHANGED << state, queue, wire, order, reply, posts, aborts, retired >>

Send(a) ==
    /\ worker[a].op = "claimed"
    /\ LET c == worker[a].cmd IN
        /\ c \in Cancels => order[TargetOf[c]] = "live"
        /\ wire' = [wire EXCEPT ![c] = "transit"]
        /\ posts' = [posts EXCEPT ![c] = @ + 1]
        /\ worker' = [worker EXCEPT ![a] = Holding("sent", c, "none")]
    /\ UNCHANGED << state, queue, order, reply, aborts, retired >>

(* What a signed exact readback can say of a command.  The absence of a    *)
(* placement is never proof that the exchange did not receive it.  A copy  *)
(* limit order is settled by its exact fact (mirror_order_outcome) even if *)
(* it ended unfilled; any other order that ended unfilled is rejected.     *)
Tracked(c) == c \in Revocable /\ KindOf[c] = "limit"

(* Mutant: an order that is not found is taken for one that never was.     *)
SignedAbsenceRejects(c) ==
    IF c \in Cancels
      THEN IF order[TargetOf[c]] = "live" THEN {"accepted"} ELSE {"reconciled"}
      ELSE CASE order[c] = "none"   -> {"rejected"}
             [] order[c] = "live"   -> IF Tracked(c) THEN {"reconciled"} ELSE {"accepted"}
             [] order[c] = "filled" -> {"reconciled"}
             [] order[c] = "void"   -> IF Tracked(c) THEN {"reconciled", "rejected"} ELSE {"rejected"}

Signed(c) ==
    IF c \in Cancels
      THEN IF order[TargetOf[c]] = "live" THEN {"accepted"} ELSE {"reconciled"}
      ELSE CASE order[c] = "none"   -> {}
             [] order[c] = "live"   -> IF Tracked(c) THEN {"reconciled"} ELSE {"accepted"}
             [] order[c] = "filled" -> {"reconciled"}
             [] order[c] = "void"   -> IF Tracked(c) THEN {"reconciled", "rejected"} ELSE {"rejected"}

(* dispatch_then_exact_readback: an explicit refusal, an acknowledgement   *)
(* with its readback, or (timeout, disconnect, 5xx, unreadable answer,     *)
(* position not converged) unknown, also when the request never arrived.   *)
Answer(a) ==
    /\ worker[a].op = "sent"
    /\ LET c == worker[a].cmd IN
        \E res \in {"unknown"}
                    \cup (IF reply[c] = "ack" THEN Signed(c) ELSE {})
                    \cup (IF reply[c] = "refused" THEN {"rejected"} ELSE {}) :
            worker' = [worker EXCEPT ![a] = Holding("answered", c, res)]
    /\ UNCHANGED << state, queue, wire, order, reply, posts, aborts, retired >>

(* settle_submit_result.  Accepted is always stored first; a reconciled    *)
(* outcome and an accepted limit order are completed in a second           *)
(* transaction.                                                            *)
(* Mutant: an unknown outcome is settled as a failure.                     *)
SettledUnknownFails(res) == IF res \in {"rejected", "unknown"} THEN "rejected" ELSE "accepted"

Settled(res) ==
    CASE res = "rejected" -> "rejected"
      [] res = "unknown"  -> "reconcile_required"
      [] OTHER            -> "accepted"

(* Mutant: an accepted cancel counts as done.                              *)
CompletesOnAcceptCancel(c) == KindOf[c] # "market"

CompletesOnAccept(c) == KindOf[c] = "limit"

Settle(a) ==
    /\ worker[a].op = "answered"
    /\ LET c == worker[a].cmd
           res == worker[a].res
           next == Settled(res) IN
        /\ state[c] \in SettleFrom(next)
        /\ state' = [state EXCEPT ![c] = next]
        /\ worker' = [worker EXCEPT ![a] =
              IF next = "accepted" /\ (res = "reconciled" \/ CompletesOnAccept(c))
                THEN Holding("accepting", c, res) ELSE Idle]
    /\ UNCHANGED << queue, wire, order, reply, posts, aborts, retired >>

Complete(a) ==
    /\ worker[a].op = "accepting"
    /\ LET c == worker[a].cmd IN
        /\ state[c] \in SettleFrom("reconciled")
        /\ state' = [state EXCEPT ![c] = "reconciled"]
    /\ worker' = [worker EXCEPT ![a] = Idle]
    /\ UNCHANGED << queue, wire, order, reply, posts, aborts, retired >>

-----------------------------------------------------------------------------
(* Recovery and readback.                                                  *)

(* reconcile of a row found sending: a restart never submits again.        *)
(* Mutant: a restart puts a claimed row back into the queue.               *)
RecoverSendingRetries(a, c) ==
    /\ worker[a] = Idle
    /\ AccountOf[c] = a
    /\ state[c] = "sending"
    /\ state' = [state EXCEPT ![c] = "pending"]
    /\ UNCHANGED << queue, worker, wire, order, reply, posts, aborts, retired >>

RecoverSending(a, c) ==
    /\ worker[a] = Idle
    /\ AccountOf[c] = a
    /\ state[c] = "sending"
    /\ state' = [state EXCEPT ![c] = "reconcile_required"]
    /\ UNCHANGED << queue, worker, wire, order, reply, posts, aborts, retired >>

(* The signed readback: a failed or inconclusive read is "unknown";        *)
(* without credentials the row is only deferred.                           *)
(* Mutants: accepted rows are forgotten; uncertain rows are forgotten.     *)
ReadBackUncertainOnly(a, c, res) ==
    /\ worker[a] = Idle
    /\ AccountOf[c] = a
    /\ state[c] = "reconcile_required"
    /\ res \in {"deferred", "unknown"} \cup Signed(c)
    /\ worker' = [worker EXCEPT ![a] = Holding("read", c, res)]
    /\ UNCHANGED << state, queue, wire, order, reply, posts, aborts, retired >>

ReadBackAcceptedOnly(a, c, res) ==
    /\ worker[a] = Idle
    /\ AccountOf[c] = a
    /\ state[c] = "accepted"
    /\ res \in {"deferred", "unknown"} \cup Signed(c)
    /\ worker' = [worker EXCEPT ![a] = Holding("read", c, res)]
    /\ UNCHANGED << state, queue, wire, order, reply, posts, aborts, retired >>

ReadBack(a, c, res) ==
    /\ worker[a] = Idle
    /\ AccountOf[c] = a
    /\ state[c] \in {"accepted", "reconcile_required"}
    /\ res \in {"deferred", "unknown"} \cup Signed(c)
    /\ worker' = [worker EXCEPT ![a] = Holding("read", c, res)]
    /\ UNCHANGED << state, queue, wire, order, reply, posts, aborts, retired >>

(* The match of readback_with_credentials.  A rejection of an accepted row *)
(* takes two transactions, because settle only rejects from                *)
(* reconcile_required.                                                     *)
ReadSettled(c, res) ==
    CASE res = "reconciled"                           -> "reconciled"
      [] res = "accepted" /\ CompletesOnAccept(c)     -> "reconciled"
      [] res = "accepted" /\ ~CompletesOnAccept(c)    -> state[c]
      [] res = "deferred"                             -> state[c]
      [] res = "rejected" /\ state[c] # "accepted"    -> "rejected"
      [] OTHER                                        -> "reconcile_required"

SettleRead(a) ==
    /\ worker[a].op = "read"
    /\ LET c == worker[a].cmd
           res == worker[a].res
           next == ReadSettled(c, res) IN
        /\ state[c] \in SettleFrom(next) \/ DeferTo(state[c], next)
        /\ state' = [state EXCEPT ![c] = next]
        /\ worker' = [worker EXCEPT ![a] =
              IF res = "rejected" /\ state[c] = "accepted"
                THEN Holding("rejecting", c, res) ELSE Idle]
    /\ UNCHANGED << queue, wire, order, reply, posts, aborts, retired >>

RejectRead(a) ==
    /\ worker[a].op = "rejecting"
    /\ LET c == worker[a].cmd IN
        /\ state[c] \in SettleFrom("rejected")
        /\ state' = [state EXCEPT ![c] = "rejected"]
    /\ worker' = [worker EXCEPT ![a] = Idle]
    /\ UNCHANGED << queue, wire, order, reply, posts, aborts, retired >>

(* Crash, shutdown (tasks.shutdown), or an error that ends the turn.       *)
AbortTurn(a) ==
    /\ worker[a] # Idle
    /\ aborts < MaxAborts
    /\ aborts' = aborts + 1
    /\ worker' = [worker EXCEPT ![a] = Idle]
    /\ UNCHANGED << state, queue, wire, order, reply, posts, retired >>

-----------------------------------------------------------------------------
(* The exchange and the network (external).                                *)

DeliverPlacement(c) ==
    /\ c \in Placements
    /\ wire[c] = "transit"
    /\ wire' = [wire EXCEPT ![c] = "gone"]
    /\ \/ /\ \E o \in (IF KindOf[c] = "limit" THEN {"live", "filled", "void"}
                                              ELSE {"filled", "void"}) :
              order' = [order EXCEPT ![c] = o]
          /\ reply' = [reply EXCEPT ![c] = "ack"]
       \/ /\ reply' = [reply EXCEPT ![c] = "refused"]
          /\ UNCHANGED order
    /\ UNCHANGED << state, queue, worker, posts, aborts, retired >>

(* A cancelled order ends with or without fills.                           *)
DeliverCancel(c) ==
    /\ c \in Cancels
    /\ wire[c] = "transit"
    /\ wire' = [wire EXCEPT ![c] = "gone"]
    /\ LET t == TargetOf[c] IN
        IF order[t] = "live"
          THEN /\ \E o \in {"filled", "void"} : order' = [order EXCEPT ![t] = o]
               /\ reply' = [reply EXCEPT ![c] = "ack"]
          ELSE /\ reply' = [reply EXCEPT ![c] = "refused"]
               /\ UNCHANGED order
    /\ UNCHANGED << state, queue, worker, posts, aborts, retired >>

LoseRequest(c) ==
    /\ wire[c] = "transit"
    /\ wire' = [wire EXCEPT ![c] = "gone"]
    /\ UNCHANGED << state, queue, worker, order, reply, posts, aborts, retired >>

(* Fill, expiry or a cancel from elsewhere.                                *)
OrderEnds(c) ==
    /\ order[c] = "live"
    /\ \E o \in {"filled", "void"} : order' = [order EXCEPT ![c] = o]
    /\ UNCHANGED << state, queue, worker, wire, reply, posts, aborts, retired >>

-----------------------------------------------------------------------------
Next ==
    \/ \E c \in Commands :
        \/ Admit(c)
        \/ DeliverPlacement(c)
        \/ DeliverCancel(c)
        \/ LoseRequest(c)
        \/ OrderEnds(c)
    \/ \E S \in SUBSET Copies : Retire(S) \/ Pause(S)
    \/ \E a \in Accounts :
        \/ ClaimNothing(a)
        \/ RejectUnsent(a)
        \/ CancelAlreadyTrue(a)
        \/ Send(a)
        \/ Answer(a)
        \/ Settle(a)
        \/ Complete(a)
        \/ SettleRead(a)
        \/ RejectRead(a)
        \/ AbortTurn(a)
        \/ \E c \in Commands :
            \/ Claim(a, c)
            \/ RecoverSending(a, c)
            \/ \E res \in Outcomes : ReadBack(a, c, res)

Spec == Init /\ [][Next]_vars

(* A turn's steps end (bounded retries and timeouts) and every turn with   *)
(* unresolved rows reads each of them that is due (reconcile_group); the   *)
(* signed read is assumed to succeed again and again.                      *)
WorkerStep(a) ==
    \/ RejectUnsent(a)
    \/ CancelAlreadyTrue(a)
    \/ Send(a)
    \/ Answer(a)
    \/ Settle(a)
    \/ Complete(a)
    \/ SettleRead(a)
    \/ RejectRead(a)

Fairness ==
    \A a \in Accounts :
        /\ WF_vars(WorkerStep(a))
        /\ \A c \in Commands :
            /\ SF_vars(RecoverSending(a, c))
            /\ SF_vars(\E res \in Signed(c) : ReadBack(a, c, res))

FairSpec == Spec /\ Fairness

-----------------------------------------------------------------------------
(* Properties.                                                             *)

(* No crash, lost answer or readback leads to a second physical submit of  *)
(* a command, and none is sent for a row that was never claimed or was     *)
(* withdrawn.                                                              *)
SentOnce ==
    \A c \in Commands :
        /\ posts[c] <= 1
        /\ state[c] \in {"absent", "pending", "cancelled"} => posts[c] = 0

(* A copy command that still waits when its relation moves on is never     *)
(* sent, whichever of the pause and the claim comes first; one that was    *)
(* claimed before is not withdrawn but settled.                            *)
RetiredNeverSent ==
    [][\A c \in retired :
          /\ state[c] = "pending" => state'[c] \in {"pending", "cancelled"}
          /\ state[c] \in Unresolved => state'[c] # "cancelled"]_vars

(* The uncertainty fence: on one account at most one unresolved command is *)
(* anything but a standalone cancel, at most one is being sent, and no two *)
(* unresolved commands cancel the same order.                              *)
Fence ==
    \A c, d \in Commands :
        (/\ c # d
         /\ AccountOf[c] = AccountOf[d]
         /\ state[c] \in Unresolved
         /\ state[d] \in Unresolved) =>
            /\ ~(state[c] = "sending" /\ state[d] = "sending")
            /\ c \in Standalone \/ d \in Standalone
            /\ ~(c \in Cancels /\ d \in Cancels /\ TargetOf[c] = TargetOf[d])

(* A command reported rejected or cancelled has no order at the exchange,  *)
(* resting or executed, and no request under way that could create one.    *)
NoHiddenExposure ==
    \A c \in Placements :
        state[c] \in {"rejected", "cancelled"} =>
            order[c] \in {"none", "void"} /\ wire[c] # "transit"

(* A cancel is reported done only when its order has ended, although the   *)
(* row is settled after the read and perhaps by another turn.              *)
CancelTruth ==
    \A c \in Cancels : state[c] = "reconciled" => order[TargetOf[c]] \in {"filled", "void"}

(* Every placement keeps the contract of CommandContract.                  *)
Phase(s) ==
    CASE s \in {"absent", "pending"} -> "open"
      [] s \in Unresolved           -> "committed"
      [] s = "cancelled"            -> "withdrawn"
      [] s = "reconciled"           -> "done"
      [] s = "rejected"             -> "failed"

Effect(o) ==
    CASE o = "none"               -> "none"
      [] o \in {"live", "filled"} -> "alive"
      [] o = "void"               -> "dead"

Contract == INSTANCE CommandContract WITH
    phase <- [c \in Placements |-> Phase(state[c])],
    effect <- [c \in Placements |-> Effect(order[c])]
KeepsContract == Contract!ContractSpec

(* What the exchange did is eventually reported, after crashes and lost    *)
(* answers too: a placement it acted on, and a claimed cancel whose order  *)
(* has ended, never wait for something that will not come.                 *)
ExchangeOutcomesSettle ==
    /\ \A c \in Placements : order[c] # "none" ~> state[c] \in {"reconciled", "rejected"}
    /\ \A c \in Cancels :
          (state[c] \in Unresolved /\ order[TargetOf[c]] # "live")
              ~> state[c] \in {"reconciled", "rejected"}
-----------------------------------------------------------------------------
(* The inductive invariant behind the safety properties.                   *)

(* What a worker holds is still true when it settles it.                   *)
OutcomeSound(c, res) ==
    /\ (c \in Placements /\ res = "rejected") => wire[c] = "gone" /\ order[c] \in {"none", "void"}
    /\ (c \in Placements /\ res \in {"accepted", "reconciled"}) => order[c] # "none"
    /\ (c \in Cancels /\ res = "reconciled") => order[TargetOf[c]] \in {"filled", "void"}

BusySound(a, c, op, res) ==
    /\ c \in Commands
    /\ AccountOf[c] = a
    /\ op # "idle"
    /\ op \in {"claimed", "sent", "answered"} => state[c] = "sending"
    /\ op = "claimed" => posts[c] = 0
    /\ op = "answered" => res \in {"accepted", "reconciled", "rejected", "unknown"}
    /\ op = "accepting" =>
          /\ state[c] = "accepted"
          /\ res = "reconciled" \/ (res = "accepted" /\ CompletesOnAccept(c))
    /\ op = "read" => state[c] \in {"accepted", "reconcile_required"}
    /\ op = "rejecting" => state[c] = "reconcile_required" /\ res = "rejected"
    /\ op \in {"answered", "accepting", "read", "rejecting"} => OutcomeSound(c, res)

WorkersSound ==
    \A a \in Accounts :
        worker[a] # Idle => BusySound(a, worker[a].cmd, worker[a].op, worker[a].res)

RowSound(c) ==
    /\ state[c] \in {"absent", "pending", "cancelled"} => posts[c] = 0
    /\ (c \in Placements /\ state[c] = "rejected") =>
          wire[c] # "transit" /\ order[c] \in {"none", "void"}
    /\ (c \in Placements /\ state[c] = "reconciled") => order[c] # "none"
    /\ (c \in Cancels /\ state[c] = "reconciled") => order[TargetOf[c]] \in {"filled", "void"}
    /\ (c \in Cancels /\ state[c] # "absent") => order[TargetOf[c]] # "none"

RequestSound(c) ==
    /\ posts[c] <= 1
    /\ posts[c] = 0 => wire[c] = "none"
    /\ order[c] # "none" => wire[c] = "gone"
    /\ (c \in Placements /\ reply[c] = "refused") => wire[c] = "gone" /\ order[c] = "none"
    /\ c \in Cancels => order[c] = "none"

RowsSound == \A c \in Commands : RowSound(c)
RequestsSound == \A c \in Commands : RequestSound(c)

LedgerInv ==
    /\ TypeOK
    /\ WorkersSound
    /\ RowsSound
    /\ RequestsSound
    /\ Fence
=============================================================================
