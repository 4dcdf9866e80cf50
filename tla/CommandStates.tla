---------------------------- MODULE CommandStates ----------------------------
(***************************************************************************)
(* The states of a row of venue_binance_commands and the transitions its   *)
(* only writers accept: settle_with_execution and defer_reconciliation.    *)
(* Shared by every module that models a durable Binance command.           *)
(***************************************************************************)

(* ExecutorCommandState; "absent" is a row that does not exist yet.        *)
CommandState == {"absent", "pending", "sending", "accepted", "rejected",
                 "reconcile_required", "reconciled", "cancelled"}

(* Sent and not settled: what the claim's fence looks for.                 *)
Unresolved == {"sending", "accepted", "reconcile_required"}

(* Counted by lock_account_command_queue.                                  *)
Nonterminal == {"pending"} \cup Unresolved

(* Mutant: a rejected command is not counted as finished.                  *)
TerminalWithoutRejected == {"reconciled", "cancelled"}

Terminal == {"rejected", "reconciled", "cancelled"}

(* settle_with_execution: the states a row may be in for the transition to *)
(* `next`; from any other state the call is a Conflict that changes        *)
(* nothing.  There is no transition into pending or sending.               *)
SettleFrom(next) ==
    CASE next = "accepted"           -> {"sending"}
      [] next = "rejected"           -> {"sending", "reconcile_required"}
      [] next = "reconcile_required" -> {"sending", "accepted"}
      [] next = "reconciled"         -> {"accepted", "reconcile_required"}
      [] next = "cancelled"          -> {"pending"}
      [] OTHER                       -> {}

(* defer_reconciliation: the state a deferred row is left in; an accepted  *)
(* row may be demoted, a reconcile_required row never promoted.            *)
DeferTo(current, next) ==
    /\ current \in {"accepted", "reconcile_required"}
    /\ next \in {"accepted", "reconcile_required"}
    /\ current = "reconcile_required" => next = "reconcile_required"
=============================================================================
