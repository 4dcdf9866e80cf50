-------------------------- MODULE ExecutorDispatch --------------------------
(***************************************************************************)
(* run_until_shutdown (apps/venue-control/src/executor_runtime/dispatch.rs):*)
(* the loop of the singleton executor process around AccountScheduler.     *)
(* Discovery reads, in one await, which accounts have durable work; the    *)
(* loop then admits accounts in id order, spawns the turns the scheduler   *)
(* hands out and joins them.  Turns run concurrently with the loop and     *)
(* write the durable rows; producers add commands at any time.             *)
(*                                                                         *)
(* `view` abstracts PostgreSQL to what recover_account_groups makes of an  *)
(* account: nothing to do, unresolved rows inside their backoff, something *)
(* to claim, or a readback that is due.  A negative readback deadline      *)
(* (Err of reconciliation_due) is excluded by the CHECK of migration 0022. *)
(* The command wake only makes the next discovery earlier and is part of   *)
(* DiscoveryTick.                                                          *)
(***************************************************************************)
EXTENDS AccountScheduler

CONSTANT MaxRestarts    \* bound: process restarts explored

ASSUME AccountsOrdered == Accounts \subseteq Nat    \* BTreeMap iterates in id order
ASSUME TurnsAssumption == Turns = {"Claim", "Reconcile"}
ASSUME DispatchAssumption ==
    /\ MaxGlobalInFlight # 0                           \* 32 in kol_executor.rs
    /\ MaxRestarts \in Nat

VARIABLES
    view,               \* durable: the work of each account
    phase,              \* where the loop is
    groups,             \* local `groups` of the discovery under way
    scheduled,          \* local `scheduled`
    failed,             \* keys of `failed_until` that the next retain keeps
    tasks,              \* JoinSet with task_accounts: tasks of each account
    written,            \* history: accounts a turn wrote since the last read
    restarts            \* bound counter

dispatchVars == << view, phase, groups, scheduled, failed, tasks, written, restarts >>
vars == << schedulerVars, dispatchVars >>

Views == {"none", "waiting", "claim", "reconcile"}
NoGroups == [a \in Accounts |-> "none"]
NoTasks == [a \in Accounts |-> << >>]

DispatchTypeOK ==
    /\ TypeOK
    /\ view \in [Accounts -> Views]
    /\ phase \in {"discover", "admit", "spawn", "select", "failed"}
    /\ groups \in [Accounts -> Views \ {"waiting"}]
    /\ scheduled \subseteq Accounts
    /\ failed \subseteq Accounts
    /\ tasks \in [Accounts -> Seq({"running", "ok", "err"})]
    /\ written \subseteq Accounts
    /\ restarts \in 0..MaxRestarts

ProcessInit ==
    /\ phase = "discover"
    /\ groups = NoGroups
    /\ scheduled = {}
    /\ failed = {}
    /\ tasks = NoTasks
    /\ written = {}

Init ==
    /\ SchedulerInit
    /\ ProcessInit
    /\ view \in [Accounts -> Views]
    /\ restarts = 0

-----------------------------------------------------------------------------
(* The loop.                                                               *)

(* recover_account_groups: accounts whose unresolved rows all wait for     *)
(* their deadline are dropped, unless a terminal cancel is pending (then   *)
(* the view is "claim").                                                   *)
DiscoverRead ==
    /\ phase = "discover"
    /\ groups' = [a \in Accounts |-> IF view[a] = "waiting" THEN "none" ELSE view[a]]
    /\ written' = {}
    /\ phase' = "admit"
    /\ UNCHANGED << schedulerVars, view, scheduled, failed, tasks, restarts >>

Remaining == { a \in Accounts : groups[a] # "none" }
FirstGroup == CHOOSE a \in Remaining : \A b \in Remaining : a <= b

(* Mutant: an account whose turn is queued or running is admitted again.   *)
AdmissibleAgain(a) == a \notin failed

Admissible(a) == a \notin scheduled /\ a \notin failed

AdmitDone ==
    /\ phase = "admit"
    /\ Remaining # {} =>
          Admissible(FirstGroup) /\ Cardinality(scheduled) >= MaxAccounts
    /\ groups' = NoGroups
    /\ phase' = "spawn"
    /\ UNCHANGED << schedulerVars, view, scheduled, failed, tasks, written, restarts >>

AdmitSkip ==
    /\ phase = "admit"
    /\ Remaining # {}
    /\ ~Admissible(FirstGroup)
    /\ groups' = [groups EXCEPT ![FirstGroup] = "none"]
    /\ UNCHANGED << schedulerVars, view, phase, scheduled, failed, tasks, written, restarts >>

TurnFor(group) == IF group = "reconcile" THEN "Reconcile" ELSE "Claim"

(* An Err of enqueue leaves run_until_shutdown.                            *)
(* Mutant: off by one at the limit of active accounts.                     *)
AdmitOneTooMany ==
    /\ phase = "admit"
    /\ Remaining # {}
    /\ Admissible(FirstGroup)
    /\ Cardinality(scheduled) <= MaxAccounts
    /\ LET a == FirstGroup IN
        /\ groups' = [groups EXCEPT ![a] = "none"]
        /\ IF EnqueueAdmitted(a)
             THEN /\ Enqueue(a, TurnFor(groups[a]))
                  /\ scheduled' = scheduled \cup {a}
                  /\ phase' = phase
             ELSE /\ phase' = "failed"
                  /\ UNCHANGED << schedulerVars, scheduled >>
    /\ UNCHANGED << view, failed, tasks, written, restarts >>

AdmitOne ==
    /\ phase = "admit"
    /\ Remaining # {}
    /\ Admissible(FirstGroup)
    /\ Cardinality(scheduled) < MaxAccounts
    /\ LET a == FirstGroup IN
        /\ groups' = [groups EXCEPT ![a] = "none"]
        /\ IF EnqueueAdmitted(a)
             THEN /\ Enqueue(a, TurnFor(groups[a]))
                  /\ scheduled' = scheduled \cup {a}
                  /\ phase' = phase
             ELSE /\ phase' = "failed"
                  /\ UNCHANGED << schedulerVars, scheduled >>
    /\ UNCHANGED << view, failed, tasks, written, restarts >>

Spawn ==
    /\ phase = "spawn"
    /\ ClaimNext
    /\ tasks' = [a \in Accounts |-> IF a \in inFlight' \ inFlight
                                      THEN Append(tasks[a], "running") ELSE tasks[a]]
    /\ UNCHANGED << view, phase, groups, scheduled, failed, written, restarts >>

SpawnDone ==
    /\ phase = "spawn"
    /\ globalInFlight >= MaxGlobalInFlight \/ ready = << >>
    /\ phase' = "select"
    /\ UNCHANGED << schedulerVars, view, groups, scheduled, failed, tasks, written, restarts >>

Finished(a) == { i \in DOMAIN tasks[a] : tasks[a][i] # "running" }

Without(s, i) == SubSeq(s, 1, i - 1) \o SubSeq(s, i + 1, Len(s))

(* Mutant: a failed turn does not give its place in `scheduled` back.      *)
JoinKeepsFailed(a) ==
    /\ phase = "select"
    /\ \E i \in Finished(a) :
        /\ tasks' = [tasks EXCEPT ![a] = Without(@, i)]
        /\ IF SettleAdmitted(a)
             THEN /\ Settle(a)
                  /\ scheduled' = IF tasks[a][i] = "err" THEN scheduled ELSE scheduled \ {a}
                  /\ failed' = IF tasks[a][i] = "err" THEN failed \cup {a} ELSE failed
                  /\ phase' = "spawn"
             ELSE /\ phase' = "failed"
                  /\ UNCHANGED << schedulerVars, scheduled, failed >>
    /\ UNCHANGED << view, groups, written, restarts >>

Join(a) ==
    /\ phase = "select"
    /\ \E i \in Finished(a) :
        /\ tasks' = [tasks EXCEPT ![a] = Without(@, i)]
        /\ IF SettleAdmitted(a)
             THEN /\ Settle(a)
                  /\ scheduled' = scheduled \ {a}
                  /\ failed' = IF tasks[a][i] = "err" THEN failed \cup {a} ELSE failed
                  /\ phase' = "spawn"
             ELSE /\ phase' = "failed"
                  /\ UNCHANGED << schedulerVars, scheduled, failed >>
    /\ UNCHANGED << view, groups, written, restarts >>

(* The select is biased: a finished turn is joined before the interval or  *)
(* the wake is looked at.                                                  *)
DiscoveryTick ==
    /\ phase = "select"
    /\ \A a \in Accounts : Finished(a) = {}
    /\ phase' = "discover"
    /\ UNCHANGED << schedulerVars, view, groups, scheduled, failed, tasks, written, restarts >>

(* Deadlines are compared with the clock read at the start of a discovery. *)
CooldownElapses(a) ==
    /\ phase # "admit"
    /\ a \in failed
    /\ failed' = failed \ {a}
    /\ UNCHANGED << schedulerVars, view, phase, groups, scheduled, tasks, written, restarts >>

-----------------------------------------------------------------------------
(* Concurrent with the loop: turns, producers, time, the process itself.   *)

Running(a) == { i \in DOMAIN tasks[a] : tasks[a][i] = "running" }

TurnWrites(a) ==
    /\ Running(a) # {}
    /\ view' \in { [view EXCEPT ![a] = v] : v \in Views }
    /\ written' = written \cup {a}
    /\ UNCHANGED << schedulerVars, phase, groups, scheduled, failed, tasks, restarts >>

TurnEnds(a) ==
    /\ \E i \in Running(a), result \in {"ok", "err"} :
        tasks' = [tasks EXCEPT ![a][i] = result]
    /\ UNCHANGED << schedulerVars, view, phase, groups, scheduled, failed, written, restarts >>

ProducerCommits(a) ==
    /\ view[a] \in {"none", "waiting"}
    /\ view' = [view EXCEPT ![a] = "claim"]
    /\ UNCHANGED << schedulerVars, phase, groups, scheduled, failed, tasks, written, restarts >>

BackoffElapses(a) ==
    /\ view[a] = "waiting"
    /\ view' = [view EXCEPT ![a] = "reconcile"]
    /\ UNCHANGED << schedulerVars, phase, groups, scheduled, failed, tasks, written, restarts >>

(* Shutdown or crash aborts every turn; the next process starts empty.     *)
(* Mutant: turns are left running behind the new process.                  *)
RestartKeepsTurns ==
    /\ restarts < MaxRestarts
    /\ restarts' = restarts + 1
    /\ present' = {} /\ inFlight' = {} /\ globalInFlight' = 0
    /\ queued' = [a \in Accounts |-> << >>] /\ ready' = << >>
    /\ phase' = "discover" /\ groups' = NoGroups /\ scheduled' = {}
    /\ failed' = {} /\ written' = {}
    /\ UNCHANGED << view, tasks >>

Restart ==
    /\ restarts < MaxRestarts
    /\ restarts' = restarts + 1
    /\ present' = {} /\ inFlight' = {} /\ globalInFlight' = 0
    /\ queued' = [a \in Accounts |-> << >>] /\ ready' = << >>
    /\ phase' = "discover" /\ groups' = NoGroups /\ scheduled' = {}
    /\ failed' = {} /\ tasks' = NoTasks /\ written' = {}
    /\ UNCHANGED view

Loop ==
    \/ DiscoverRead
    \/ AdmitDone
    \/ AdmitSkip
    \/ AdmitOne
    \/ Spawn
    \/ SpawnDone
    \/ \E a \in Accounts : Join(a)
    \/ DiscoveryTick

Next ==
    \/ Loop
    \/ \E a \in Accounts :
        \/ CooldownElapses(a)
        \/ TurnWrites(a)
        \/ TurnEnds(a)
        \/ ProducerCommits(a)
        \/ BackoffElapses(a)
    \/ Restart

(* The loop is always runnable (its interval keeps ticking), a turn ends   *)
(* because its network and database calls time out, and clocks advance.    *)
Fairness ==
    /\ WF_vars(Loop)
    /\ \A a \in Accounts :
        /\ WF_vars(TurnEnds(a))
        /\ SF_vars(CooldownElapses(a))

Spec == Init /\ [][Next]_vars /\ Fairness

-----------------------------------------------------------------------------
(* Properties.                                                             *)

(* `?` on enqueue and settle never fires: no interleaving of discovery,    *)
(* turns and joins makes the scheduler refuse the loop, which would stop   *)
(* the executor for every account.                                         *)
LoopNeverRefused == phase # "failed"

(* The rows a queued turn was built from are still the durable rows: no    *)
(* turn of the account wrote since the read.  A stale Reconcile group      *)
(* would move a command whose POST is under way to reconcile_required.     *)
FreshSnapshots == \A a \in Accounts : queued[a] # << >> => a \notin written

(* The dispatcher implements SerialTurns: one turn per account, bounded    *)
(* concurrency, whatever the order of reads, joins and restarts.           *)
TurnsUnderWay == [a \in Accounts |-> Len(tasks[a])]
Serializer == INSTANCE SerialTurns WITH
    Limit <- MaxGlobalInFlight,
    turns <- TurnsUnderWay
SerializesTurns == Serializer!TurnsSpec

(* Durable work is eventually given a turn (or is withdrawn by a running   *)
(* one), even for an account whose turns keep failing, if its id is among  *)
(* the MaxAccounts smallest.  dispatch.rs:42 promises it to every account, *)
(* "discovered as soon as a slot is released"; but each discovery starts   *)
(* again from the smallest id, so an account beyond the limit is served    *)
(* only when those before it run dry.                                      *)
FirstServed ==
    \A a \in Accounts : Cardinality({ b \in Accounts : b < a }) < MaxAccounts =>
        (view[a] \in {"claim", "reconcile"} ~> (tasks[a] # << >> \/ view[a] \in {"none", "waiting"}))

-----------------------------------------------------------------------------
(* The inductive invariant behind LoopNeverRefused, FreshSnapshots and     *)
(* SerializesTurns.                                                        *)

(* The loop's locals, the scheduler's map and the JoinSet speak of the     *)
(* same accounts: `scheduled` is the map, an account in flight has one     *)
(* task and nothing queued, any other at most one turn queued and no task. *)
LocalsAgree ==
    /\ scheduled = present
    /\ \A a \in Accounts :
        /\ a \in inFlight => queued[a] = << >> /\ Len(tasks[a]) = 1
        /\ a \notin inFlight => tasks[a] = << >> /\ Len(queued[a]) <= 1

(* Between the read and the last admission, only accounts in flight are    *)
(* written; they are not admitted.                                         *)
ReadHolds == phase = "admit" => written \subseteq inFlight

DispatchAgreement ==
    /\ DispatchTypeOK
    /\ LocalsAgree
    /\ ReadHolds
    /\ LoopNeverRefused
    /\ FreshSnapshots
=============================================================================
