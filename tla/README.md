# A TLA+ model of Venue's execution core

Venue is a trading platform in Rust.  A control server (`apps/venue-control`)
admits trading commands from KOL leaders, copy followers, strategies and the web
terminal as durable rows in PostgreSQL.  One executor process claims the rows,
signs and sends each of them to the exchange at most once, and settles it from what
the exchange can prove.  Beside it live the durable building blocks of the single-account
host (`crates/venue-execution`): a command journal and a writer lease on local files.
This directory models those paths: from a decision to the row, to the exchange and back,
across crashes, lost answers and stale reads.

What can really go wrong there is exposure nobody knows of: an order sent twice, an
order reported failed that is live, a replacement sent beside its original, a source
copied twice, an instance reported stopped with orders at rest, two writers at once, an
account that is fenced or starved for good.  The properties below are about that.

Paths in this file are relative to the repository; `PROJECT.json` maps every
definition to the lines it models.

## 1. Inventory

| Component | Where | State | Operations | Hard behaviour |
|---|---|---|---|---|
| Account scheduler | `kol_executor.rs` (`AccountSerialScheduler`) | map of account queues and in-flight flags, ready queue, in-flight counter | `enqueue`, `claim_next`, `settle` | duplicates in the ready queue, counter drift, starvation |
| Dispatch loop | `executor_runtime/dispatch.rs` | `scheduled`, `failed_until`, JoinSet of turns | discover, admit, spawn, join, cool down | rows read in one await and used after others wrote them; one `?` ends the loop for everybody |
| Command ledger | `kol_executor.rs`, `kol_executor/copy_gate.rs`, `executor_store.rs` | `venue_binance_commands` rows and their `command_state` | admit, claim, settle, defer, cancel pending, sweep of stale copies | the fence around uncertain commands and its exception for exact cancels; pause against claim |
| Executor turn | `executor_runtime.rs`, `executor_exchange.rs`, `venue-gateway-binance/src/transport.rs` | none that survives a crash | submit, settle in two transactions, recover, read back | crash between any two steps, late or lost requests, unreadable answers |
| Terminal cancel-and-replace | `accounts/terminal/replace.rs`, `executor_store/terminal_replace.rs` | `venue_terminal_replacements` (fact, released) | admit two rows, record the fact, release or cancel the child | stale projection, amended or filled originals, fact and settlement in different transactions |
| Terminal close and reverse | `accounts/terminal/position_actions.rs`, `*/terminal_positions.rs`, `executor_exchange/terminal_market.rs` | `prepared_json`, `settlement_json`, `released` | admit, prepare, save settlement, release or cancel the opening | partial fills, leg moved by others, restart without `prepared_json` |
| Terminal order and cancel | `accounts/terminal.rs` | command rows | admit | queue bound shared with other producers |
| Binance Grid batches | `grid_store/hot_batch.rs`, `executor_exchange/grid_batch.rs`, batch paths of the claim and of `submit` | batches and their chain, rows, ownership rows | admit, claim a batch, burst, settle child by child | one child of several failing, cancels that overtake placements, rows withdrawn while others are sent |
| Binance Grid runtime | `grid_runtime/`, `grid_store.rs`, `grid_store/convergence.rs` | instance state, desired digest, dirty flag, deadline, ownership | lifecycle requests, a turn (load, synchronize, judge, finish), time out | a turn's reads are minutes apart in the worst case; projections compared by millisecond stamps |
| Order mirror and its drain | `order_mirror/`, `executor_exchange/mirror.rs`, `executor_store/mirror_drain.rs` | `venue_order_mirrors`, fills by child, command rows | plan a relation's children, check before a send, record facts, drain | sources amended and filled behind a lagging projection, fills that arrive in pieces, absence as a proof |
| Leader bot and its permission | `accounts/leader_bot.rs`, `leader_bot_admin.rs` | bot state, revisions, grant | start, stop, grant, revoke | a running bot retired under its own rows |
| Relation activation | `executor_store/activation.rs` | relation revision and state | activate, pause | a relation started again over the remains of the last run |
| Writer lease | `crates/venue-execution/src/writer_lease.rs` | one stored authority, sessions in processes, the OS lock | register, renew, recover, retain protected, consume or retire with a receipt, fence, hand over, take a guard | sessions of any age against a stored state that moved on |
| Its file | the same file, `persist_state`, `read_recovered` | authority, `.backup`, `.next` | replace, recover | a crash or failing call between any two file operations |
| Command journal | `crates/venue-execution/src/journal.rs` | the WAL and its segments, handles with indexes kept by increments | open and recover, prepare (one, batch), submit, settle, rotate, checkpoint | appends that fail half-way, two handles on one file, recovery after a lost answer |
| Copy targets, copy drain | `executor_store/copy_targets.rs`, `copy_drain.rs` | per-relation targets, reservations | plan, reserve, drain | superseded by the order mirror for every relation that is activated today |
| Inventory market maker | `inventory_mm/` | quotes and inventory | quote, retire, hedge | gate checked twice around an await |
| Support martingale | `support_martingale/` | ladder state | step | ladder restart |
| Accounts, sessions, credentials | `accounts/` | users, sessions, sealed keys | CRUD | none on the execution path beyond the row lock |
| Exchange gateways | `crates/venue-gateway-*` | transports | sign, send, parse | protocol I/O |
| Strategy runtime, node, legacy copy | `crates/venue-runtime`, `venue-copy`, `apps/venue-node` | in-process strategy state | event handling | separate from the durable executor |
| VenueFlow UI | `apps/ui` | view state | rendering | none |

How they meet: producers and the executor share only PostgreSQL.  Admission takes the
credential row lock of an account, counts its nonterminal rows
(`lock_account_command_queue`, bound `MAX_ACCOUNT_QUEUE_DEPTH`) and inserts.  The
dispatch loop reads which accounts have work, hands each at most one turn through the
scheduler, and the turn claims, sends and settles.  Settlement of a replacement's
cancel, of a reverse's close, of a grid child or of a mirror child changes the rows that
depend on it in the same transaction.  Readback is the only way out of an uncertain state.
The Grid runtime and the mirror planner are producers that also read: they judge by private
projections that lag behind the exchange and by rows the executor has meanwhile changed.
The journal and the lease belong to the host of one account: the lease says who may send,
the journal what was sent.

## 2. Modules

    AccountScheduler      enqueue / claim_next / settle
      ExecutorDispatch    EXTENDS it: the loop, the turns, the producers, restarts
        SerialTurns       abstract: one turn per account, bounded concurrency
    CommandStates         command_state and its legal transitions
      CommandLedger       rows, worker, wire, exchange
        CommandContract   abstract: what a placement's verdict means
        CommandLedgerProofs
      TerminalReplace     two gated rows over one resting order
        TerminalReplaceProofs
      PositionReverse     two gated rows over one position leg
        PositionReverseProofs
      GridBatch           chained batches, burst, ownership; implements CommandContract
        GridBatchProofs
    GridLifecycle         the Grid runtime's turns over a lagging projection
        GridLifecycleProofs
    OrderMirror           planner, bot, relation, executor and exchange of one source
      OrderMirrorProofs
    WriterLease           the durable authority, sessions, guards, receipts
      AuthorityFile       how one stored state replaces another on disk
    AccountExecutorProofs of the scheduler, the loop, the lease and its files
    CommandJournal        the WAL, its handles, its segments
      CommandJournalProofs
    MC*                   declare model values and fix the instances

**AccountScheduler.**  `present`, `queued`, `inFlight`, `ready`, `globalInFlight` are the
fields of the struct.  A call that returns `Err(Conflict)` changes nothing and is not
an action.  `ClaimNext` keeps the loop of `claim_next` that pops entries, including the
`?` that gives up after a pop.

**ExecutorDispatch.**  `phase` is the place of `run_until_shutdown`'s loop; `groups`,
`scheduled`, `failed`, `tasks` its locals.  Discovery is one step that copies the
durable rows; the loop then walks the copy in id order while turns and producers go on
writing.  PostgreSQL is `view`: per account no work, rows inside their backoff, a row
to claim, or a readback that is due.  A refusal of the scheduler sends the loop to
`"failed"`, as `?` does.

**CommandLedger.**  `state` and `queue` are the rows; `worker` is the turn of an account;
`wire`, `order`, `reply` are the request and the exchange; `posts` counts physical
submits.  Each transaction and each network step is its own action and `AbortTurn` may
fall between any two: the rows stay, a request already sent stays on its way.  `Claim`
includes the sweep that `lock_account_claim` performs in the same transaction, and
`ClaimNothing` the sweep without a claim.  `Retire` and `Pause` are what the control
server does to a copy relation.  What an exact signed read can say (`Signed`) follows
`executor_exchange.rs`: the absence of an order proves nothing about a placement.
It covers ordinary limit and market placements and exact cancels.

**TerminalReplace** and **PositionReverse** take the row's life as CommandLedger has it
and keep the transactions that are particular to them: the recorded fact or the saved
settlement, the two-step settlement, the release of the second row.  A settlement is saved for
every read that finds an executed quantity, also of a close that is still working
(`terminal_market.rs:161-178`), so a saved quantity may grow afterwards.  The original order
may fill, end or be amended at any time; the leg moves by other orders; the projection
read at admission is arbitrarily stale.

**GridBatch.**  One instance on one account.  `state`, `owner`, `instance`, `tail`, `pred`
and `queue` are rows of PostgreSQL; `step`, `group` and `child` the turn that has a
batch: every row of the claim, how far its request is and what came back.
`CommitPlan` chains a new plan's batch to the instance's tail and makes it the tail, also when
the plan differs in nothing and the batch has no rows (`hot_batch.rs:166`, `281`);
`EnqueueBatch` adds what is missing of the present plan.  `PredecessorDone` is the claim's
question about the direct predecessor: no row of it outside reconciled, rejected and
cancelled, which a batch without rows answers with yes.  `Claim` takes the first candidate in `created_ms` and
`dispatch_sequence` order and every later pending row of its batch.  `EnterSend` is the
observer at the send entry and the request itself; `BarrierOpen` is `PlaceSendBarrier`;
`EndBurst` reports the cancels it held back as not dispatched.  Then the children are
settled in order, `Accepted` and `Reconciled` in two transactions, each with its change of
the ownership row (`OwnerAfter`).  `Wind`, `UpdateConfig` and `AutomaticReset` withdraw
pending placements and their ownership in the same transaction (`FenceRisk`) and leave
pending cancels alone.  Which batches the planner makes is not modelled: every batch of
the instance may be admitted when its guards allow.  Here the projection is the exchange's
present state; what its lag does is the subject of the next module.

**GridLifecycle.**  The same instance from the runtime's side.  A turn is what
`process` does with one instance, cut where it awaits: `TurnLoad` reads the instance,
`TurnSync` the projection and ownership (binding what it finds, closing what is missing),
`TurnReconcile` the commands, and `Finish*` write.  The user, the hot path, the executor,
the exchange and the projection writer act between any two of them.  The code decides by
comparing milliseconds: `projection.observed_ms` with `updated_ms` of rows.  The module has
no clock; for each projection it keeps the set of stamps that are not older than it, which
is all the comparisons ask.  Executor turns are one row at a time, as GridBatch has them in
full.

**OrderMirror.**  One bot, one relation, one order of the leader.  `PlanTurn` is the
transaction of `plan_relation`, with every case of its walk over the children in
`PlannedMirror`; what it finds of the follower's projection (nothing fresh, something from
before the latest fills, the present) is its parameter.  `SendAllowed` is the check before
the send, `RecordFact` the fact transaction that precedes the row's transition, `DrainAbsent`
the absence proof of a stopped mirror (the follower's position in it is what the source's own
children have filled, and its window of time is abstracted), `FinishDrain` and `AskAttention` the end of
`run_order_mirror`'s turn.  What is placed is not what was planned: `Rounded` takes the planned
quantity down to whole steps, or up to the exchange's minimum when it falls short of it
(`copy_risk.rs:224-336`), and `RecordFact` overwrites the child's quantity with the order's
(`settlement.rs:18`).  `Project` drops fills of the source as the retained history does
(`private_projection.rs:325-399`); `view.trimmed` says that it did.  The three revisions a mirror stores (bot, relation, grant) are
one number, because they are only compared for equality with the present ones.

**WriterLease.**  `cell` is `DurableState`; each operation is one action under the lock,
with its guards, and `Persist` lets the caller lose the result after it was stored.  A
session is what a process remembers, of any age.  A guard is the OS lock kept over a
gateway call.  `gone`, `protected`, `cleared` and `uses` record history for the properties.
**AuthorityFile** opens the step that WriterLease takes atomically: the six file operations
of `persist_state`, each of which may fail or be the last, and the choice of `read_recovered`.

**CommandJournal.**  `log` and `base` are all records and the start of the active segment,
`torn` a record cut short; `hd` the handles.  `Learns` is what a handle does after each
receipt it wrote: its query indexes (`index`) and the root of its WAL head go on by increments,
as `add_query_indexes`, `replace_query_indexes` and `append_current_v2_commitment` keep them.
`Rebuilt` is what a replay computes from nothing.  The root is a hash chain over the commands
and the numbers of their first receipts; the numbers only grow, so the set of those pairs
stands for it.  An append is refused when the file is not as long as the handle
believes, and may fail with some of its records written.
`Open`/`FenceInterrupted` are recovery, `Rotate` the archive of a segment, `Checkpoint` the
WAL head that an actor stores.  `Reconcile` settles an unresolved command as a signed readback
does (`apply_recovery`, `settle_signed_unknown_results`): a placement by its own order, a
cancel by the state of its target and only once that is over
(`command_matches_readback_order`, `account_host.rs:2461`), whatever became of the cancel
itself.  A target that filled, expired or was refused makes its cancel accepted with some
gateways and rejected with others; `Settled` allows both.  `OrderEnds` is the exchange: an
order fills, expires or is cancelled by anybody.

Abstracted everywhere: prices, symbols, identifiers, encodings, wording of errors,
audit rows, wall-clock time (deadlines are events).  An outcome that lacks the signed
identity or fact settlement demands is the outcome `"unknown"`.  Quantities are kept
where a property compares them.

## 3. Runs

| Run | Configuration | Shows |
|---|---|---|
| `dispatch` | 3 accounts over 2 places, 1 in flight, 1 restart | `LoopNeverRefused`, `FreshSnapshots`, `NoOvertaking`, refinement of `SerialTurns`, `FirstServed` |
| `ledger` | a revocable limit order and two cancels of it, 2 aborted turns | `SentOnce`, `Fence`, `NoHiddenExposure`, `CancelTruth`, refinement of `CommandContract`, `ExchangeOutcomesSettle` |
| `replace` | 2 requests, quantities to 3 | `NoOverExposure`, `NoOrphanChild` |
| `reverse` | a reverse and a close, quantities to 2 | `ReversalBacked`, `RejectedIsOver`, `NoOrphanOpening` |
| `grid_batch` | two chained plans, the first with a cancel of its placement, 1 request, 1 aborted turn | `PlacesFirst`, `ChainOrdered`, `LiveOrdersOwned`, refinement of `CommandContract`, `CancelsGetOut` |
| `grid_chain_empty` | a resting order, a plan that cancels it and places, a plan without rows, a plan after it | `EmptyPlanKeepsOrder` is violated (section 4) |
| `grid_lifecycle` | 1 order, 2 config revisions, 2 requests | `StoppedIsFlat`, `PauseConfirmsFlat`, `ResetStartsClean` |
| `grid_lifecycle_live` | 1 order, 1 request | `StopEnds` |
| `order_mirror` | one source of quantity 1 or 2, minimum and step 2, 1 amendment, 2 requests, 2 children, 1 cancellation each | `NeverOvercopied`, `StoppedLeavesNothing`, `FilledSourceKeepsChild`, `DrainEnds` |
| `writer_authority` | the lease of 2 processes, a receipt of each kind, 6 revisions, 3 clock values, 3 readbacks; its files over 6 operations, 4 failures | `GuardIsCurrent`, `FencedStaysFenced`, `ProtectedUntilFlat`, `ReceiptsUsedOnce`, `AckedDurable`, `NeverRollsBack` |
| `journal` | two processes without a lock, with a failing append or with an order that ends; a locked host that fills segments while an order ends; a host that writes batches | `AlwaysReplays`, `HandleExact`, `MarkStaysValid`, `WriteAhead`, `TellsTruth` |
| `journal_fork` | a host whose append fails after its record is written and that rotates later | `AlwaysReplays` is violated (section 4) |

Each module also has a type invariant `TypeOK`; those of the modules with a proof module are proved, the others document the state.

Why these bounds.

- Dispatcher: one account more than the limit reaches the `break` of admission and a full
  map; one turn in flight makes two accounts wait in the ready queue; a restart forgets the
  cool-downs.  All but `FirstServed` is proved for any accounts and limits.
- Ledger: two cancels of one order for the fence's exception, one of them standalone; a
  revocable placement for pause against claim; two aborts for a crash during the recovery
  from a crash.  Beyond these the ledger's properties are proved (section 5).
- Replacement: a second request to race the first and quantities large enough for a partial
  fill plus an amendment.  Reversal: a quantity of two for a partial fill and a second action
  to reuse the leg.  Neither bounds the number of aborts, and both are proved for any quantities and requests.
- Grid batches: the barrier needs a placement that enters or fails and a cancel behind it;
  the chain needs a successor that waits.  A plan without rows is only in `grid_chain_empty`,
  where it matters: nothing waits for it, and with it the passing instance outgrows its run.
  The proofs are for any batches, empty ones included.  The order that rests already in
  `grid_chain_empty` gives the first plan something to cancel.
- Grid lifecycle: one order is enough for every question, because every comparison is
  between an order's own stamps or between the two maxima (commands, instance).  Two requests
  reach a second request during a drain; the second config revision a reset with its own
  cancel ids.
- Order mirror: two sizes make an amendment that grows or shrinks what is left to copy after
  a partial fill; the small one, and what is left of the large one, are rounded up, so that the
  bound of `NeverOvercopied` is reached; rounding down, which can only copy less, needs a larger
  source and is left to the proof; two children are an original and its replacement; two requests stop and
  start, or revoke and stop, or pause and activate.  An instance rounded both ways (quantities 3 and 5, minima 4 and 2, step 2, safety only) was
  explored beside the runs.
- Writer authority: the lease and its files share no variable (what the one stores is a number
  to the other), so a behaviour moves one of them and the run explores the sum of their states,
  not the product.  Of the lease, revisions bound the number of operations; six allow register, protect or fence,
  hand over and renew by both processes.  Symmetry is over processes and is sound, since
  nothing orders them.  The properties are proved for any bound.
  Of the files, the sixth operation meets leftovers of all three files; four failures are
  more than two, where `NeverRollsBack` stops being true.
- Journal: each setting bounds what the others are about: the unlocked processes do not
  rotate (the code rotates only under the host's lock), the host that rotates has clean
  appends except in `journal_fork`, segments hold two records.  `ending` names the placements
  whose orders may end; one suffices, because a cancel has one target, and it ends in the
  unlocked setting (one process settles a cancel that another has not sent yet) and in the
  segmented one (the same across restarts and rotations).

Deadlock checking is on for the dispatcher, the replacement and the reversal.
It is off where the model comes to rest when its finite stock is used up: commands (ledger,
batches, journal), children, requests and configurations (mirror, lifecycle), operations
(writer authority).

### Fairness

- Dispatcher: weak fairness of the loop (its interval keeps ticking) and of the end of a
  turn, whose network and database calls time out.  The end of a cool-down is strongly fair: it
  is not enabled while an admission is under way, because deadlines are compared with the clock
  read when a discovery starts, and admissions recur.  Producers, backoffs and restarts are
  not fair.  `FirstServed` speaks of the accounts that the places can hold.
- Ledger: weak fairness of the steps of a turn, because each is bounded by retries and
  timeouts; strong fairness of recovery and of a conclusive readback of a row the
  exchange has acted on.  Strong, because the worker is busy again and again with other
  rows; `reconcile_group` reads every row that is due, and a conclusive answer is
  assumed to come eventually.  Claims, admissions and the exchange are not fair.
- Grid batches: weak fairness of the steps of a turn, of the claim (the account keeps being
  discovered while it has pending rows) and of the automatic reset while commands are
  outstanding: `update_convergence` resets an instance that stays dirty beyond its
  convergence timeout, or 30 s after a rejection.  This supposes that the private
  projection is healthy again at some time; without it the runtime only blocks.  Readback
  is not fair, so `CancelsGetOut` speaks of accounts without an uncertain row.
- Grid lifecycle: weak fairness of time (`Expire`), of the projection writer, of the executor
  and of a runtime turn as a whole, however it ends.  Strong fairness of synchronizing,
  reconciling and finishing: a turn may be cut short by a storage error or a missing
  projection, but not every single turn is.  The user and the exchange are not fair.
- Order mirror: weak fairness of the planner's tick with a healthy follower projection and of
  the statements that end its turn; of the executor's steps, of the timeout that turns a
  silent request into an unknown one, of readback facts, of the exchange handling what
  reached it.  Nothing obliges the leader, an operator, a fill or a loss.  `DrainEnds`
  excludes by name (`Silence`) the cases no read can decide, see below.

## 4. What the runs found

**The journal can fork its own sequence (`journal_fork`).**  `append_encoded` compares the
file's length with what the handle believes before it writes, and a test says why.
`rotate_active` (`journal.rs:231`) does not, and then sets `durable_len = 0`.  A prepare whose
record is written but whose sync fails leaves a handle that is one record behind and has
nothing unresolved.  If the next prepare finds the segment full, the unknown record is archived
and its sequence number is used a second time; the next `open_segmented` refuses the journal.

**A plan without rows breaks the chain (`grid_chain_empty`).**  A plan whose difference is zero
writes a batch of no commands (`docs/GRID_RUNTIME_REFACTOR.md:111`), which becomes the tail.  The
next batch waits for the rows of its direct predecessor only, of which there are none, and can
leave while a row of the plan before that, a cancel for instance, still waits.  `ChainOrdered`
states what does hold: a plan waits for its direct predecessor, and the rows in doubt at any
time belong to one batch.

The following were met while modelling.  They are no runs, because the properties that do hold
are stated around them.

- *Accounts over the limit* (`executor_runtime/dispatch.rs:42-43`, "stay durable and are
  discovered as soon as a slot is released").  Every discovery starts at the smallest account id
  and stops at the limit: an account that sorts behind enough accounts with constant work
  gets no turn.  Within the limit `FirstServed` holds.
- *A plan does not wait for what was rejected or withdrawn* (`kol_executor.rs:441-447`).
  `docs/GRID_RUNTIME_REFACTOR.md:115` lets a later batch be claimed only when the commands of the
  batch before it are all `Reconciled`; the claim takes rejected and cancelled rows for done as
  well.  `ChainReconciled` in GridBatch states the promise and is violated by any refused
  placement with a plan behind it; `ChainOrdered` states what does hold, every row is final.
- *A filled source can lose its copy* (`private_projection.rs:338`, `392`).
  `docs/LEADER_ORDER_MIRROR.md:49` keeps the mirrors of a limit order that filled, also when the
  display history is trimmed.  The fact is written by a turn of the planner after the fills
  arrived (`order_mirror/store.rs:323`); the projection that shows the order gone trims the
  account's fills to `HISTORY_LIMIT` in the same transaction.  When the order's own are not among
  those kept and no turn ran in between, the source looks withdrawn and the child is cancelled.
  `FilledSourceAlwaysKeepsChild` in OrderMirror states the promise and is violated;
  `FilledSourceKeepsChild` holds with exactly this exception.  An observation of the order while
  it is open is as new as the projection and is not trimmed, which supposes that an account has
  fewer than `HISTORY_LIMIT` (500) open orders.
- *Configuring a pause that still drains* (`grid_store.rs:302`).  `update_config` of a paused
  instance clears `dirty` although the pause may not have confirmed an empty surface; the runtime
  does not look at it again and its orders rest.  `PausedIsFlat` in GridLifecycle states what
  `docs/GRID_RUNTIME_REFACTOR.md:95` says and is violated: pause, then configure before the
  cancel is settled.
- *Configuring a reset* (`hot_batch.rs:918`).  The same request sets the desired digest of a
  resetting instance to NULL, and the cancel batch of a reset is admitted only against the digest
  of the empty surface.  Every turn then ends in a conflict before it reaches its own timeout;
  `ResetEnds` is violated by configuring during a reset with an order at rest.
- *Two failures of the authority file* (`writer_lease.rs:864`).  A first failure can leave the
  only copy of a state that a guard has already acted on in `.next`; the next operation begins
  by truncating `.next`, and a second failure there lets readers fall back behind what was
  acted on.  What `persist_state` confirmed is never lost (`AckedDurable`), and one failure is
  always survived (`NeverRollsBack`).
- *A source amended and filled unseen* (`completed_source.rs:75`).  Its fills exceed the terms the
  mirror last saw, `source_fill_quantity` returns a conflict, and the whole turn of the relation
  fails, with the relation's other orders in it, until the fills leave the retained history.
  A stop still gets out (`DrainEnds`: an inactive relation does not ask for the fills).
- *A copy that is lost* (`order_mirror/store.rs:401`, `settlement.rs:95`).  Terms are never placed
  twice in a row.  A leader who amends an order and amends it back while the child is being
  cancelled, or whose projection was stale for the moment of the send check, is not copied again.
- *A cancellation that is lost.*  A mirror cancellation whose request got lost stays in an
  uncertain state that is only read back, never sent again; the mirror keeps `cancelling` and the
  bot `draining` until the child ends by itself.  This is the second half of `Silence`; the first
  is a placement that never arrived while the follower holds a position, which the absence
  proof (`mirror_drain.rs`) refuses to settle.

Every other property the runs check holds.

## 5. Proofs

Eight modules hold proofs that TLAPS checks; each states an inductive invariant, proves it
with one lemma per action, and derives the properties from it.  TLC has checked every one of
these invariants first.  `PROJECT.json` lists the main theorems; each module
proves its type invariant too (`...TypeCorrect`).

**`AccountExecutorProofs`** is about the account's one executor: its scheduler and loop, then the
lease that makes it the only writer.  The scheduler alone, from `BoundsAssumption`:
`TypeOK`, `ReadyExact`, `InFlightCounted`, `MapTight` are invariants of `SchedulerSpec`, and
`ClaimNeverWasted` follows.  None is inductive alone: `claim_next` keeps the ready queue exact
only if its first entry is claimable, which needs that entries are queued, idle and unique; the
counter equals the cardinality only if a claimed account was not in flight already; `settle`
keeps the map tight only if an account without queued turns is not in the ready queue.  Their
conjunction is.  The loop, also from `AccountsOrdered`, `TurnsAssumption` and
`DispatchAssumption`: the scheduler's invariant is kept by each of its operations, so it is
reused lemma by lemma.  What is added is `DispatchAgreement`: the local `scheduled` is the
scheduler's map, an account in flight has exactly one task and nothing queued, any other at most
one turn queued and no task, and during an admission only accounts in flight have been
written.  From this the scheduler never refuses (`LoopNeverRefused`), queued turns are fresh,
`Spec => SerializesTurns` (a spawn is a start, a join a finish, a restart an abort, the end of
a turn is neither until it is joined) and `NoOvertaking`.

**`CommandLedgerProofs`** (from `LedgerAssumption`), for any accounts and commands.
`LedgerInv` is

- `RowsSound`: a row's state says what is true at the exchange (rejected: nothing there,
  nothing on its way; reconciled: an order exists; unclaimed: nothing was sent);
- `RequestsSound`: at most one request, no order without a delivered request;
- `WorkersSound`: what a worker read is still true when it settles it, because the facts
  a verdict rests on (an order exists, an order has ended) are stable;
- `Fence`.

From it follow `SentOnce`, `Fence`, `NoHiddenExposure`, `CancelTruth`, the action property
`RetiredNeverSent` and the refinement of `CommandContract` under `Phase` and `Effect`.

**`TerminalReplaceProofs`** (from `ReplaceAssumption`), for any requests, quantities and
number of aborted turns.  `ReplaceInv` rests on `FactsTrue`: a recorded fact is final, because
it is read of an original that has ended, and an ended order does not change.  `RowsAgree` ties
the child to the parent, `OneCarried` says that of all requests for the order at most one is
under way or carried out, `SentAsReleased` that what was sent is what the fact left.  Without
`OneCarried` two requests could each release a child for the same remainder.

**`PositionReverseProofs`** (from `ReverseAssumption`).  A
saved settlement says little: partial fills of a working close are saved and go on, so what is
stored is only a lower bound of what the order has executed (`Executed`).  `ReverseInv` therefore
rests on `TurnSound`: a turn that read its close filled holds the final quantity, saves it before
it settles the row, and nobody overwrites it until the release reads it.
`PairSound` makes a released opening stand behind a filled close and ask for what it executed,
and keeps a prepared quantity equal to the released one.  From it follow `ReversalBacked`, `RejectedIsOver`
and `NoOrphanOpening`.

**`GridBatchProofs`** (from `GridAssumption`), for any batches, rows, queue depth and number of
moves and aborts.  `BatchInv` adds to the three properties what keeps them: a row never claimed
was never sent, and ownership follows the order (`RequestsSound`); a cancel that waits has seen
none of its batch's placements claimed, and a claimed batch has its turn in the chain
(`BatchesSound`; batches without rows are among them, so nothing is assumed of a plan's size); what an answer and the verdict made of it say of the exchange stays true until
it is settled (`AnswersSound`); the rows of a turn are where its step says (`TurnSound`); and a
claim that took a cancel took every placement of the batch that was not withdrawn, whose requests
all left before a cancel became ready (`BarrierSound`).  The last is what makes `PlacesFirst`
survive a burst in which some children fail.  `BatchKeepsContract` is the refinement of
`CommandContract`, for each placement, under `Phase` and `Effect`.

**`GridLifecycleProofs`** (from `LifecycleAssumption`), for any orders, revisions and
requests.  `LifecycleInv` says what a lagging projection still tells of the present (`Sees`):
an order it shows has been at the exchange, one that it lacks has ended if its ownership row is
bound and older, and rests only if a command was written since or its own placement is being
sent.  `RowsSound` ties placements, ownership and exchange; `TurnSound` carries `Sees` over from
the turn's read to its end, and with it the turn's expected state unless it was overtaken.  Stamping
with the turn's own, older time could make a row look observed that is not: it never forgets a
command, and forgets ownership rows only of placements that were never sent.  The comparison in
`lifecycle_commands_observed` excludes the two remaining cases, so a converged turn is right
(`JudgedIsFlat`); `StoppedIsFlat`, `PauseConfirmsFlat` and `ResetStartsClean` follow, the last
two because no other step makes such a change (`OnlyJudged`).

For **WriterLease** (from `LeaseAssumption`), for any processes, receipts and time to live,
`LeaseInv` adds to the properties: sessions come from the past (`KnownPast`), ended generations
lie behind those in use (`GonePast`), a protected generation is cleared or still stored
(`ProtectedHeld`), a session for entries is not exact for a protected writer (`EntryExact`), and
the stored receipt sets remember what was accepted (`UsesStored`).  It also proves
`AlwaysValid`: no sequence of operations stores a state that its readers refuse.

For **AuthorityFile** (from `FileAssumption`) the same module has two invariants.  `FileInv` is
inductive as long as no rename has failed and been replaced by a copy: the authority is never
torn and holds what was confirmed, `.backup` is not newer, `.next` is (`Ordered`, and `Underway`
for the steps between); it gives `AckedDurable`, and a step that replaces a rename by a copy
leaves its scope by the hypothesis.  `SeenInv` covers that copy too, but only up to the first
failure: `Unfailed` says where the newest state acted on is before any failure, `OnceFailed` that
after one it stays readable (`HoldsSeen`) until an operation ends with a newer one, and an
operation that does not end is a second failure.  It gives `NeverRollsBack`.

**`OrderMirrorProofs`** (from `MirrorAssumption`), for any terms, quantities, minimum and step,
number of attempts, amendments, operators' requests and children.  `MirrorInv` says

- `PlacementSound`: before it is posted a child is nowhere, until its placement is settled only
  a fact ends the mirror, and a cancel is only written for a placement that is reconciled;
- `FillsSound`: a mirror never claims more fills than the exchange knows, and all of them once it
  is terminal or blocked; a pending or live one has an attempt left;
- `OneAtATime`: a child is made only when those before it are over, so only the last can still
  grow;
- `RevisionsSound`: while the source can be copied every mirror belongs to the relation's
  current revision, so the planner subtracts all of them (store.rs:240-274);
- `ViewSound`: a fresh view that shows the source closed knows its final fills or has trimmed
  them;
- `Covered`: the sum of what the children can hold is at most some copied terms and one uplift
  (`Uplifted`: the minimum less one).

`NeverOvercopied` is `Covered` read through `Max`.  It survives every step of one child because no
step lets a child hold more than before (`OneChild`), and the planner's new child because all
others are over: what it subtracts for them is then exactly what they hold.  The new child is what is left,
rounded, and rounding adds less than the minimum (`RoundedBound`, from the arithmetic of whole
steps); because what earlier children hold above the terms is subtracted as well, the uplifts of
several children do not add up.  If a mirror could be
over before its fills are final, or a relation change leave a mirror of another revision
uncounted, the step would fail.  The sum over a book of any length needs facts by induction
(`TotalIsSum`, `SumsMonotone`, `TotalExtended`): they are proved from the least number at which
they fail, which the library's well-founded order on the naturals provides (`LeastNumber`).
`FilledChildIsKept` follows, where fills were not trimmed unseen, from `ViewSound` and from the branches of the planner's transaction,
which exclude each other (`PlannedCases`).

**`CommandJournalProofs`** (from `JournalAssumption`), for any processes, commands, settings and
bounds, locked or not.  `JournalInv` has to say what is true of a handle that no longer fits its
file, because such a handle may fit it again:

- `HandlesSound`: every handle's indexes are those of its own states, and its head that of a
  prefix of the file (in particular the decrements never meet zero);
- `KnowledgeSound`: a handle that fits the file knows it, except for commands that it was
  writing when an append failed; these it never sent (`Missed`).  A host's knowledge differs
  otherwise only in commands it holds unresolved, and `rotate_if_clean_and_due` archives only
  when there are none: so a new length never makes a handle fit whose knowledge is stale in
  any other way;
- `CallsSound`, `AnswersSound`: what is under way is Submitted in the file and in the
  handle, unsent or sent once, with one process only;
- `Pending` (in `CallsSound`): in a file shared without a lock another process may have settled
  a cancel before it is sent, because its target is over; nothing else has an outcome before
  its call;
- `SendsSound`, `MarkSound`, `FilesSound`.

`WriteAhead` and `TellsTruth` hold without a condition, after every failing append and rotation,
crash and second process.  `TellsTruth` says what an outcome is worth: a placement was taken
or was not; a cancel that is accepted was taken by the exchange or its target is over, one that
is rejected was not taken or its target is over.  It does not say that the order of an
accepted cancel is over, because a gateway's answer to a cancel is only the exchange's
acknowledgement.  It rests on ended orders staying ended (`Over`).  `AlwaysReplays`, `HandleExact` and `MarkStaysValid` are proved
under `Unforked`: no file was archived after a failing append.  It holds in every state of the
run `journal`, always for the tools that open the file without a lock (they do not rotate), and
for hosts until an append fails; `journal_fork` shows that the condition is needed.  Appends are
proved receipt by receipt: `Reached` relates the file and the handle after k receipts of a batch
to those before, which covers the failing append at every k as well as the successful one.
Recovery (`FenceInterrupted`), `Reconcile`, the preparations, `Submit` and `Verdict` are instances.

The rest is only model-checked: liveness (`FirstServed`, `ExchangeOutcomesSettle`,
`CancelsGetOut`, `StopEnds`, `DrainEnds`), which needs ENABLED.  Every safety invariant and
action property of the passing runs is a theorem.

## 6. Plan

Next, in this order.

1. `OrderMirror`: market and stop sources, closing orders and their reservation of the
   follower's position, two relations of one leader.
2. `InventoryMaker`: the quote gate that is evaluated before and after credentials are loaded
   (`executor_runtime.rs:893`), with retirement and hedge.
3. `SupportMartingale`: the ladder's budget across a restart.

### Not modelled

- *Accounts, sessions, credentials; desktop and web; gateways.*  They meet the execution path
  in the credential row lock, in admission and in the outcome of a signed request, each of which
  is in the models as what the executor sees of it.
- *Strategy runtime, node, legacy copy engine.*  They keep their state in process and do not
  share the durable command path.
- *Copy targets and their drain.*  Superseded by the order mirror for every relation that can be
  activated today.
- *Inventory market maker, support martingale*: planned, see above.  Apart from the
  quote gate the executor treats their commands as CommandLedger has it.

Left out of modelled parts: legacy mirror commands that round an opening up in full
(`round_open_quantity_up` alone); an order the exchange acknowledges and refuses afterwards
(`CommandJournal` has it refused at once); the readback backoff of a single row (`ExecutorDispatch` has it
per account); `settle_absent_mirror_drain`'s reading of the exchange history beyond its
verdict; an operator's manual resolution of a row whose request was never sent, which the
code leaves fenced on purpose; the planner's geometry of a grid; the wall clock.

The modules map about nine thousand lines.  Most of the repository's lines are the desktop
client, the transports of four exchanges, tests of both, and the strategy host, which hold no
protocol state of the kind modelled here; the share of *all* lines is therefore small
and will stay so, while the durable command path is covered from admission to
readback.
