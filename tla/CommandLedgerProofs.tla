------------------------ MODULE CommandLedgerProofs ------------------------
(***************************************************************************)
(* LedgerInv is an inductive invariant of CommandLedger, for any set of    *)
(* accounts and commands and any number of crashes; the safety properties  *)
(* follow from it.                                                         *)
(***************************************************************************)
EXTENDS CommandLedger, TLAPS

(* The initial state, with no row, satisfies the invariant.                *)
LEMMA LedgerInit == Init => LedgerInv
  <1> SUFFICES ASSUME Init PROVE LedgerInv
      OBVIOUS
  <1> USE LedgerAssumption
  <1>1. TypeOK
      BY DEF Init, TypeOK, Idle, Holding, Ops, Outcomes, CommandState
  <1>2. WorkersSound
      BY DEF Init, WorkersSound
  <1>3. RowsSound /\ RequestsSound
      BY DEF Init, RowsSound, RowSound, RequestsSound, RequestSound, Placements, Cancels
  <1>4. Fence
      BY DEF Init, Fence, Unresolved
  <1> QED
      BY <1>1, <1>2, <1>3, <1>4 DEF LedgerInv

(* Admission adds a pending row and leaves every worker's row alone.       *)
LEMMA AdmitInv ==
    ASSUME LedgerInv, NEW c \in Commands, Admit(c)
    PROVE  LedgerInv'
  <1> USE LedgerAssumption DEF Admit, LedgerInv
  <1>1. TypeOK'
      BY DEF TypeOK, CommandState
  <1>2. WorkersSound'
      BY DEF WorkersSound, BusySound, OutcomeSound, TypeOK
  <1>3. RowsSound'
      BY DEF RowsSound, RowSound, TypeOK
  <1>4. RequestsSound'
      BY DEF RequestsSound, RequestSound
  <1>5. Fence'
      BY DEF Fence, Unresolved, TypeOK
  <1> QED
      BY <1>1, <1>2, <1>3, <1>4, <1>5

(* Pending rows that are cancelled were never sent and are held by nobody. *)
LEMMA SweepInv ==
    ASSUME LedgerInv, NEW S \in SUBSET Revocable, state' = Swept(S), retired' \subseteq Revocable,
           UNCHANGED << queue, worker, wire, order, reply, posts, aborts >>
    PROVE  LedgerInv'
  <1> USE LedgerAssumption DEF LedgerInv, Swept
  <1>1. TypeOK'
      BY DEF TypeOK, CommandState
  <1>2. \A c \in Commands :
            \/ state'[c] = state[c]
            \/ state[c] = "pending" /\ state'[c] = "cancelled" /\ c \in Placements
      BY DEF TypeOK
  <1> HIDE DEF Swept
  <1>3. WorkersSound'
    <2> SUFFICES ASSUME NEW b \in Accounts, worker[b] # Idle
                 PROVE  BusySound(b, worker[b].cmd, worker[b].op, worker[b].res)'
        BY DEF WorkersSound, Idle
    <2>1. BusySound(b, worker[b].cmd, worker[b].op, worker[b].res)
        BY DEF WorkersSound
    <2>2. state[worker[b].cmd] \in Unresolved
        BY <2>1 DEF BusySound, Unresolved, TypeOK, Ops
    <2>3. state'[worker[b].cmd] = state[worker[b].cmd]
        BY <1>2, <2>1, <2>2 DEF BusySound, Unresolved
    <2> QED
        BY <2>1, <2>3 DEF BusySound, OutcomeSound
  <1>4. RowsSound'
    <2> SUFFICES ASSUME NEW c \in Commands PROVE RowSound(c)'
        BY DEF RowsSound
    <2>1. RowSound(c)
        BY DEF RowsSound
    <2> QED
        BY <1>2, <2>1 DEF RowSound, Placements, Cancels
  <1>5. RequestsSound'
      BY DEF RequestsSound, RequestSound
  <1>6. Fence'
      BY <1>2 DEF Fence, Unresolved
  <1> QED
      BY <1>1, <1>3, <1>4, <1>5, <1>6

(* A relation that moves on changes no row, or only sweeps pending ones.   *)
LEMMA RetireInv ==
    ASSUME LedgerInv, NEW S \in SUBSET Copies, Retire(S) \/ Pause(S)
    PROVE  LedgerInv'
  <1>1. S \subseteq Revocable /\ retired' \subseteq Revocable
      BY DEF Retire, Pause, Copies, LedgerInv, TypeOK
  <1>2. CASE Pause(S)
      BY <1>1, <1>2, SweepInv DEF Pause
  <1>3. CASE Retire(S)
    <2>1. state' = Swept({})
        BY <1>3 DEF Retire, Swept, LedgerInv, TypeOK
    <2> QED
        BY <1>1, <1>3, <2>1, SweepInv DEF Retire
  <1> QED
      BY <1>2, <1>3

LEMMA ClaimNothingInv ==
    ASSUME LedgerInv, NEW a \in Accounts, ClaimNothing(a)
    PROVE  LedgerInv'
  <1>1. RetiredOf(a) \subseteq Revocable /\ retired' \subseteq Revocable
      BY DEF ClaimNothing, RetiredOf, LedgerInv, TypeOK
  <1> QED
      BY <1>1, SweepInv DEF ClaimNothing

(* The claim: the fence lets one row through, and no worker held it.       *)
LEMMA ClaimInv ==
    ASSUME LedgerInv, NEW a \in Accounts, NEW c \in Commands, Claim(a, c)
    PROVE  LedgerInv'
  <1> USE LedgerAssumption DEF LedgerInv
  <1>1. Eligible(c) /\ AccountOf[c] = a /\ worker[a] = Idle /\ state[c] = "pending"
      BY DEF Claim, OldestEligible, Eligible
  <1>2. /\ state' = [Swept(RetiredOf(a)) EXCEPT ![c] = "sending"]
        /\ worker' = [worker EXCEPT ![a] = Holding("claimed", c, "none")]
        /\ UNCHANGED << queue, wire, order, reply, posts, aborts, retired >>
      BY DEF Claim
  <1>3. TypeOK'
      BY <1>2 DEF TypeOK, CommandState, Ops, Outcomes, Holding, Swept
  <1>4. state'[c] = "sending"
      BY <1>2 DEF Swept
  <1>5. \A d \in Commands : d # c =>
            \/ state'[d] = state[d]
            \/ state[d] = "pending" /\ state'[d] = "cancelled" /\ d \in Placements
      BY <1>2 DEF Swept, RetiredOf, TypeOK
  <1>6. WorkersSound'
    <2> SUFFICES ASSUME NEW b \in Accounts, worker'[b] # Idle
                 PROVE  BusySound(b, worker[b].cmd, worker[b].op, worker[b].res)'
        BY DEF WorkersSound, Idle
    <2>1. CASE b = a
        BY <1>1, <1>2, <1>4, <2>1 DEF BusySound, RowsSound, RowSound, TypeOK, Holding
    <2>2. CASE b # a
      <3>1. worker'[b] = worker[b]
          BY <1>2, <2>2 DEF TypeOK
      <3>2. BusySound(b, worker[b].cmd, worker[b].op, worker[b].res)
          BY <3>1 DEF WorkersSound
      <3>3. worker[b].cmd \in Commands /\ worker[b].cmd # c
          BY <1>1, <2>2, <3>2 DEF BusySound
      <3>4. state[worker[b].cmd] # "pending"
          BY <3>2 DEF BusySound, TypeOK, Ops
      <3>5. state'[worker[b].cmd] = state[worker[b].cmd]
          BY <1>5, <3>3, <3>4
      <3> QED
          BY <1>2, <3>1, <3>2, <3>5 DEF BusySound, OutcomeSound
    <2> QED
        BY <2>1, <2>2
  <1>7. RowsSound'
    <2> SUFFICES ASSUME NEW d \in Commands PROVE RowSound(d)'
        BY DEF RowsSound
    <2>1. RowSound(d)
        BY DEF RowsSound
    <2>2. UNCHANGED << wire, order, posts >>
        BY <1>2
    <2> QED
        BY <1>1, <1>4, <1>5, <2>1, <2>2 DEF RowSound, Placements, Cancels
  <1>8. RequestsSound'
      BY <1>2 DEF RequestsSound, RequestSound
  <1>9. Fence'
      BY <1>1, <1>4, <1>5 DEF Fence, Eligible, Passes, Unresolved, Cancels
  <1> QED
      BY <1>3, <1>6, <1>7, <1>8, <1>9

WorkerType == [op : Ops, cmd : Commands \cup {NoCommand}, res : Outcomes]

(* A worker that settles a row of its account: the other accounts' workers *)
(* hold other rows, so only the row and the worker itself matter.          *)
LEMMA RowSettles ==
    ASSUME LedgerInv, NEW a \in Accounts, NEW c \in Commands, NEW next, NEW w \in WorkerType,
           AccountOf[c] = a, state[c] \in Unresolved,
           next \in {"accepted", "rejected", "reconcile_required", "reconciled"},
           state' = [state EXCEPT ![c] = next],
           worker' = [worker EXCEPT ![a] = w],
           UNCHANGED << queue, wire, order, reply, posts, aborts, retired >>,
           w # Idle => BusySound(a, w.cmd, w.op, w.res)',
           RowSound(c)'
    PROVE  LedgerInv'
  <1> USE LedgerAssumption DEF LedgerInv
  <1>1. TypeOK'
      BY DEF TypeOK, CommandState, WorkerType
  <1>2. WorkersSound'
    <2> SUFFICES ASSUME NEW b \in Accounts, worker'[b] # Idle
                 PROVE  BusySound(b, worker[b].cmd, worker[b].op, worker[b].res)'
        BY DEF WorkersSound, Idle
    <2>1. CASE b = a
        BY <2>1 DEF TypeOK, BusySound, OutcomeSound
    <2>2. CASE b # a
      <3>1. worker'[b] = worker[b]
          BY <2>2 DEF TypeOK
      <3> QED
          BY <2>2, <3>1 DEF WorkersSound, BusySound, OutcomeSound, TypeOK
    <2> QED
        BY <2>1, <2>2
  <1>3. RowsSound'
      BY DEF RowsSound, RowSound, TypeOK
  <1>4. RequestsSound'
      BY DEF RequestsSound, RequestSound
  <1>5. Fence'
      BY DEF Fence, Unresolved, TypeOK
  <1> QED
      BY <1>1, <1>2, <1>3, <1>4, <1>5

(* A worker that only learns something, sends nothing and writes no row.   *)
LEMMA WorkerMoves ==
    ASSUME LedgerInv, NEW a \in Accounts, NEW w \in WorkerType,
           worker' = [worker EXCEPT ![a] = w],
           UNCHANGED << state, queue, wire, order, reply, posts, retired >>,
           aborts' \in Nat,
           w # Idle => BusySound(a, w.cmd, w.op, w.res)
    PROVE  LedgerInv'
  <1> USE LedgerAssumption DEF LedgerInv
  <1>1. TypeOK'
      BY DEF TypeOK, CommandState, WorkerType
  <1>2. WorkersSound'
    <2> SUFFICES ASSUME NEW b \in Accounts, worker'[b] # Idle
                 PROVE  BusySound(b, worker[b].cmd, worker[b].op, worker[b].res)'
        BY DEF WorkersSound, Idle
    <2> QED
        BY DEF WorkersSound, BusySound, OutcomeSound, TypeOK
  <1>3. RowsSound' /\ RequestsSound'
      BY DEF RowsSound, RowSound, RequestsSound, RequestSound
  <1>4. Fence'
      BY DEF Fence
  <1> QED
      BY <1>1, <1>2, <1>3, <1>4

LEMMA HoldingFields ==
    ASSUME NEW op, NEW c, NEW res
    PROVE  /\ Holding(op, c, res).op = op
           /\ Holding(op, c, res).cmd = c
           /\ Holding(op, c, res).res = res
           /\ (op \in Ops /\ c \in Commands \cup {NoCommand} /\ res \in Outcomes) =>
                 Holding(op, c, res) \in WorkerType
  BY DEF Holding, WorkerType

(* What a busy worker's operation says about the row it holds.             *)
LEMMA Held ==
    ASSUME LedgerInv, NEW a \in Accounts, worker[a].op # "idle"
    PROVE  /\ worker[a].cmd \in Commands
           /\ BusySound(a, worker[a].cmd, worker[a].op, worker[a].res)
  BY HoldingFields DEF LedgerInv, WorkersSound, BusySound, Idle

LEMMA IdleTyped == Idle \in WorkerType
  BY DEF Idle, Holding, WorkerType, Ops, Outcomes

(* Nothing was sent, so the rejection hides nothing.                       *)
LEMMA RejectUnsentInv ==
    ASSUME LedgerInv, NEW a \in Accounts, RejectUnsent(a)
    PROVE  LedgerInv'
  <1> USE LedgerAssumption DEF LedgerInv
  <1>1. worker[a].op = "claimed"
      BY DEF RejectUnsent
  <1>2. PICK c \in Commands : c = worker[a].cmd
      BY <1>1, Held
  <1>3. /\ state' = [state EXCEPT ![c] = "rejected"]
        /\ worker' = [worker EXCEPT ![a] = Idle]
        /\ UNCHANGED << queue, wire, order, reply, posts, aborts, retired >>
      BY <1>2 DEF RejectUnsent
  <1>4. AccountOf[c] = a /\ state[c] = "sending" /\ posts[c] = 0
      BY <1>1, <1>2, Held DEF BusySound
  <1>5. wire[c] = "none" /\ order[c] = "none"
      BY <1>4 DEF RequestsSound, RequestSound
  <1>6. RowSound(c)'
      BY <1>3, <1>4, <1>5 DEF RowsSound, RowSound, TypeOK, Placements, Cancels
  <1> QED
      BY <1>3, <1>4, <1>6, IdleTyped, RowSettles DEF Unresolved

LEMMA CancelAlreadyTrueInv ==
    ASSUME LedgerInv, NEW a \in Accounts, CancelAlreadyTrue(a)
    PROVE  LedgerInv'
  <1> USE LedgerAssumption DEF LedgerInv
  <1>1. worker[a].op = "claimed"
      BY DEF CancelAlreadyTrue
  <1>2. PICK c \in Commands : c = worker[a].cmd
      BY <1>1, Held
  <1> DEFINE w == Holding("answered", c, "reconciled")
  <1>3. /\ c \in Cancels
        /\ order[TargetOf[c]] # "live"
        /\ worker' = [worker EXCEPT ![a] = w]
        /\ UNCHANGED << state, queue, wire, order, reply, posts, aborts, retired >>
      BY <1>2 DEF CancelAlreadyTrue
  <1>4. AccountOf[c] = a /\ state[c] = "sending"
      BY <1>1, <1>2, Held DEF BusySound
  <1>5. order[TargetOf[c]] \in {"filled", "void"}
      BY <1>3, <1>4 DEF RowsSound, RowSound, TypeOK
  <1>6. BusySound(a, w.cmd, w.op, w.res)
      BY <1>3, <1>4, <1>5, HoldingFields DEF BusySound, OutcomeSound, Placements, Cancels
  <1>7. w \in WorkerType /\ aborts' \in Nat
      BY <1>3, HoldingFields DEF Ops, Outcomes, TypeOK
  <1> HIDE DEF w
  <1> QED
      BY <1>3, <1>6, <1>7, WorkerMoves

(* The one physical submit of a row nobody sent before.                    *)
LEMMA SendInv ==
    ASSUME LedgerInv, NEW a \in Accounts, Send(a)
    PROVE  LedgerInv'
  <1> USE LedgerAssumption DEF LedgerInv
  <1>1. worker[a].op = "claimed"
      BY DEF Send
  <1>2. PICK c \in Commands : c = worker[a].cmd
      BY <1>1, Held
  <1> DEFINE w == Holding("sent", c, "none")
  <1>3. /\ wire' = [wire EXCEPT ![c] = "transit"]
        /\ posts' = [posts EXCEPT ![c] = @ + 1]
        /\ worker' = [worker EXCEPT ![a] = w]
        /\ UNCHANGED << state, queue, order, reply, aborts, retired >>
      BY <1>2 DEF Send
  <1>4. AccountOf[c] = a /\ state[c] = "sending" /\ posts[c] = 0
      BY <1>1, <1>2, Held DEF BusySound
  <1>5. wire[c] = "none" /\ order[c] = "none" /\ (c \in Placements => reply[c] # "refused")
      BY <1>4 DEF RequestsSound, RequestSound
  <1>6. w \in WorkerType /\ w.cmd = c /\ w.op = "sent"
      BY HoldingFields DEF Ops, Outcomes
  <1> HIDE DEF w
  <1>7. TypeOK'
      BY <1>3, <1>6 DEF TypeOK, WorkerType
  <1>8. WorkersSound'
    <2> SUFFICES ASSUME NEW b \in Accounts, worker'[b] # Idle
                 PROVE  BusySound(b, worker[b].cmd, worker[b].op, worker[b].res)'
        BY DEF WorkersSound, Idle
    <2>1. CASE b = a
        BY <1>3, <1>4, <1>6, <2>1 DEF BusySound, OutcomeSound, TypeOK
    <2>2. CASE b # a
      <3>1. worker'[b] = worker[b]
          BY <1>3, <2>2 DEF TypeOK
      <3> QED
          BY <1>3, <1>4, <2>2, <3>1 DEF WorkersSound, BusySound, OutcomeSound, TypeOK
    <2> QED
        BY <2>1, <2>2
  <1>9. RowsSound'
      BY <1>3, <1>4 DEF RowsSound, RowSound, TypeOK
  <1>10. RequestsSound'
      BY <1>3, <1>4, <1>5 DEF RequestsSound, RequestSound, TypeOK
  <1>11. Fence'
      BY <1>3 DEF Fence
  <1> QED
      BY <1>7, <1>8, <1>9, <1>10, <1>11

(* A signed read is true of the exchange.                                  *)
LEMMA SignedSound ==
    ASSUME LedgerInv, NEW c \in Commands, state[c] # "absent", NEW res \in Signed(c)
    PROVE  OutcomeSound(c, res) /\ res \in {"accepted", "reconciled", "rejected"}
  <1> USE LedgerAssumption DEF LedgerInv
  <1>1. CASE c \in Cancels
      BY <1>1 DEF Signed, OutcomeSound, RowsSound, RowSound, Placements, Cancels, TypeOK
  <1>2. CASE c \notin Cancels
      BY <1>2 DEF Signed, OutcomeSound, RequestsSound, RequestSound, Placements, Cancels, TypeOK
  <1> QED
      BY <1>1, <1>2

LEMMA AnswerInv ==
    ASSUME LedgerInv, NEW a \in Accounts, Answer(a)
    PROVE  LedgerInv'
  <1> USE LedgerAssumption DEF LedgerInv
  <1>1. worker[a].op = "sent"
      BY DEF Answer
  <1>2. PICK c \in Commands : c = worker[a].cmd
      BY <1>1, Held
  <1>3. PICK res \in {"unknown"} \cup (IF reply[c] = "ack" THEN Signed(c) ELSE {})
                               \cup (IF reply[c] = "refused" THEN {"rejected"} ELSE {}) :
            worker' = [worker EXCEPT ![a] = Holding("answered", c, res)]
      BY <1>2 DEF Answer
  <1> DEFINE w == Holding("answered", c, res)
  <1>4. UNCHANGED << state, queue, wire, order, reply, posts, aborts, retired >>
      BY DEF Answer
  <1>5. AccountOf[c] = a /\ state[c] = "sending"
      BY <1>1, <1>2, Held DEF BusySound
  <1>6. OutcomeSound(c, res) /\ res \in {"accepted", "reconciled", "rejected", "unknown"}
    <2>1. CASE res \in Signed(c)
        BY <1>5, <2>1, SignedSound
    <2>2. CASE res \notin Signed(c)
        BY <1>3, <2>2 DEF OutcomeSound, RequestsSound, RequestSound, Placements, Cancels
    <2> QED
        BY <2>1, <2>2
  <1>7. BusySound(a, w.cmd, w.op, w.res)
      BY <1>5, <1>6, HoldingFields DEF BusySound
  <1>8. w \in WorkerType /\ aborts' \in Nat
      BY <1>4, <1>6, HoldingFields DEF Ops, Outcomes, TypeOK
  <1> HIDE DEF w
  <1> QED
      BY <1>3, <1>4, <1>7, <1>8, WorkerMoves DEF w

(* The first transaction of a settlement.                                  *)
LEMMA SettleInv ==
    ASSUME LedgerInv, NEW a \in Accounts, Settle(a)
    PROVE  LedgerInv'
  <1> USE LedgerAssumption DEF LedgerInv
  <1>1. worker[a].op = "answered"
      BY DEF Settle
  <1>2. PICK c \in Commands : c = worker[a].cmd
      BY <1>1, Held
  <1>3. PICK res : res = worker[a].res
      OBVIOUS
  <1>4. /\ AccountOf[c] = a
        /\ state[c] = "sending"
        /\ OutcomeSound(c, res)
        /\ res \in {"accepted", "reconciled", "rejected", "unknown"}
      BY <1>1, <1>2, <1>3, Held DEF BusySound
  <1>5. PICK next : next = Settled(res)
      OBVIOUS
  <1>6. PICK w : w = IF next = "accepted" /\ (res = "reconciled" \/ CompletesOnAccept(c))
                       THEN Holding("accepting", c, res) ELSE Idle
      OBVIOUS
  <1>7. /\ state' = [state EXCEPT ![c] = next]
        /\ worker' = [worker EXCEPT ![a] = w]
        /\ UNCHANGED << queue, wire, order, reply, posts, aborts, retired >>
      BY <1>2, <1>3, <1>5, <1>6 DEF Settle
  <1>8. /\ next \in {"accepted", "rejected", "reconcile_required"}
        /\ next = "rejected" => res = "rejected"
        /\ next = "accepted" => res \in {"accepted", "reconciled"}
      BY <1>4, <1>5 DEF Settled
  <1>9. RowSound(c)'
      BY <1>4, <1>7, <1>8 DEF RowsSound, RowSound, OutcomeSound, TypeOK
  <1>10. w \in WorkerType
      BY <1>4, <1>6, HoldingFields, IdleTyped DEF Ops, Outcomes
  <1>11. w # Idle => BusySound(a, w.cmd, w.op, w.res)'
    <2> SUFFICES ASSUME w # Idle PROVE BusySound(a, w.cmd, w.op, w.res)'
        OBVIOUS
    <2>1. /\ w = Holding("accepting", c, res)
          /\ next = "accepted"
          /\ res = "reconciled" \/ CompletesOnAccept(c)
        BY <1>6
    <2>2. w.cmd = c /\ w.op = "accepting" /\ w.res = res
        BY <2>1, HoldingFields
    <2>3. state'[c] = "accepted"
        BY <1>7, <2>1 DEF TypeOK
    <2> QED
        BY <1>4, <1>7, <1>8, <2>1, <2>2, <2>3 DEF BusySound, OutcomeSound, CompletesOnAccept
  <1> QED
      BY <1>4, <1>7, <1>8, <1>9, <1>10, <1>11, RowSettles DEF Unresolved

(* The second transaction, possible only after the first.                  *)
LEMMA CompleteInv ==
    ASSUME LedgerInv, NEW a \in Accounts, Complete(a)
    PROVE  LedgerInv'
  <1> USE LedgerAssumption DEF LedgerInv
  <1>1. worker[a].op = "accepting"
      BY DEF Complete
  <1>2. PICK c \in Commands : c = worker[a].cmd
      BY <1>1, Held
  <1>3. PICK res : res = worker[a].res
      OBVIOUS
  <1>4. /\ AccountOf[c] = a
        /\ state[c] = "accepted"
        /\ OutcomeSound(c, res)
        /\ res = "reconciled" \/ (res = "accepted" /\ CompletesOnAccept(c))
      BY <1>1, <1>2, <1>3, Held DEF BusySound
  <1>5. /\ state' = [state EXCEPT ![c] = "reconciled"]
        /\ worker' = [worker EXCEPT ![a] = Idle]
        /\ UNCHANGED << queue, wire, order, reply, posts, aborts, retired >>
      BY <1>2 DEF Complete
  <1>6. RowSound(c)'
      BY <1>4, <1>5 DEF RowsSound, RowSound, OutcomeSound, CompletesOnAccept, Cancels, TypeOK
  <1> QED
      BY <1>4, <1>5, <1>6, IdleTyped, RowSettles DEF Unresolved

LEMMA RecoverSendingInv ==
    ASSUME LedgerInv, NEW a \in Accounts, NEW c \in Commands, RecoverSending(a, c)
    PROVE  LedgerInv'
  <1> USE LedgerAssumption DEF LedgerInv
  <1>1. /\ worker[a] = Idle
        /\ AccountOf[c] = a
        /\ state[c] = "sending"
        /\ state' = [state EXCEPT ![c] = "reconcile_required"]
        /\ UNCHANGED << queue, worker, wire, order, reply, posts, aborts, retired >>
      BY DEF RecoverSending
  <1>2. worker' = [worker EXCEPT ![a] = Idle]
      BY <1>1 DEF TypeOK
  <1>3. RowSound(c)'
      BY <1>1 DEF RowsSound, RowSound, TypeOK
  <1> QED
      BY <1>1, <1>2, <1>3, IdleTyped, RowSettles DEF Unresolved

LEMMA ReadBackInv ==
    ASSUME LedgerInv, NEW a \in Accounts, NEW c \in Commands, NEW res, ReadBack(a, c, res)
    PROVE  LedgerInv'
  <1> USE LedgerAssumption DEF LedgerInv
  <1> DEFINE w == Holding("read", c, res)
  <1>1. /\ AccountOf[c] = a
        /\ state[c] \in {"accepted", "reconcile_required"}
        /\ res \in {"deferred", "unknown"} \cup Signed(c)
        /\ worker' = [worker EXCEPT ![a] = w]
        /\ UNCHANGED << state, queue, wire, order, reply, posts, aborts, retired >>
      BY DEF ReadBack
  <1>2. OutcomeSound(c, res) /\ res \in {"deferred", "unknown", "accepted", "reconciled", "rejected"}
    <2>1. CASE res \in Signed(c)
        BY <1>1, <2>1, SignedSound
    <2>2. CASE res \notin Signed(c)
        BY <1>1, <2>2 DEF OutcomeSound
    <2> QED
        BY <2>1, <2>2
  <1>3. BusySound(a, w.cmd, w.op, w.res)
      BY <1>1, <1>2, HoldingFields DEF BusySound
  <1>4. w \in WorkerType /\ aborts' \in Nat
      BY <1>1, <1>2, HoldingFields DEF Ops, Outcomes, TypeOK
  <1> HIDE DEF w
  <1> QED
      BY <1>1, <1>3, <1>4, WorkerMoves

(* The settlement of a read row.                                           *)
LEMMA SettleReadInv ==
    ASSUME LedgerInv, NEW a \in Accounts, SettleRead(a)
    PROVE  LedgerInv'
  <1> USE LedgerAssumption DEF LedgerInv
  <1>1. worker[a].op = "read"
      BY DEF SettleRead
  <1>2. PICK c \in Commands : c = worker[a].cmd
      BY <1>1, Held
  <1>3. PICK res : res = worker[a].res
      OBVIOUS
  <1>4. /\ AccountOf[c] = a
        /\ state[c] \in {"accepted", "reconcile_required"}
        /\ OutcomeSound(c, res)
      BY <1>1, <1>2, <1>3, Held DEF BusySound
  <1>5. PICK next : next = ReadSettled(c, res)
      OBVIOUS
  <1>6. PICK w : w = IF res = "rejected" /\ state[c] = "accepted"
                       THEN Holding("rejecting", c, res) ELSE Idle
      OBVIOUS
  <1>7. /\ state' = [state EXCEPT ![c] = next]
        /\ worker' = [worker EXCEPT ![a] = w]
        /\ UNCHANGED << queue, wire, order, reply, posts, aborts, retired >>
      BY <1>2, <1>3, <1>5, <1>6 DEF SettleRead
  <1>8. /\ next \in {"accepted", "rejected", "reconcile_required", "reconciled"}
        /\ next = "rejected" => res = "rejected"
        /\ next = "reconciled" => res = "reconciled" \/ (res = "accepted" /\ CompletesOnAccept(c))
        /\ (res = "rejected" /\ state[c] = "accepted") => next = "reconcile_required"
      BY <1>4, <1>5 DEF ReadSettled
  <1>9. RowSound(c)'
      BY <1>4, <1>7, <1>8 DEF RowsSound, RowSound, OutcomeSound, CompletesOnAccept, Cancels, TypeOK
  <1>10. w \in WorkerType
      BY <1>6, HoldingFields, IdleTyped DEF Ops, Outcomes
  <1>11. w # Idle => BusySound(a, w.cmd, w.op, w.res)'
    <2> SUFFICES ASSUME w # Idle PROVE BusySound(a, w.cmd, w.op, w.res)'
        OBVIOUS
    <2>1. w = Holding("rejecting", c, res) /\ res = "rejected" /\ state[c] = "accepted"
        BY <1>6
    <2>2. w.cmd = c /\ w.op = "rejecting" /\ w.res = res
        BY <2>1, HoldingFields
    <2>3. state'[c] = "reconcile_required"
        BY <1>7, <1>8, <2>1 DEF TypeOK
    <2> QED
        BY <1>4, <1>7, <2>1, <2>2, <2>3 DEF BusySound, OutcomeSound
  <1> QED
      BY <1>4, <1>7, <1>8, <1>9, <1>10, <1>11, RowSettles DEF Unresolved

LEMMA RejectReadInv ==
    ASSUME LedgerInv, NEW a \in Accounts, RejectRead(a)
    PROVE  LedgerInv'
  <1> USE LedgerAssumption DEF LedgerInv
  <1>1. worker[a].op = "rejecting"
      BY DEF RejectRead
  <1>2. PICK c \in Commands : c = worker[a].cmd
      BY <1>1, Held
  <1>3. AccountOf[c] = a /\ state[c] = "reconcile_required" /\ OutcomeSound(c, "rejected")
      BY <1>1, <1>2, Held DEF BusySound
  <1>4. /\ state' = [state EXCEPT ![c] = "rejected"]
        /\ worker' = [worker EXCEPT ![a] = Idle]
        /\ UNCHANGED << queue, wire, order, reply, posts, aborts, retired >>
      BY <1>2 DEF RejectRead
  <1>5. RowSound(c)'
      BY <1>3, <1>4 DEF RowsSound, RowSound, OutcomeSound, TypeOK
  <1> QED
      BY <1>3, <1>4, <1>5, IdleTyped, RowSettles DEF Unresolved

LEMMA AbortTurnInv ==
    ASSUME LedgerInv, NEW a \in Accounts, AbortTurn(a)
    PROVE  LedgerInv'
  <1>1. aborts' \in Nat
      BY DEF AbortTurn, LedgerInv, TypeOK
  <1> QED
      BY <1>1, IdleTyped, WorkerMoves DEF AbortTurn

(* The exchange moves an order only forward and a request only off the     *)
(* wire, so what a worker already knows stays true.                        *)
LEMMA ExchangeMoves ==
    ASSUME LedgerInv, TypeOK', RequestsSound',
           UNCHANGED << state, queue, worker, posts, aborts, retired >>,
           \A c \in Commands : order[c] # "none" => order'[c] # "none",
           \A c \in Commands : order[c] \in {"filled", "void"} => order'[c] = order[c],
           \A c \in Commands : wire[c] # "transit" => wire'[c] = wire[c] /\ order'[c] \in {order[c], "filled", "void"},
           \A c \in Commands : (wire[c] # "transit" /\ order[c] = "none") => order'[c] = "none"
    PROVE  LedgerInv'
  <1> USE LedgerAssumption DEF LedgerInv
  <1>1. WorkersSound'
    <2> SUFFICES ASSUME NEW b \in Accounts, worker[b] # Idle
                 PROVE  BusySound(b, worker[b].cmd, worker[b].op, worker[b].res)'
        BY DEF WorkersSound, Idle
    <2>1. BusySound(b, worker[b].cmd, worker[b].op, worker[b].res)
        BY DEF WorkersSound
    <2> QED
        BY <2>1 DEF BusySound, OutcomeSound, CompletesOnAccept, Placements, Cancels, TypeOK
  <1>2. RowsSound'
      BY DEF RowsSound, RowSound, Placements, Cancels, TypeOK
  <1>3. Fence'
      BY DEF Fence
  <1> QED
      BY <1>1, <1>2, <1>3

LEMMA DeliverPlacementInv ==
    ASSUME LedgerInv, NEW c \in Commands, DeliverPlacement(c)
    PROVE  LedgerInv'
  <1> USE LedgerAssumption DEF LedgerInv
  <1>1. /\ c \in Placements
        /\ wire[c] = "transit"
        /\ wire' = [wire EXCEPT ![c] = "gone"]
        /\ UNCHANGED << state, queue, worker, posts, aborts, retired >>
      BY DEF DeliverPlacement
  <1>2. order[c] = "none" /\ posts[c] # 0
      BY <1>1 DEF RequestsSound, RequestSound
  <1>3. PICK o \in {"none", "live", "filled", "void"}, r \in {"ack", "refused"} :
            /\ order' = [order EXCEPT ![c] = o]
            /\ reply' = [reply EXCEPT ![c] = r]
            /\ r = "refused" => o = "none"
    <2>1. CASE UNCHANGED order
        BY <1>2, <2>1 DEF DeliverPlacement, TypeOK
    <2>2. CASE ~ UNCHANGED order
        BY <2>2 DEF DeliverPlacement
    <2> QED
        BY <2>1, <2>2
  <1>4. TypeOK'
      BY <1>1, <1>3 DEF TypeOK
  <1>5. RequestsSound'
      BY <1>1, <1>2, <1>3 DEF RequestsSound, RequestSound, TypeOK, Placements, Cancels
  <1> QED
      BY <1>1, <1>2, <1>3, <1>4, <1>5, ExchangeMoves DEF TypeOK

LEMMA DeliverCancelInv ==
    ASSUME LedgerInv, NEW c \in Commands, DeliverCancel(c)
    PROVE  LedgerInv'
  <1> USE LedgerAssumption DEF LedgerInv
  <1> DEFINE t == TargetOf[c]
  <1>1. /\ c \in Cancels
        /\ wire[c] = "transit"
        /\ wire' = [wire EXCEPT ![c] = "gone"]
        /\ UNCHANGED << state, queue, worker, posts, aborts, retired >>
      BY DEF DeliverCancel
  <1>2. t \in Placements /\ t \in Commands /\ c \notin Placements /\ order[c] = "none" /\ posts[c] # 0
      BY <1>1 DEF RequestsSound, RequestSound, Placements, Cancels
  <1>3. PICK o \in {"none", "live", "filled", "void"}, r \in {"ack", "refused"} :
            /\ order' = [order EXCEPT ![t] = o]
            /\ reply' = [reply EXCEPT ![c] = r]
            /\ o = order[t] \/ (order[t] = "live" /\ o \in {"filled", "void"})
    <2>1. CASE order[t] = "live"
        BY <2>1 DEF DeliverCancel
    <2>2. CASE order[t] # "live"
        BY <1>2, <2>2 DEF DeliverCancel, TypeOK
    <2> QED
        BY <2>1, <2>2
  <1> HIDE DEF t
  <1>4. TypeOK'
      BY <1>1, <1>2, <1>3 DEF TypeOK
  <1>5. RequestsSound'
      BY <1>1, <1>2, <1>3 DEF RequestsSound, RequestSound, TypeOK, Placements, Cancels
  <1> QED
      BY <1>1, <1>2, <1>3, <1>4, <1>5, ExchangeMoves DEF TypeOK, RequestsSound, RequestSound

LEMMA LoseRequestInv ==
    ASSUME LedgerInv, NEW c \in Commands, LoseRequest(c)
    PROVE  LedgerInv'
  <1> USE LedgerAssumption DEF LedgerInv, LoseRequest
  <1>1. TypeOK'
      BY DEF TypeOK
  <1>2. RequestsSound'
      BY DEF RequestsSound, RequestSound, TypeOK
  <1> QED
      BY <1>1, <1>2, ExchangeMoves DEF TypeOK

LEMMA OrderEndsInv ==
    ASSUME LedgerInv, NEW c \in Commands, OrderEnds(c)
    PROVE  LedgerInv'
  <1> USE LedgerAssumption DEF LedgerInv
  <1>1. PICK o \in {"filled", "void"} : order' = [order EXCEPT ![c] = o]
      BY DEF OrderEnds
  <1>2. order[c] = "live" /\ UNCHANGED << state, queue, worker, wire, reply, posts, aborts, retired >>
      BY DEF OrderEnds
  <1>3. TypeOK'
      BY <1>1, <1>2 DEF TypeOK
  <1>4. RequestsSound'
      BY <1>1, <1>2 DEF RequestsSound, RequestSound, TypeOK
  <1> QED
      BY <1>1, <1>2, <1>3, <1>4, ExchangeMoves DEF TypeOK

-----------------------------------------------------------------------------
(* Every step of every worker, of the control server and of the exchange   *)
(* preserves LedgerInv.                                                    *)
THEOREM LedgerInvariant == Spec => []LedgerInv
  <1>1. LedgerInv /\ [Next]_vars => LedgerInv'
    <2> SUFFICES ASSUME LedgerInv, [Next]_vars PROVE LedgerInv'
        OBVIOUS
    <2>1. CASE UNCHANGED vars
      <3> USE <2>1 DEF vars, LedgerInv
      <3>1. TypeOK'
          BY DEF TypeOK
      <3>2. WorkersSound'
          BY DEF WorkersSound, BusySound, OutcomeSound, CompletesOnAccept
      <3>3. RowsSound' /\ RequestsSound'
          BY DEF RowsSound, RowSound, RequestsSound, RequestSound
      <3>4. Fence'
          BY DEF Fence
      <3> QED
          BY <3>1, <3>2, <3>3, <3>4
    <2>2. CASE \E c \in Commands :
                  Admit(c) \/ DeliverPlacement(c) \/ DeliverCancel(c)
                  \/ LoseRequest(c) \/ OrderEnds(c)
        BY <2>2, AdmitInv, DeliverPlacementInv, DeliverCancelInv, LoseRequestInv, OrderEndsInv
    <2>3. CASE \E a \in Accounts :
                  RejectUnsent(a) \/ CancelAlreadyTrue(a) \/ Send(a) \/ Answer(a) \/ Settle(a)
                  \/ Complete(a) \/ SettleRead(a) \/ RejectRead(a) \/ AbortTurn(a)
        BY <2>3, RejectUnsentInv, CancelAlreadyTrueInv, SendInv, AnswerInv, SettleInv, CompleteInv,
           SettleReadInv, RejectReadInv, AbortTurnInv
    <2>4. CASE \E a \in Accounts, c \in Commands :
                  Claim(a, c) \/ RecoverSending(a, c) \/ \E res \in Outcomes : ReadBack(a, c, res)
        BY <2>4, ClaimInv, RecoverSendingInv, ReadBackInv
    <2>5. CASE (\E S \in SUBSET Copies : Retire(S) \/ Pause(S)) \/ (\E a \in Accounts : ClaimNothing(a))
        BY <2>5, RetireInv, ClaimNothingInv
    <2> QED
        BY <2>1, <2>2, <2>3, <2>4, <2>5 DEF Next
  <1> QED
      BY <1>1, LedgerInit, PTL DEF Spec

(* Rows, workers, requests and orders keep their types.                    *)
THEOREM LedgerTypeCorrect == Spec => []TypeOK
  <1>1. LedgerInv => TypeOK
      BY DEF LedgerInv
  <1> QED
      BY <1>1, LedgerInvariant, PTL

(* At most one physical submit per command, none without a claim.          *)
THEOREM LedgerSendsOnce == Spec => []SentOnce
  <1>1. LedgerInv => SentOnce
      BY DEF LedgerInv, RowsSound, RowSound, RequestsSound, RequestSound, SentOnce
  <1> QED
      BY <1>1, LedgerInvariant, PTL

(* The claim's fence holds between all unresolved rows at all times.       *)
THEOREM LedgerFenced == Spec => []Fence
  <1>1. LedgerInv => Fence
      BY DEF LedgerInv
  <1> QED
      BY <1>1, LedgerInvariant, PTL

(* A rejected or withdrawn placement has no order and cannot get one.      *)
THEOREM LedgerHidesNothing == Spec => []NoHiddenExposure
  <1>1. LedgerInv => NoHiddenExposure
      BY DEF LedgerInv, RowsSound, RowSound, RequestsSound, RequestSound, NoHiddenExposure, Placements
  <1> QED
      BY <1>1, LedgerInvariant, PTL

(* A reconciled cancel's order has ended.                                  *)
THEOREM LedgerCancelsTruly == Spec => []CancelTruth
  <1>1. LedgerInv => CancelTruth
      BY DEF LedgerInv, RowsSound, RowSound, CancelTruth, Cancels
  <1> QED
      BY <1>1, LedgerInvariant, PTL

-----------------------------------------------------------------------------
(* The refinement of CommandContract.                                      *)

(* What a claim or a pause may do to a row.                                *)
Decided(c) ==
    \/ state'[c] = state[c]
    \/ state[c] = "pending" /\ state'[c] \in {"cancelled", "sending"}

(* A claim with its sweep maps to one decision about several placements.   *)
LEMMA DecideRefines ==
    ASSUME LedgerInv, LedgerInv', UNCHANGED order, \A c \in Commands : Decided(c)
    PROVE  [Contract!ContractNext]_(Contract!contractVars)
  <1> DEFINE ph == [p \in Placements |-> Phase(state[p])]
             ef == [p \in Placements |-> Effect(order[p])]
             W == { p \in Placements : state[p] = "pending" /\ state'[p] = "cancelled" }
             C == { p \in Placements : state[p] = "pending" /\ state'[p] = "sending" }
  <1>1. ef' = ef
      OBVIOUS
  <1>2. Phase("pending") = "open" /\ Phase("cancelled") = "withdrawn" /\ Phase("sending") = "committed"
      BY DEF Phase, Unresolved
  <1>3. \A c \in W \cup C : ph[c] = "open"
      BY <1>2
  <1>4. \A p \in Placements : Phase(state'[p]) =
            CASE p \in C -> "committed" [] p \in W \ C -> "withdrawn" [] OTHER -> Phase(state[p])
    <2> SUFFICES ASSUME NEW p \in Placements
                 PROVE  Phase(state'[p]) =
                        CASE p \in C -> "committed" [] p \in W \ C -> "withdrawn" [] OTHER -> Phase(state[p])
        OBVIOUS
    <2>1. Decided(p)
        BY DEF Placements
    <2>2. CASE p \in C
        BY <1>2, <2>2
    <2>3. CASE p \in W /\ p \notin C
        BY <1>2, <2>3
    <2>4. CASE p \notin W /\ p \notin C
      <3>1. state'[p] = state[p]
          BY <2>1, <2>4 DEF Decided
      <3> QED
          BY <2>4, <3>1
    <2> QED
        BY <2>2, <2>3, <2>4
  <1>5. ph' = [p \in Placements |-> CASE p \in C -> "committed" [] p \in W \ C -> "withdrawn" [] OTHER -> ph[p]]
      BY <1>4
  <1>6. Contract!Decide(W, C)
      BY <1>1, <1>3, <1>5 DEF Contract!Decide
  <1>7. W \in SUBSET Placements /\ C \in SUBSET Placements
      OBVIOUS
  <1> QED
      BY <1>6, <1>7 DEF Contract!ContractNext

(* A step that moves one row maps to a phase change or a stutter: that the *)
(* verdict agrees with the exchange is LedgerInv after the step.           *)
LEMMA RowStepRefines ==
    ASSUME LedgerInv, LedgerInv', NEW c \in Commands, NEW next,
           state' = [state EXCEPT ![c] = next],
           UNCHANGED order,
           \/ state[c] = "absent" /\ next = "pending"
           \/ state[c] \in Unresolved /\ next \in Unresolved \cup {"rejected", "reconciled"}
    PROVE  [Contract!ContractNext]_(Contract!contractVars)
  <1> USE DEF LedgerInv
  <1> DEFINE ph == [p \in Placements |-> Phase(state[p])]
             ef == [p \in Placements |-> Effect(order[p])]
  <1>1. ef' = ef
      OBVIOUS
  <1>2. \A p \in Placements : p # c => state'[p] = state[p]
      BY DEF TypeOK, Placements
  <1>3. CASE c \notin Placements \/ Phase(next) = Phase(state[c])
    <2>1. \A p \in Placements : Phase(state'[p]) = Phase(state[p])
        BY <1>2, <1>3 DEF TypeOK, Placements
    <2>2. ph' = ph
        BY <2>1
    <2> QED
        BY <1>1, <2>2 DEF Contract!contractVars
  <1>4. CASE c \in Placements /\ Phase(next) # Phase(state[c])
    <2>1. state'[c] = next
        BY DEF TypeOK
    <2>2. ph' = [ph EXCEPT ![c] = Phase(next)]
      <3>1. \A p \in Placements : Phase(state'[p]) = IF p = c THEN Phase(next) ELSE Phase(state[p])
          BY <1>2, <2>1
      <3>2. ph' = [p \in Placements |-> IF p = c THEN Phase(next) ELSE Phase(state[p])]
          BY <3>1
      <3> QED
          BY <3>2
    <2>3. ph[c] = Phase(state[c]) /\ ef[c] = Effect(order[c])
        BY <1>4
    <2>4. CASE state[c] = "absent" /\ next = "pending"
        BY <1>4, <2>4 DEF Phase, Unresolved
    <2>5. CASE state[c] \in Unresolved
      <3>1. Phase(state[c]) = "committed" /\ next \in {"rejected", "reconciled"}
          BY <1>4, <2>5 DEF Phase, Unresolved
      <3>2. CASE next = "reconciled"
        <4>1. Phase(next) = "done"
            BY <3>2 DEF Phase, Unresolved
        <4>2. order[c] # "none" /\ order[c] \in {"none", "live", "filled", "void"}
            BY <1>4, <2>1, <3>2 DEF RowsSound, RowSound, TypeOK
        <4>3. Effect(order[c]) # "none"
            BY <4>2 DEF Effect
        <4>4. Contract!Succeed(c)
            BY <1>1, <2>2, <2>3, <3>1, <4>1, <4>3 DEF Contract!Succeed
        <4> QED
            BY <1>4, <4>4 DEF Contract!ContractNext
      <3>3. CASE next = "rejected"
        <4>1. Phase(next) = "failed"
            BY <3>3 DEF Phase, Unresolved
        <4>2. order[c] \in {"none", "void"}
            BY <1>4, <2>1, <3>3 DEF RowsSound, RowSound
        <4>3. Effect(order[c]) # "alive"
            BY <4>2 DEF Effect
        <4>4. Contract!Fail(c)
            BY <1>1, <2>2, <2>3, <3>1, <4>1, <4>3 DEF Contract!Fail
        <4> QED
            BY <1>4, <4>4 DEF Contract!ContractNext
      <3> QED
          BY <3>1, <3>2, <3>3
    <2> QED
        BY <2>4, <2>5
  <1> QED
      BY <1>3, <1>4

(* A step of the exchange maps to an effect change or a stutter.           *)
LEMMA OrderStepRefines ==
    ASSUME LedgerInv, NEW c \in Placements, NEW o \in {"none", "live", "filled", "void"},
           order' = [order EXCEPT ![c] = o],
           UNCHANGED state,
           \/ order[c] = "none" /\ state[c] \in Unresolved
           \/ order[c] = "live" /\ o \in {"filled", "void"}
           \/ o = order[c]
    PROVE  [Contract!ContractNext]_(Contract!contractVars)
  <1> USE DEF LedgerInv
  <1> DEFINE ph == [p \in Placements |-> Phase(state[p])]
             ef == [p \in Placements |-> Effect(order[p])]
  <1>1. ph' = ph
      OBVIOUS
  <1>2. c \in Commands /\ order'[c] = o /\ \A p \in Placements : p # c => order'[p] = order[p]
      BY DEF TypeOK, Placements
  <1>3. ef' = [ef EXCEPT ![c] = Effect(o)]
    <2>1. \A p \in Placements : Effect(order'[p]) = IF p = c THEN Effect(o) ELSE Effect(order[p])
        BY <1>2
    <2>2. ef' = [p \in Placements |-> IF p = c THEN Effect(o) ELSE Effect(order[p])]
        BY <2>1
    <2> QED
        BY <2>2
  <1>4. ph[c] = Phase(state[c]) /\ ef[c] = Effect(order[c])
      OBVIOUS
  <1>5. CASE Effect(o) = Effect(order[c])
    <2>1. ef' = ef
        BY <1>3, <1>4, <1>5
    <2> QED
        BY <1>1, <2>1 DEF Contract!contractVars
  <1>6. CASE Effect(o) # Effect(order[c]) /\ order[c] = "none"
    <2>1. Phase(state[c]) = "committed" /\ Effect(order[c]) = "none" /\ Effect(o) \in {"alive", "dead"}
        BY <1>6 DEF Phase, Effect, Unresolved
    <2>2. Contract!TakeEffect(c)
        BY <1>1, <1>3, <1>4, <2>1 DEF Contract!TakeEffect
    <2> QED
        BY <2>2 DEF Contract!ContractNext
  <1>7. CASE Effect(o) # Effect(order[c]) /\ order[c] = "live"
    <2>1. Effect(order[c]) = "alive" /\ Effect(o) = "dead"
        BY <1>7 DEF Effect
    <2>2. Contract!EndUnfilled(c)
        BY <1>1, <1>3, <1>4, <2>1 DEF Contract!EndUnfilled
    <2> QED
        BY <2>2 DEF Contract!ContractNext
  <1> QED
      BY <1>5, <1>6, <1>7

LEMMA QuietStepRefines ==
    ASSUME UNCHANGED << state, order >>
    PROVE  [Contract!ContractNext]_(Contract!contractVars)
  BY DEF Contract!contractVars

(* The settlements of a held row.                                          *)
LEMMA RejectUnsentRefines ==
    ASSUME LedgerInv, LedgerInv', NEW a \in Accounts, RejectUnsent(a)
    PROVE  [Contract!ContractNext]_(Contract!contractVars)
  <1>1. worker[a].op = "claimed"
      BY DEF RejectUnsent
  <1>2. PICK c \in Commands : c = worker[a].cmd
      BY <1>1, Held
  <1>3. state[c] \in Unresolved
      BY <1>1, <1>2, Held DEF BusySound, Unresolved
  <1>4. state' = [state EXCEPT ![c] = "rejected"] /\ UNCHANGED order
      BY <1>2 DEF RejectUnsent
  <1> QED
      BY <1>3, <1>4, RowStepRefines

LEMMA CompleteRefines ==
    ASSUME LedgerInv, LedgerInv', NEW a \in Accounts, Complete(a)
    PROVE  [Contract!ContractNext]_(Contract!contractVars)
  <1>1. worker[a].op = "accepting"
      BY DEF Complete
  <1>2. PICK c \in Commands : c = worker[a].cmd
      BY <1>1, Held
  <1>3. state[c] \in Unresolved
      BY <1>1, <1>2, Held DEF BusySound, Unresolved
  <1>4. state' = [state EXCEPT ![c] = "reconciled"] /\ UNCHANGED order
      BY <1>2 DEF Complete
  <1> QED
      BY <1>3, <1>4, RowStepRefines

LEMMA RejectReadRefines ==
    ASSUME LedgerInv, LedgerInv', NEW a \in Accounts, RejectRead(a)
    PROVE  [Contract!ContractNext]_(Contract!contractVars)
  <1>1. worker[a].op = "rejecting"
      BY DEF RejectRead
  <1>2. PICK c \in Commands : c = worker[a].cmd
      BY <1>1, Held
  <1>3. state[c] \in Unresolved
      BY <1>1, <1>2, Held DEF BusySound, Unresolved
  <1>4. state' = [state EXCEPT ![c] = "rejected"] /\ UNCHANGED order
      BY <1>2 DEF RejectRead
  <1> QED
      BY <1>3, <1>4, RowStepRefines

LEMMA SettleRefines ==
    ASSUME LedgerInv, LedgerInv', NEW a \in Accounts, Settle(a)
    PROVE  [Contract!ContractNext]_(Contract!contractVars)
  <1>1. worker[a].op = "answered"
      BY DEF Settle
  <1>2. PICK c \in Commands : c = worker[a].cmd
      BY <1>1, Held
  <1>3. PICK next : next = Settled(worker[a].res)
      OBVIOUS
  <1>4. state[c] \in Unresolved
      BY <1>1, <1>2, Held DEF BusySound, Unresolved
  <1>5. state' = [state EXCEPT ![c] = next] /\ UNCHANGED order
      BY <1>2, <1>3 DEF Settle
  <1>6. next \in Unresolved \cup {"rejected", "reconciled"}
      BY <1>3 DEF Settled, Unresolved
  <1> QED
      BY <1>4, <1>5, <1>6, RowStepRefines

LEMMA SettleReadRefines ==
    ASSUME LedgerInv, LedgerInv', NEW a \in Accounts, SettleRead(a)
    PROVE  [Contract!ContractNext]_(Contract!contractVars)
  <1>1. worker[a].op = "read"
      BY DEF SettleRead
  <1>2. PICK c \in Commands : c = worker[a].cmd
      BY <1>1, Held
  <1>3. PICK next : next = ReadSettled(c, worker[a].res)
      OBVIOUS
  <1>4. state[c] \in Unresolved
      BY <1>1, <1>2, Held DEF BusySound, Unresolved
  <1>5. state' = [state EXCEPT ![c] = next] /\ UNCHANGED order
      BY <1>2, <1>3 DEF SettleRead
  <1>6. next \in Unresolved \cup {"rejected", "reconciled"}
      BY <1>3, <1>4 DEF ReadSettled, Unresolved
  <1> QED
      BY <1>4, <1>5, <1>6, RowStepRefines

(* Only a claimed, unsettled placement can be in transit.                  *)
LEMMA DeliverPlacementRefines ==
    ASSUME LedgerInv, NEW c \in Commands, DeliverPlacement(c)
    PROVE  [Contract!ContractNext]_(Contract!contractVars)
  <1> USE DEF LedgerInv
  <1>1. c \in Placements /\ wire[c] = "transit" /\ UNCHANGED state
      BY DEF DeliverPlacement
  <1>2. order[c] = "none" /\ posts[c] # 0
      BY <1>1 DEF RequestsSound, RequestSound
  <1>3. state[c] \in Unresolved
      BY <1>1, <1>2 DEF RowsSound, RowSound, TypeOK, CommandState, Unresolved
  <1>4. CASE UNCHANGED order
      BY <1>1, <1>4, QuietStepRefines
  <1>5. CASE ~ UNCHANGED order
    <2>1. PICK o \in {"none", "live", "filled", "void"} : order' = [order EXCEPT ![c] = o]
        BY <1>5 DEF DeliverPlacement
    <2> QED
        BY <1>1, <1>2, <1>3, <2>1, OrderStepRefines
  <1> QED
      BY <1>4, <1>5

LEMMA DeliverCancelRefines ==
    ASSUME LedgerInv, NEW c \in Commands, DeliverCancel(c)
    PROVE  [Contract!ContractNext]_(Contract!contractVars)
  <1> DEFINE t == TargetOf[c]
  <1>1. c \in Cancels /\ UNCHANGED state
      BY DEF DeliverCancel
  <1>2. t \in Placements
      BY <1>1, LedgerAssumption DEF Placements, Cancels
  <1>3. CASE order[t] = "live"
    <2>1. PICK o \in {"filled", "void"} : order' = [order EXCEPT ![t] = o]
        BY <1>3 DEF DeliverCancel
    <2> HIDE DEF t
    <2> QED
        BY <1>1, <1>2, <1>3, <2>1, OrderStepRefines
  <1>4. CASE order[t] # "live"
      BY <1>1, <1>4, QuietStepRefines DEF DeliverCancel
  <1> QED
      BY <1>3, <1>4

LEMMA OrderEndsRefines ==
    ASSUME LedgerInv, NEW c \in Commands, OrderEnds(c)
    PROVE  [Contract!ContractNext]_(Contract!contractVars)
  <1>1. order[c] = "live" /\ UNCHANGED state
      BY DEF OrderEnds
  <1>2. c \in Placements
      BY <1>1 DEF LedgerInv, RequestsSound, RequestSound, Placements, Cancels
  <1>3. PICK o \in {"filled", "void"} : order' = [order EXCEPT ![c] = o]
      BY DEF OrderEnds
  <1> QED
      BY <1>1, <1>2, <1>3, OrderStepRefines

(* The ledger implements the contract: whatever crashes, loses or delays   *)
(* messages, a placement takes effect at most once, only between claim and *)
(* verdict, and its verdict agrees with the exchange.                      *)
THEOREM LedgerKeepsContract == Spec => KeepsContract
  <1>1. Init => Contract!ContractInit
    <2>1. Phase("absent") = "open" /\ Effect("none") = "none"
        BY DEF Phase, Effect, Unresolved
    <2>2. Init => \A c \in Placements : state[c] = "absent" /\ order[c] = "none"
        BY DEF Init, Placements
    <2> QED
        BY <2>1, <2>2 DEF Contract!ContractInit
  <1>2. LedgerInv /\ LedgerInv' /\ [Next]_vars => [Contract!ContractNext]_(Contract!contractVars)
    <2> SUFFICES ASSUME LedgerInv, LedgerInv', [Next]_vars
                 PROVE  [Contract!ContractNext]_(Contract!contractVars)
        OBVIOUS
    <2>1. CASE UNCHANGED vars
        BY <2>1, QuietStepRefines DEF vars
    <2>2. ASSUME NEW c \in Commands, Admit(c)
          PROVE  [Contract!ContractNext]_(Contract!contractVars)
        BY <2>2, RowStepRefines DEF Admit
    <2>3. ASSUME NEW c \in Commands,
                 DeliverPlacement(c) \/ DeliverCancel(c) \/ LoseRequest(c) \/ OrderEnds(c)
          PROVE  [Contract!ContractNext]_(Contract!contractVars)
      <3>1. CASE LoseRequest(c)
          BY <3>1, QuietStepRefines DEF LoseRequest
      <3> QED
          BY <2>3, <3>1, DeliverPlacementRefines, DeliverCancelRefines, OrderEndsRefines
    <2>4. ASSUME NEW a \in Accounts,
                 RejectUnsent(a) \/ Settle(a) \/ Complete(a) \/ SettleRead(a) \/ RejectRead(a)
          PROVE  [Contract!ContractNext]_(Contract!contractVars)
        BY <2>4, RejectUnsentRefines, SettleRefines, CompleteRefines, SettleReadRefines, RejectReadRefines
    <2>5. ASSUME NEW a \in Accounts,
                 CancelAlreadyTrue(a) \/ Send(a) \/ Answer(a) \/ AbortTurn(a)
          PROVE  UNCHANGED << state, order >>
        BY <2>5 DEF CancelAlreadyTrue, Send, Answer, AbortTurn
    <2>6. ASSUME NEW a \in Accounts, NEW c \in Commands,
                 Claim(a, c) \/ RecoverSending(a, c) \/ \E res \in Outcomes : ReadBack(a, c, res)
          PROVE  [Contract!ContractNext]_(Contract!contractVars)
      <3>1. CASE Claim(a, c)
        <4>1. UNCHANGED order /\ \A d \in Commands : Decided(d)
            BY <3>1 DEF Claim, OldestEligible, Eligible, Swept, RetiredOf, Decided, LedgerInv, TypeOK
        <4> QED
            BY <4>1, DecideRefines
      <3>2. CASE RecoverSending(a, c)
          BY <3>2, RowStepRefines DEF RecoverSending, Unresolved
      <3>3. CASE \E res \in Outcomes : ReadBack(a, c, res)
          BY <3>3, QuietStepRefines DEF ReadBack
      <3> QED
          BY <2>6, <3>1, <3>2, <3>3
    <2>7. ASSUME \/ \E S \in SUBSET Copies : Retire(S) \/ Pause(S)
                 \/ \E a \in Accounts : ClaimNothing(a)
          PROVE  [Contract!ContractNext]_(Contract!contractVars)
      <3>1. UNCHANGED order /\ \A d \in Commands : Decided(d)
          BY <2>7 DEF Retire, Pause, ClaimNothing, Swept, Decided, LedgerInv, TypeOK
      <3> QED
          BY <3>1, DecideRefines
    <2> QED
        BY <2>1, <2>2, <2>3, <2>4, <2>5, <2>6, <2>7, QuietStepRefines DEF Next
  <1> QED
      BY <1>1, <1>2, LedgerInvariant, PTL DEF Spec, KeepsContract, Contract!ContractSpec

-----------------------------------------------------------------------------
(* A retired copy command that waits is never sent: every step leaves it   *)
(* waiting or cancels it, and no step withdraws what was sent.             *)
THEOREM LedgerSendsNothingRetired == Spec => RetiredNeverSent
  <1> DEFINE Kept == \A c \in retired :
                /\ state[c] = "pending" => state'[c] \in {"pending", "cancelled"}
                /\ state[c] \in Unresolved => state'[c] # "cancelled"
  <1>1. LedgerInv /\ [Next]_vars => Kept \/ UNCHANGED vars
    <2> SUFFICES ASSUME LedgerInv, Next, NEW c \in retired
                 PROVE  /\ state[c] = "pending" => state'[c] \in {"pending", "cancelled"}
                        /\ state[c] \in Unresolved => state'[c] # "cancelled"
        BY DEF vars
    <2> USE LedgerAssumption DEF LedgerInv, Unresolved
    <2>1. c \in Commands /\ c \in Revocable
        BY DEF TypeOK, Placements
    <2>2. CASE UNCHANGED state
        BY <2>1, <2>2
    <2>3. CASE \E S \in SUBSET Copies : Retire(S) \/ Pause(S)
        BY <2>1, <2>3 DEF Retire, Pause, Swept
    <2>4. CASE \E a \in Accounts : ClaimNothing(a)
        BY <2>1, <2>4 DEF ClaimNothing, Swept
    <2>5. ASSUME NEW a \in Accounts, NEW d \in Commands, Claim(a, d)
          PROVE  /\ state[c] = "pending" => state'[c] \in {"pending", "cancelled"}
                 /\ state[c] \in Unresolved => state'[c] # "cancelled"
      <3>1. d # c
          BY <2>5 DEF Claim, OldestEligible, Eligible
      <3> QED
          BY <2>1, <2>5, <3>1 DEF Claim, Swept
    <2>6. CASE \E d \in Commands : Admit(d)
        BY <2>1, <2>6 DEF Admit, TypeOK
    <2>7. ASSUME NEW a \in Accounts, NEW d \in Commands, RecoverSending(a, d)
          PROVE  state[c] = "pending" => state'[c] = "pending"
        BY <2>1, <2>7 DEF RecoverSending, TypeOK
    <2>8. ASSUME NEW a \in Accounts, NEW d \in Commands, RecoverSending(a, d)
          PROVE  state[c] \in Unresolved => state'[c] # "cancelled"
        BY <2>1, <2>8 DEF RecoverSending, TypeOK
    <2>9. ASSUME NEW a \in Accounts,
                 RejectUnsent(a) \/ Settle(a) \/ Complete(a) \/ SettleRead(a) \/ RejectRead(a)
          PROVE  /\ state[c] = "pending" => state'[c] \in {"pending", "cancelled"}
                 /\ state[c] \in Unresolved => state'[c] # "cancelled"
      <3> DEFINE d == worker[a].cmd
      <3>1. worker[a] # Idle
          BY <2>9 DEF RejectUnsent, Settle, Complete, SettleRead, RejectRead, Idle, Holding
      <3>2. d \in Commands /\ state[d] \in Unresolved
          BY <3>1 DEF WorkersSound, BusySound, TypeOK, Ops
      <3>3. /\ \A e \in Commands : e # d => state'[e] = state[e]
            /\ state'[d] # "cancelled"
        <4>1. CASE RejectUnsent(a)
          <5>1. state' = [state EXCEPT ![d] = "rejected"]
              BY <4>1 DEF RejectUnsent
          <5> QED
              BY <3>2, <5>1 DEF TypeOK
        <4>2. CASE Settle(a)
          <5>1. state' = [state EXCEPT ![d] = Settled(worker[a].res)]
              BY <4>2 DEF Settle
          <5>2. Settled(worker[a].res) # "cancelled"
              BY DEF Settled
          <5> QED
              BY <3>2, <5>1, <5>2 DEF TypeOK
        <4>3. CASE Complete(a)
          <5>1. state' = [state EXCEPT ![d] = "reconciled"]
              BY <4>3 DEF Complete
          <5> QED
              BY <3>2, <5>1 DEF TypeOK
        <4>4. CASE SettleRead(a)
          <5>1. state' = [state EXCEPT ![d] = ReadSettled(d, worker[a].res)]
              BY <4>4 DEF SettleRead
          <5>2. ReadSettled(d, worker[a].res) \in {"reconciled", "rejected", "reconcile_required", state[d]}
              BY DEF ReadSettled
          <5> QED
              BY <3>2, <5>1, <5>2 DEF TypeOK
        <4>5. CASE RejectRead(a)
          <5>1. state' = [state EXCEPT ![d] = "rejected"]
              BY <4>5 DEF RejectRead
          <5> QED
              BY <3>2, <5>1 DEF TypeOK
        <4> QED
            BY <2>9, <4>1, <4>2, <4>3, <4>4, <4>5
      <3> QED
          BY <2>1, <3>2, <3>3
    <2>10. ASSUME NEW d \in Commands,
                  DeliverPlacement(d) \/ DeliverCancel(d) \/ LoseRequest(d) \/ OrderEnds(d)
           PROVE  UNCHANGED state
        BY <2>10 DEF DeliverPlacement, DeliverCancel, LoseRequest, OrderEnds
    <2>11. ASSUME NEW a \in Accounts,
                  \/ CancelAlreadyTrue(a) \/ Send(a) \/ Answer(a) \/ AbortTurn(a)
                  \/ \E d \in Commands, res \in Outcomes : ReadBack(a, d, res)
           PROVE  UNCHANGED state
        BY <2>11 DEF CancelAlreadyTrue, Send, Answer, AbortTurn, ReadBack
    <2> QED
        BY <2>2, <2>3, <2>4, <2>5, <2>6, <2>7, <2>8, <2>9, <2>10, <2>11 DEF Next
  <1> QED
      BY <1>1, LedgerInvariant, PTL DEF Spec, RetiredNeverSent
=============================================================================
