----------------------- MODULE PositionReverseProofs -----------------------
(***************************************************************************)
(* ReverseInv is an inductive invariant of PositionReverse, for any        *)
(* actions, quantities and queue bound and any number of aborted turns;    *)
(* ReversalBacked, RejectedIsOver and NoOrphanOpening follow from it.      *)
(***************************************************************************)
EXTENDS PositionReverse, TLAPS

(* The two rows of a request.                                              *)
LEMMA RowFacts ==
    /\ \A r \in Requests : Close(r) \in Rows /\ Open(r) \in Rows
    /\ \A q, r \in Requests : /\ Close(q) # Open(r)
                              /\ Close(q) = Close(r) => q = r
                              /\ Open(q) = Open(r) => q = r
    /\ \A w \in Rows : /\ w[1] \in Requests
                       /\ \/ w[2] = "close" /\ w = Close(w[1])
                          \/ w[2] = "open" /\ w = Open(w[1])
    /\ \A r \in Requests : /\ Close(r)[1] = r /\ Close(r)[2] = "close"
                           /\ Open(r)[1] = r /\ Open(r)[2] = "open"
    /\ NoRow \notin Rows
  BY ReverseAssumption DEF Rows, Close, Open

(* Types of the idle turn and of quantities.                               *)
LEMMA TypeFacts ==
    /\ Idle = [op |-> "idle", row |-> NoRow, res |-> "none", settlement |-> NoSettlement]
    /\ NoSettlement \in Settlements /\ NoSettlement.executed = -1
    /\ Quantities \subseteq Nat /\ 0 \in Quantities
  BY ReverseAssumption DEF Idle, Turn, NoSettlement, Settlements, Quantities

(* What a settlement says was executed is a number, -1 when there is none. *)
LEMMA SettlementFacts ==
    ASSUME NEW s \in Settlements
    PROVE  s.executed \in Int
  <1>1. CASE s = NoSettlement
      BY <1>1, TypeFacts
  <1>2. CASE s \in [executed : Quantities, flat : BOOLEAN]
    <2>1. s.executed \in Quantities
        BY <1>2
    <2> QED
        BY <2>1 DEF Quantities
  <1> QED
      BY <1>1, <1>2, TypeFacts DEF Settlements

(* No row, no order, any leg.                                              *)
LEMMA ReverseInit == Init => ReverseInv
  <1> SUFFICES ASSUME Init PROVE ReverseInv
      OBVIOUS
  <1> USE RowFacts, TypeFacts DEF Init
  <1>1. TypeOK
      BY DEF TypeOK, CommandState, NoOrder
  <1>2. \A w \in Rows : RequestSound(w) /\ RowSound(w)
      BY DEF RequestSound, RowSound, Executed, NoOrder
  <1>3. \A r \in Requests : PairSound(r)
      BY DEF PairSound
  <1>4. TurnSound
      BY DEF TurnSound
  <1> QED
      BY <1>1, <1>2, <1>3, <1>4 DEF ReverseInv

(* Admission: the rows are new, nothing was ever sent for them.            *)
LEMMA RequestStep ==
    ASSUME ReverseInv, NEW r \in Requests, NEW asked \in 1..MaxQuantity, RequestAction(r, asked)
    PROVE  ReverseInv'
  <1> USE RowFacts DEF ReverseInv, worldVars
  <1> DEFINE q == Smaller(asked, projectedLeg)
             rows == {Close(r)} \cup (IF r \in Reversals THEN {Open(r)} ELSE {})
  <1>1. /\ state' = [w \in Rows |-> IF w \in rows THEN "pending" ELSE state[w]]
        /\ want' = [w \in Rows |-> IF w \in rows THEN q ELSE want[w]]
        /\ UNCHANGED << prepared, settlement, released, turn, wire, order, leg, projectedLeg, posts >>
      BY DEF RequestAction
  <1>2. state[Close(r)] = "absent" /\ state[Open(r)] = "absent" /\ ~released[r]
      BY DEF RequestAction, PairSound
  <1>3. q \in Quantities
      BY ReverseAssumption DEF Smaller, TypeOK, Quantities
  <1>4. \A w \in rows : state[w] = "absent" /\ prepared[w] = 0 /\ w \in Rows
      BY <1>2 DEF RowSound
  <1>5. \A p \in Requests : p # r => Close(p) \notin rows /\ Open(p) \notin rows
      BY DEF RowFacts
  <1>6. Close(r) \in rows /\ (Open(r) \in rows <=> r \in Reversals)
      BY DEF RowFacts
  <1> HIDE DEF q, rows
  <1>7. TypeOK'
      BY <1>1, <1>3 DEF TypeOK, CommandState
  <1>8. ASSUME NEW w \in Rows PROVE (RequestSound(w) /\ RowSound(w))'
    <2>1. RequestSound(w)'
        BY <1>1 DEF RequestSound
    <2>2. RowSound(w)'
        BY <1>1, <1>4 DEF RowSound, Executed
    <2> QED
        BY <2>1, <2>2
  <1>9. ASSUME NEW p \in Requests PROVE PairSound(p)'
    <2>1. CASE p = r
        BY <1>1, <1>2, <1>4, <1>6, <2>1 DEF PairSound, Nonterminal
    <2>2. CASE p # r
      <3>1. /\ state'[Close(p)] = state[Close(p)] /\ state'[Open(p)] = state[Open(p)]
            /\ want'[Open(p)] = want[Open(p)]
          BY <1>1, <1>5, <2>2
      <3> QED
          BY <1>1, <3>1 DEF PairSound
    <2> QED
        BY <2>1, <2>2
  <1>10. TurnSound'
    <2> SUFFICES ASSUME turn.op # "idle" PROVE TurnSound'
        BY <1>1 DEF TurnSound
    <2>1. turn.op \in {"claimed", "prepared", "sent"} => state'[turn.row] = "sending"
        BY <1>1, <1>4 DEF TurnSound
    <2> QED
        BY <1>1, <2>1 DEF TurnSound, Executed
  <1> QED
      BY <1>7, <1>8, <1>9, <1>10

(* The settlement of a row and of the opening behind it, when the verdict  *)
(* is true: released is the opening of a close that was filled.            *)
LEMMA SettleRowStep ==
    ASSUME ReverseInv, NEW w \in Rows,
           NEW next \in {"accepted", "rejected", "reconcile_required", "reconciled"},
           SettleRow(w, next),
           next = "rejected" => wire[w] # "transit" /\ order[w].status \in {"none", "ended"},
           next = "reconciled" => /\ order[w].status = "filled"
                                  /\ settlement[w].executed = order[w].executed,
           \/ turn' = Idle
           \/ turn.op = "saved" /\ turn.res = "reconciled" /\ turn' = [turn EXCEPT !.op = "accepting"]
    PROVE  ReverseInv'
  <1> USE RowFacts, TypeFacts DEF ReverseInv, worldVars
  <1> DEFINE r == w[1]
  <1>1. state[w] \in Unresolved /\ next \in CommandState /\ next \notin {"absent", "pending", "cancelled"}
      BY DEF SettleRow, SettleFrom, Unresolved, CommandState
  <1>2. UNCHANGED << prepared, settlement, wire, order, leg, projectedLeg, posts >>
      BY DEF SettleRow
  <1>3. \/ /\ w = Close(r) /\ r \in Reversals /\ ~released[r] /\ next = "reconciled"
           /\ settlement[w].executed > 0
           /\ state' = [state EXCEPT ![w] = next]
           /\ want' = [want EXCEPT ![Open(r)] = settlement[w].executed]
           /\ released' = [released EXCEPT ![r] = TRUE]
        \/ /\ w = Close(r) /\ r \in Reversals /\ ~released[r] /\ next \in Terminal
           /\ state' = [state EXCEPT ![w] = next,
                          ![Open(r)] = IF state[Open(r)] = "pending" THEN "cancelled" ELSE state[Open(r)]]
           /\ UNCHANGED << want, released >>
        \/ /\ state' = [state EXCEPT ![w] = next]
           /\ UNCHANGED << want, released >>
           /\ w = Open(r) \/ r \notin Reversals \/ released[r] \/ next \notin Terminal
      BY DEF SettleRow, Gated, Filled, TypeOK
  <1>4. r \in Requests
      OBVIOUS
  <1> HIDE DEF r
  <1>5. \A v \in Rows :
            \/ v = w /\ state'[v] = next
            \/ v # w /\ state'[v] = state[v]
            \/ v # w /\ v = Open(r) /\ state[v] = "pending" /\ state'[v] = "cancelled"
      BY <1>3, <1>4 DEF TypeOK
  <1>6. TypeOK'
    <2>1. settlement[w].executed > 0 => settlement[w].executed \in Quantities
        BY DEF TypeOK, Settlements, NoSettlement
    <2>2. want' \in [Rows -> Quantities]
        BY <1>3, <1>4, <2>1 DEF TypeOK
    <2>3. released' \in [Requests -> BOOLEAN]
      <3>1. released' = released \/ released' = [released EXCEPT ![r] = TRUE]
          BY <1>3
      <3>2. released \in [Requests -> BOOLEAN]
          BY DEF TypeOK
      <3> QED
          BY <1>4, <3>1, <3>2
    <2>4. state' \in [Rows -> CommandState]
      <3> DEFINE s == IF state[Open(r)] = "pending" THEN "cancelled" ELSE state[Open(r)]
      <3>1. s \in CommandState
          BY <1>4 DEF TypeOK, CommandState
      <3>2. \/ state' = [state EXCEPT ![w] = next]
            \/ state' = [state EXCEPT ![w] = next, ![Open(r)] = s]
          BY <1>3
      <3> HIDE DEF s
      <3>3. state \in [Rows -> CommandState] /\ next \in CommandState
          BY <1>1 DEF TypeOK, CommandState, Terminal
      <3>4. CASE state' = [state EXCEPT ![w] = next]
          BY <3>3, <3>4
      <3>5. CASE state' = [state EXCEPT ![w] = next, ![Open(r)] = s]
          BY <3>1, <3>3, <3>5
      <3> QED
          BY <3>2, <3>4, <3>5
    <2>5. turn' \in [op : {"idle", "claimed", "prepared", "sent", "known", "saved", "accepting"},
                     row : Rows \cup {NoRow},
                     res : {"none", "reconciled", "rejected", "unknown"},
                     settlement : Settlements]
        BY DEF TypeOK
    <2> QED
        BY <1>2, <2>2, <2>3, <2>4, <2>5 DEF TypeOK
  <1>7. ASSUME NEW v \in Rows PROVE (RequestSound(v) /\ RowSound(v))'
    <2>1. RequestSound(v)'
        BY <1>2 DEF RequestSound
    <2>2. RowSound(v)'
        BY <1>1, <1>2, <1>5 DEF RowSound, Executed, Unresolved
    <2> QED
        BY <2>1, <2>2
  <1>8. ASSUME NEW p \in Requests PROVE PairSound(p)'
    <2>1. CASE p # r
      <3>1. released'[p] = released[p] /\ want'[Open(p)] = want[Open(p)]
          BY <1>3, <1>4, <2>1 DEF TypeOK
      <3>2. w # Close(p)
        <4>1. w = Close(r) \/ w = Open(r)
            BY DEF r
        <4> QED
            BY <1>4, <2>1, <4>1
      <3>3. w # Open(p)
        <4>1. w = Close(r) \/ w = Open(r)
            BY DEF r
        <4> QED
            BY <1>4, <2>1, <4>1
      <3>4. state'[Close(p)] = state[Close(p)] /\ state'[Open(p)] = state[Open(p)]
          BY <1>4, <1>5, <2>1, <3>2, <3>3
      <3> QED
          BY <1>2, <3>1, <3>4 DEF PairSound
    <2>2. CASE p = r /\ w = Open(r)
      <3>1. state'[Open(r)] = next /\ state'[Close(r)] = state[Close(r)]
          BY <1>4, <1>5, <2>2
      <3>2. UNCHANGED << want, released >>
          BY <1>3, <1>4, <2>2
      <3> QED
          BY <1>1, <1>2, <2>2, <3>1, <3>2 DEF PairSound, Unresolved
    <2>3. CASE p = r /\ w = Close(r)
      <3>1. state[Close(r)] \in Unresolved /\ ~released[r]
          BY <1>1, <1>4, <2>3 DEF PairSound, Unresolved
      <3>2. CASE released'[r]
        <4>1. /\ next = "reconciled" /\ settlement[w].executed > 0
              /\ state' = [state EXCEPT ![w] = next]
              /\ want' = [want EXCEPT ![Open(r)] = settlement[w].executed]
            BY <1>3, <3>1, <3>2
        <4>2. /\ state'[Close(r)] = "reconciled" /\ state'[Open(r)] = state[Open(r)]
              /\ want'[Open(r)] = order[Close(r)].executed
              /\ order[Close(r)].status = "filled"
            BY <1>4, <2>3, <4>1 DEF TypeOK
        <4>3. prepared[Open(r)] = 0
            BY <1>4, <3>1 DEF PairSound, RowSound
        <4> QED
            BY <1>2, <1>4, <2>3, <3>2, <4>2, <4>3 DEF PairSound
      <3>3. CASE ~released'[r]
        <4>1. /\ state'[Close(r)] = next
              /\ \/ state'[Open(r)] = state[Open(r)]
                 \/ state[Open(r)] = "pending" /\ state'[Open(r)] = "cancelled"
            BY <1>4, <1>5, <2>3
        <4>2. want' = want /\ released' = released
            BY <1>3, <1>4, <3>3 DEF TypeOK
        <4>3. state'[Open(r)] = "pending" => next \in Nonterminal
          <5>1. state[Open(r)] # "absent" => r \in Reversals
              BY <1>4 DEF PairSound
          <5>2. CASE next \in Terminal
            <6>1. state[Open(r)] = "pending" => state'[Open(r)] = "cancelled"
              <7> SUFFICES ASSUME state[Open(r)] = "pending" PROVE state'[Open(r)] = "cancelled"
                  OBVIOUS
              <7>1. state' = [state EXCEPT ![w] = next, ![Open(r)] = "cancelled"]
                  BY <1>3, <1>4, <2>3, <3>1, <3>3, <5>1, <5>2 DEF TypeOK
              <7> QED
                  BY <1>4, <7>1 DEF TypeOK
            <6> QED
                BY <4>1, <6>1
          <5>3. CASE next \notin Terminal
              BY <1>1, <5>3 DEF Terminal, Nonterminal, Unresolved, CommandState
          <5> QED
              BY <5>2, <5>3
        <4>4. state[Open(r)] \notin {"absent", "pending", "cancelled"} => released[r]
            BY <1>4 DEF PairSound
        <4> QED
            BY <1>1, <1>2, <1>4, <2>3, <3>1, <3>3, <4>1, <4>2, <4>3, <4>4 DEF PairSound, TypeOK
      <3> QED
          BY <3>2, <3>3
    <2> QED
        BY <2>1, <2>2, <2>3, RowFacts DEF r
  <1>9. TurnSound'
    <2>1. CASE turn' = Idle
        BY <2>1 DEF TurnSound
    <2>2. CASE turn.op = "saved" /\ turn.res = "reconciled" /\ turn' = [turn EXCEPT !.op = "accepting"]
      <3>1. /\ turn'.op = "accepting" /\ turn'.row = turn.row /\ turn'.res = "reconciled"
            /\ turn'.settlement = turn.settlement
          BY <2>2 DEF TypeOK
      <3> QED
          BY <1>2, <2>2, <3>1 DEF TurnSound, Executed
    <2> QED
        BY <2>1, <2>2
  <1> QED
      BY <1>6, <1>7, <1>8, <1>9

(* The claim: the row was pending, so it was never prepared.               *)
LEMMA ClaimStep ==
    ASSUME ReverseInv, NEW w \in Rows, Claim(w)
    PROVE  ReverseInv'
  <1> USE RowFacts, TypeFacts DEF ReverseInv, Claim, worldVars
  <1>1. turn' = [op |-> "claimed", row |-> w, res |-> "none", settlement |-> NoSettlement]
      BY DEF Turn
  <1>2. prepared[w] = 0 /\ wire[w] = "none"
      BY DEF RowSound, RequestSound
  <1>3. TypeOK'
      BY <1>1 DEF TypeOK, CommandState
  <1>4. ASSUME NEW v \in Rows PROVE (RequestSound(v) /\ RowSound(v))'
      BY DEF RequestSound, RowSound, Executed, TypeOK
  <1>5. ASSUME NEW p \in Requests PROVE PairSound(p)'
    <2>1. w = Open(p) => released[p] /\ state[Close(p)] = "reconciled"
        BY DEF ClaimGate
    <2> QED
        BY <2>1 DEF PairSound, TypeOK, Nonterminal, Unresolved
  <1>6. TurnSound'
    <2>1. order[w].executed \in Nat
        BY DEF TypeOK
    <2> QED
        BY <1>1, <1>2, <2>1 DEF TurnSound, Executed, TypeOK
  <1> QED
      BY <1>3, <1>4, <1>5, <1>6

(* An opening is prepared for what it wants; a close for what is there.    *)
LEMMA PrepareStep ==
    ASSUME ReverseInv, Prepare
    PROVE  ReverseInv'
  <1> USE RowFacts, TypeFacts DEF ReverseInv, worldVars
  <1> DEFINE w == turn.row
             q == PrepareQuantity(w)
  <1>1. w \in Rows /\ state[w] = "sending" /\ wire[w] = "none" /\ turn.op = "claimed"
      BY DEF Prepare, TurnSound
  <1>2. /\ q > 0 /\ prepared[w] = 0 /\ prepared' = [prepared EXCEPT ![w] = q]
        /\ UNCHANGED << state, want, settlement, released, wire, order, leg, projectedLeg, posts >>
      BY DEF Prepare
  <1>3. turn' = [op |-> "prepared", row |-> w, res |-> turn.res, settlement |-> turn.settlement]
      BY DEF Prepare, TypeOK
  <1>4. q \in Quantities /\ (w[2] = "open" => q = want[w])
    <2>1. want[w] \in Quantities /\ projectedLeg \in Quantities
        BY <1>1 DEF TypeOK
    <2> QED
        BY <1>1, <1>2, <2>1 DEF PrepareQuantity, Smaller
  <1> HIDE DEF w, q
  <1>5. TypeOK'
    <2>1. prepared' \in [Rows -> Quantities]
        BY <1>1, <1>2, <1>4 DEF TypeOK
    <2>2. w \in Rows \cup {NoRow}
        BY <1>1
    <2> QED
        BY <1>2, <1>3, <2>1, <2>2 DEF TypeOK
  <1>6. ASSUME NEW v \in Rows PROVE (RequestSound(v) /\ RowSound(v))'
    <2>1. prepared'[v] = IF v = w THEN q ELSE prepared[v]
        BY <1>1, <1>2 DEF TypeOK
    <2>2. order[w].executed = 0 /\ q \in Nat
        BY <1>1, <1>4 DEF RequestSound
    <2> QED
        BY <1>1, <1>2, <2>1, <2>2 DEF RequestSound, RowSound, Executed
  <1>7. ASSUME NEW p \in Requests PROVE PairSound(p)'
    <2>1. prepared'[Open(p)] = IF Open(p) = w THEN q ELSE prepared[Open(p)]
        BY <1>1, <1>2 DEF TypeOK
    <2>2. Open(p) = w => q = want[Open(p)]
        BY <1>4
    <2> QED
        BY <1>2, <2>1, <2>2 DEF PairSound
  <1>8. TurnSound'
    <2>1. prepared'[w] # 0
        BY <1>1, <1>2, <1>4 DEF TypeOK
    <2>2. order[w].status = "none"
        BY <1>1 DEF RequestSound
    <2> QED
        BY <1>1, <1>2, <1>3, <2>1, <2>2 DEF TurnSound, Executed, w
  <1> QED
      BY <1>5, <1>6, <1>7, <1>8

(* The request leaves the process: it was prepared and never sent before.  *)
LEMMA SendStep ==
    ASSUME ReverseInv, Send
    PROVE  ReverseInv'
  <1> USE RowFacts, TypeFacts DEF ReverseInv, rowVars
  <1> DEFINE w == turn.row
  <1>1. /\ w \in Rows /\ state[w] = "sending" /\ wire[w] = "none" /\ prepared[w] # 0
        /\ turn.op = "prepared"
      BY DEF Send, TurnSound
  <1>2. /\ wire' = [wire EXCEPT ![w] = "transit"]
        /\ posts' = [posts EXCEPT ![w] = @ + 1]
        /\ UNCHANGED << state, want, prepared, settlement, released, order, leg, projectedLeg >>
      BY DEF Send
  <1>3. turn' = [op |-> "sent", row |-> w, res |-> turn.res, settlement |-> turn.settlement]
      BY DEF Send, TypeOK
  <1>4. order[w].status = "none" /\ turn.res \notin {"rejected", "reconciled"}
      BY <1>1 DEF RequestSound, TurnSound
  <1> HIDE DEF w
  <1>5. TypeOK'
    <2>1. wire' \in [Rows -> {"none", "transit", "acked", "refused", "lost"}]
        BY <1>1, <1>2 DEF TypeOK
    <2>2. posts' \in [Rows -> Nat]
        BY <1>1, <1>2 DEF TypeOK
    <2>3. w \in Rows \cup {NoRow}
        BY <1>1
    <2> QED
        BY <1>2, <1>3, <2>1, <2>2, <2>3 DEF TypeOK
  <1>6. ASSUME NEW v \in Rows PROVE (RequestSound(v) /\ RowSound(v))'
    <2>1. CASE v = w
        BY <1>1, <1>2, <1>4, <2>1 DEF RequestSound, RowSound, Executed, TypeOK
    <2>2. CASE v # w
      <3>1. wire'[v] = wire[v] /\ posts'[v] = posts[v]
          BY <1>2, <2>2 DEF TypeOK
      <3> QED
          BY <1>2, <3>1 DEF RequestSound, RowSound, Executed
    <2> QED
        BY <2>1, <2>2
  <1>7. ASSUME NEW p \in Requests PROVE PairSound(p)'
      BY <1>2 DEF PairSound
  <1>8. TurnSound'
      BY <1>1, <1>2, <1>3, <1>4 DEF TurnSound, Executed, w
  <1> QED
      BY <1>5, <1>6, <1>7, <1>8

(* Steps that move only the turn, to what is true of its row.              *)
LEMMA TurnStep ==
    ASSUME ReverseInv, UNCHANGED << rowVars, worldVars >>, TypeOK', TurnSound'
    PROVE  ReverseInv'
  <1> USE DEF ReverseInv, rowVars, worldVars
  <1>1. ASSUME NEW v \in Rows PROVE (RequestSound(v) /\ RowSound(v))'
      BY DEF RequestSound, RowSound, Executed
  <1>2. ASSUME NEW p \in Requests PROVE PairSound(p)'
      BY DEF PairSound
  <1> QED
      BY <1>1, <1>2

(* What an answer or a readback tells of a row.                            *)
LEMMA LearnStep ==
    ASSUME ReverseInv, UNCHANGED << rowVars, worldVars >>, NEW w \in Rows,
           \/ Uncertain(w)
           \/ LearnSigned(w)
           \/ wire[w] = "refused" /\ turn' = Turn("known", w, "rejected", NoSettlement)
    PROVE  ReverseInv'
  <1> USE RowFacts, TypeFacts DEF ReverseInv, rowVars, worldVars
  <1>1. PICK res \in {"unknown", "reconciled", "rejected"}, s \in Settlements :
            turn' = [op |-> "known", row |-> w, res |-> res, settlement |-> s]
    <2>1. SignedResult(w) \in {"unknown", "reconciled", "rejected"}
        BY DEF SignedResult
    <2>2. Observed(w) \in Settlements
      <3>1. order[w].executed \in Quantities /\ (leg = 0) \in BOOLEAN
          BY DEF TypeOK
      <3> QED
          BY <3>1 DEF Observed, Settlements
    <2> QED
        BY <2>1, <2>2 DEF Uncertain, LearnSigned, Turn
  <1>2. TypeOK'
      BY <1>1 DEF TypeOK
  <1>3. /\ res = "reconciled" => order[w].status = "filled" /\ s.executed = order[w].executed
        /\ res = "rejected" => wire[w] = "refused" \/ order[w].status = "ended"
        /\ Executed(w, s)
    <2>1. CASE LearnSigned(w)
      <3>1. res = SignedResult(w) /\ s = Observed(w)
          BY <1>1, <2>1 DEF LearnSigned, Turn
      <3>2. s.executed = order[w].executed
          BY <3>1 DEF Observed
      <3>3. order[w].status \in {"none", "working", "filled", "ended"} /\ order[w].executed \in Nat
          BY DEF TypeOK
      <3>4. Executed(w, s)
          BY <3>2, <3>3 DEF Executed, RequestSound
      <3> QED
          BY <3>1, <3>2, <3>3, <3>4 DEF SignedResult
    <2>2. order[w].executed \in Nat
        BY DEF TypeOK
    <2>3. CASE Uncertain(w)
        BY <1>1, <2>2, <2>3 DEF Uncertain, Turn, Executed
    <2>4. CASE wire[w] = "refused" /\ turn' = Turn("known", w, "rejected", NoSettlement)
        BY <1>1, <2>2, <2>4 DEF Turn, Executed
    <2> QED
        BY <2>1, <2>3, <2>4
  <1>4. TurnSound'
      BY <1>1, <1>3 DEF TurnSound, Executed
  <1> QED
      BY <1>2, <1>4, TurnStep

(* An aborted turn forgets what it knew.                                   *)
LEMMA AbortStep ==
    ASSUME ReverseInv, UNCHANGED << rowVars, worldVars >>, turn' = Idle
    PROVE  ReverseInv'
  <1> USE TypeFacts
  <1>1. TypeOK'
      BY DEF ReverseInv, TypeOK, rowVars, worldVars
  <1>2. TurnSound'
      BY DEF TurnSound
  <1> QED
      BY <1>1, <1>2, TurnStep

(* The settlement is saved, and is true of the row.                        *)
LEMMA SaveStep ==
    ASSUME ReverseInv, Save
    PROVE  ReverseInv'
  <1> USE RowFacts DEF ReverseInv, worldVars
  <1> DEFINE w == turn.row
  <1>1. w \in Rows /\ turn.op = "known" /\ turn.res # "none"
      BY DEF Save, TurnSound
  <1>2. turn' = [op |-> "saved", row |-> w, res |-> turn.res, settlement |-> turn.settlement]
      BY DEF Save, TypeOK
  <1>3. /\ settlement' = settlement \/ settlement' = [settlement EXCEPT ![w] = turn.settlement]
        /\ UNCHANGED << state, want, prepared, released, wire, order, leg, projectedLeg, posts >>
      BY DEF Save
  <1>4. Executed(w, turn.settlement)
      BY <1>1 DEF TurnSound
  <1>5. TypeOK'
    <2>1. settlement' \in [Rows -> Settlements]
        BY <1>1, <1>3 DEF TypeOK
    <2>2. turn' \in [op : {"idle", "claimed", "prepared", "sent", "known", "saved", "accepting"},
                     row : Rows \cup {NoRow},
                     res : {"none", "reconciled", "rejected", "unknown"},
                     settlement : Settlements]
        BY <1>1, <1>2 DEF TypeOK
    <2> QED
        BY <1>3, <2>1, <2>2 DEF TypeOK
  <1>6. ASSUME NEW v \in Rows PROVE (RequestSound(v) /\ RowSound(v))'
    <2>1. RequestSound(v)'
        BY <1>3 DEF RequestSound
    <2>2. settlement'[v] = settlement[v] \/ (v = w /\ settlement'[v] = turn.settlement)
        BY <1>1, <1>3 DEF TypeOK
    <2>3. Executed(v, settlement'[v])
        BY <1>4, <2>2 DEF RowSound
    <2>4. RowSound(v)'
        BY <1>3, <2>3 DEF RowSound, Executed
    <2> QED
        BY <2>1, <2>4
  <1>7. ASSUME NEW p \in Requests PROVE PairSound(p)'
      BY <1>3 DEF PairSound
  <1>8. TurnSound'
    <2>1. turn.res = "reconciled" => settlement'[w] = turn.settlement
      <3>1. order[w].executed \in Nat
          BY <1>1, TypeFacts DEF TypeOK
      <3>2. turn.res = "reconciled" => turn.settlement # NoSettlement
          BY <1>1, <3>1, TypeFacts DEF TurnSound
      <3> QED
          BY <1>1, <3>2 DEF Save, TypeOK
    <2> QED
        BY <1>1, <1>2, <1>3, <2>1 DEF TurnSound, Executed
  <1> QED
      BY <1>5, <1>6, <1>7, <1>8

(* The exchange handles a request or a working order: nothing that a row   *)
(* or the turn holds for final speaks of that order.                       *)
LEMMA ExchangeStep ==
    ASSUME ReverseInv, NEW w \in Rows,
           UNCHANGED << rowVars, turn, projectedLeg, posts >>, leg' \in Quantities,
           \/ wire[w] = "transit"
           \/ wire[w] = "acked" /\ wire' = wire /\ order[w].status = "working",
           NEW mark \in {"acked", "refused", "lost"}, wire' = [wire EXCEPT ![w] = mark],
           NEW o \in [status : {"none", "working", "filled", "ended"}, executed : Quantities],
           order' = [order EXCEPT ![w] = o],
           mark # "acked" => o.status = "none",
           o.status = "none" => o.executed = 0,
           order[w].executed <= o.executed, o.executed <= prepared[w]
    PROVE  ReverseInv'
  <1> USE RowFacts DEF ReverseInv, rowVars
  <1>1. TypeOK'
      BY DEF TypeOK
  <1>2. order[w].status \in {"none", "working"} /\ prepared[w] # 0
      BY DEF RequestSound
  <1>3. /\ wire'[w] = mark /\ order'[w] = o
        /\ \A v \in Rows : v # w => wire'[v] = wire[v] /\ order'[v] = order[v]
      BY DEF TypeOK
  <1>4. ASSUME NEW v \in Rows PROVE (RequestSound(v) /\ RowSound(v))'
    <2>1. CASE v = w
      <3>1. state[w] # "rejected"
          BY <1>2 DEF RowSound
      <3>2. settlement[w].executed <= o.executed
        <4>1. order[w].executed \in Quantities /\ o.executed \in Quantities
            BY DEF TypeOK
        <4>2. settlement[w].executed \in Int
            BY SettlementFacts DEF TypeOK
        <4>3. settlement[w].executed <= order[w].executed /\ order[w].executed <= o.executed
            BY DEF RowSound, Executed
        <4> QED
            BY <4>1, <4>2, <4>3, ReverseAssumption DEF Quantities
      <3> QED
          BY <1>2, <1>3, <2>1, <3>1, <3>2 DEF RequestSound, RowSound, Executed
    <2>2. CASE v # w
        BY <1>3, <2>2 DEF RequestSound, RowSound, Executed
    <2> QED
        BY <2>1, <2>2
  <1>5. ASSUME NEW p \in Requests PROVE PairSound(p)'
    <2>1. released[p] => Close(p) # w
        BY <1>2 DEF PairSound
    <2> QED
        BY <1>3, <2>1 DEF PairSound
  <1>6. TurnSound'
    <2> SUFFICES ASSUME turn.op # "idle" PROVE TurnSound'
        BY DEF TurnSound
    <2>1. CASE turn.row # w
        BY <1>3, <2>1 DEF TurnSound, Executed
    <2>2. CASE turn.row = w
      <3>1. turn.res \notin {"reconciled", "rejected"}
          BY <1>2, <2>2 DEF TurnSound, RequestSound
      <3>2. turn.settlement.executed <= o.executed
        <4>1. order[w].executed \in Quantities /\ o.executed \in Quantities
            BY DEF TypeOK
        <4>2. turn.settlement.executed \in Int
            BY SettlementFacts DEF TypeOK
        <4>3. turn.settlement.executed <= order[w].executed /\ order[w].executed <= o.executed
            BY <2>2 DEF TurnSound, Executed
        <4> QED
            BY <4>1, <4>2, <4>3, ReverseAssumption DEF Quantities
      <3>3. turn.op \notin {"claimed", "prepared", "accepting"}
          BY <1>2, <2>2, <3>1 DEF TurnSound, RequestSound
      <3> QED
          BY <1>2, <2>2, <3>1, <3>2, <3>3 DEF TurnSound, Executed
    <2> QED
        BY <2>1, <2>2
  <1> QED
      BY <1>1, <1>4, <1>5, <1>6

(* What an execution leaves of the order and of the leg.                   *)
LEMMA ExecuteFacts ==
    ASSUME TypeOK, NEW w \in Rows, order[w].executed <= prepared[w],
           NEW n \in 0..Executable(w), Execute(w, n)
    PROVE  /\ leg' \in Quantities
           /\ \E o \in [status : {"working", "filled", "ended"}, executed : Quantities] :
                /\ order' = [order EXCEPT ![w] = o]
                /\ order[w].executed <= o.executed /\ o.executed <= prepared[w]
  <1> DEFINE done == order[w].executed + n
  <1>1. /\ leg \in 0..MaxQuantity /\ prepared[w] \in 0..MaxQuantity
        /\ order[w].executed \in 0..MaxQuantity
      BY DEF TypeOK, Quantities
  <1>2. n \in Nat /\ n <= prepared[w] - order[w].executed /\ (w[2] = "close" => n <= leg)
      BY <1>1, ReverseAssumption DEF Executable, Smaller
  <1>3. leg' \in 0..MaxQuantity
      BY <1>1, <1>2, ReverseAssumption DEF Execute
  <1>4. done \in 0..MaxQuantity /\ order[w].executed <= done /\ done <= prepared[w]
      BY <1>1, <1>2, ReverseAssumption
  <1>5. PICK status \in {"working", "filled", "ended"} :
            order' = [order EXCEPT ![w] = [status |-> status, executed |-> done]]
      BY DEF Execute
  <1> DEFINE o == [status |-> status, executed |-> done]
  <1>6. o \in [status : {"working", "filled", "ended"}, executed : Quantities] /\ o.executed = done
      BY <1>4 DEF Quantities
  <1>7. order' = [order EXCEPT ![w] = o]
      BY <1>5
  <1> HIDE DEF o, done
  <1> QED
      BY <1>3, <1>4, <1>6, <1>7 DEF Quantities

(* A request arrives, or is refused, or is lost.                           *)
LEMMA DeliverStep ==
    ASSUME ReverseInv, NEW w \in Rows, Deliver(w)
    PROVE  ReverseInv'
  <1> USE RowFacts, TypeFacts
  <1>1. TypeOK /\ leg \in Quantities /\ wire[w] = "transit" /\ order[w].executed <= prepared[w]
      BY DEF Deliver, ReverseInv, TypeOK, RequestSound
  <1>2. order[w] = [status |-> "none", executed |-> 0] /\ prepared[w] \in Nat
      BY <1>1 DEF ReverseInv, RequestSound, TypeOK
  <1>3. order' = order => order' = [order EXCEPT ![w] = [status |-> "none", executed |-> 0]]
      BY <1>1, <1>2 DEF TypeOK
  <1>4. UNCHANGED << rowVars, turn, projectedLeg, posts >>
      BY DEF Deliver
  <1>5. CASE wire' = [wire EXCEPT ![w] = "acked"] /\ \E n \in 0..Executable(w) : Execute(w, n)
    <2>1. leg' \in Quantities
        BY <1>1, <1>5, ExecuteFacts
    <2>2. PICK o \in [status : {"working", "filled", "ended"}, executed : Quantities] :
              /\ order' = [order EXCEPT ![w] = o]
              /\ order[w].executed <= o.executed /\ o.executed <= prepared[w]
        BY <1>1, <1>5, ExecuteFacts
    <2> QED
        BY <1>1, <1>4, <1>5, <2>1, <2>2, ExchangeStep
  <1>6. CASE \E mark \in {"refused", "lost"} :
                /\ wire' = [wire EXCEPT ![w] = mark]
                /\ UNCHANGED << order, leg >>
    <2> DEFINE o == [status |-> "none", executed |-> 0]
    <2>1. PICK mark \in {"refused", "lost"} : wire' = [wire EXCEPT ![w] = mark]
        BY <1>6
    <2>2. order' = [order EXCEPT ![w] = o] /\ leg' \in Quantities
        BY <1>1, <1>3, <1>6
    <2>3. /\ o \in [status : {"none", "working", "filled", "ended"}, executed : Quantities]
          /\ o.executed = 0 /\ o.status = "none"
          /\ order[w].executed <= o.executed /\ o.executed <= prepared[w]
        BY <1>2
    <2> HIDE DEF o
    <2> QED
        BY <1>1, <1>4, <2>1, <2>2, <2>3, ExchangeStep
  <1> QED
      BY <1>5, <1>6 DEF Deliver

(* A working market order is executed further, or ends.                    *)
LEMMA WorkingStep ==
    ASSUME ReverseInv, NEW w \in Rows, WorkingExecutes(w)
    PROVE  ReverseInv'
  <1>1. /\ TypeOK /\ order[w].status = "working" /\ wire[w] = "acked"
        /\ order[w].executed <= prepared[w]
      BY DEF WorkingExecutes, ReverseInv, RequestSound
  <1>2. UNCHANGED << rowVars, turn, wire, projectedLeg, posts >>
      BY DEF WorkingExecutes
  <1>3. wire' = [wire EXCEPT ![w] = "acked"]
      BY <1>1, <1>2 DEF TypeOK
  <1>4. leg' \in Quantities
      BY <1>1, ExecuteFacts DEF WorkingExecutes
  <1>5. PICK o \in [status : {"working", "filled", "ended"}, executed : Quantities] :
            /\ order' = [order EXCEPT ![w] = o]
            /\ order[w].executed <= o.executed /\ o.executed <= prepared[w]
      BY <1>1, ExecuteFacts DEF WorkingExecutes
  <1> QED
      BY <1>1, <1>2, <1>3, <1>4, <1>5, ExchangeStep

(* The leg moves, or its projection.                                       *)
LEMMA LegStep ==
    ASSUME ReverseInv, UNCHANGED << rowVars, turn, wire, order, posts >>,
           leg' \in Quantities, projectedLeg' \in Quantities
    PROVE  ReverseInv'
  <1> USE DEF ReverseInv, rowVars
  <1>1. TypeOK'
      BY DEF TypeOK
  <1>2. ASSUME NEW v \in Rows PROVE (RequestSound(v) /\ RowSound(v))'
      BY DEF RequestSound, RowSound, Executed
  <1>3. ASSUME NEW p \in Requests PROVE PairSound(p)'
      BY DEF PairSound
  <1>4. TurnSound'
      BY DEF TurnSound, Executed
  <1> QED
      BY <1>1, <1>2, <1>3, <1>4

(* The verdict of a turn is true of its row.                               *)
LEMMA SettleStep ==
    ASSUME ReverseInv, Settle \/ Complete \/ RejectUnsent
    PROVE  ReverseInv'
  <1> DEFINE w == turn.row
  <1>1. w \in Rows
      BY DEF ReverseInv, TurnSound, Settle, Complete, RejectUnsent
  <1>2. RequestSound(w) /\ state[w] \in CommandState /\ turn.res \in {"none", "reconciled", "rejected", "unknown"}
      BY <1>1 DEF ReverseInv, TypeOK
  <1>3. CASE RejectUnsent
    <2>1. wire[w] = "none"
        BY <1>3 DEF RejectUnsent, ReverseInv, TurnSound
    <2>2. wire[w] # "transit" /\ order[w].status = "none"
        BY <1>2, <2>1 DEF RequestSound
    <2> QED
        BY <1>1, <1>3, <2>2, SettleRowStep DEF RejectUnsent
  <1>4. CASE Complete
    <2>1. order[w].status = "filled" /\ settlement[w].executed = order[w].executed
        BY <1>4 DEF Complete, ReverseInv, TurnSound
    <2> QED
        BY <1>1, <1>4, <2>1, SettleRowStep DEF Complete
  <1>5. CASE Settle
    <2> DEFINE next == RowNext(state[w], turn.res)
    <2>1. turn.op = "saved" /\ turn.res \in {"reconciled", "rejected", "unknown"}
        BY <1>2, <1>5 DEF Settle, ReverseInv, TurnSound
    <2>2. /\ turn.res = "reconciled" => /\ order[w].status = "filled"
                                        /\ settlement[w].executed = order[w].executed
          /\ turn.res = "rejected" => wire[w] = "refused" \/ order[w].status = "ended"
        BY <2>1 DEF ReverseInv, TurnSound
    <2>3. /\ next \in {"accepted", "rejected", "reconcile_required", "reconciled"}
          /\ next = "rejected" => turn.res = "rejected"
          /\ next \in {"accepted", "reconciled"} => turn.res = "reconciled"
        BY <2>1 DEF RowNext
    <2>4. turn' = IF next = "accepted" THEN [turn EXCEPT !.op = "accepting"] ELSE Idle
        BY <1>5 DEF Settle
    <2>5. \/ next = "reconcile_required" /\ UNCHANGED << rowVars, worldVars >>
          \/ SettleRow(w, next)
        BY <1>5 DEF Settle
    <2>6. next = "rejected" => wire[w] # "transit" /\ order[w].status \in {"none", "ended"}
      <3>1. wire[w] = "refused" => order[w].status = "none"
          BY <1>2 DEF RequestSound
      <3>2. order[w].status = "ended" => wire[w] = "acked"
          BY <1>2 DEF RequestSound
      <3> QED
          BY <2>2, <2>3, <3>1, <3>2
    <2> HIDE DEF next
    <2>7. CASE next = "reconcile_required" /\ UNCHANGED << rowVars, worldVars >>
        BY <2>4, <2>7, AbortStep
    <2>8. CASE SettleRow(w, next)
        BY <1>1, <2>1, <2>2, <2>3, <2>4, <2>6, <2>8, SettleRowStep
    <2> QED
        BY <2>5, <2>7, <2>8
  <1> QED
      BY <1>3, <1>4, <1>5

(* Recovery without a turn: what was never prepared was never sent.        *)
LEMMA RecoverStep ==
    ASSUME ReverseInv, NEW w \in Rows, RecoverSending(w) \/ RejectUnprepared(w)
    PROVE  ReverseInv'
  <1>1. turn' = Idle
      BY DEF RecoverSending, RejectUnprepared
  <1>2. CASE RecoverSending(w)
      BY <1>1, <1>2, SettleRowStep DEF RecoverSending
  <1>3. CASE RejectUnprepared(w)
    <2>1. wire[w] = "none" /\ order[w].status = "none"
        BY <1>3 DEF RejectUnprepared, ReverseInv, RequestSound
    <2> QED
        BY <1>1, <1>3, <2>1, SettleRowStep DEF RejectUnprepared
  <1> QED
      BY <1>2, <1>3

(* ReverseInv is an inductive invariant of close and reverse.              *)
THEOREM ReverseInvariant == Spec => []ReverseInv
  <1>1. ReverseInv /\ [Next]_vars => ReverseInv'
    <2> SUFFICES ASSUME ReverseInv, [Next]_vars PROVE ReverseInv'
        OBVIOUS
    <2>1. ASSUME NEW r \in Requests, NEW asked \in 1..MaxQuantity, RequestAction(r, asked)
          PROVE  ReverseInv'
        BY <2>1, RequestStep
    <2>2. ASSUME NEW w \in Rows, Claim(w) PROVE ReverseInv'
        BY <2>2, ClaimStep
    <2>3. ASSUME NEW w \in Rows, RecoverSending(w) \/ RejectUnprepared(w) PROVE ReverseInv'
        BY <2>3, RecoverStep
    <2>4. ASSUME NEW w \in Rows, ReadBack(w) PROVE ReverseInv'
        BY <2>4, LearnStep DEF ReadBack
    <2>5. ASSUME NEW w \in Rows, Deliver(w) PROVE ReverseInv'
        BY <2>5, DeliverStep
    <2>6. ASSUME NEW w \in Rows, WorkingExecutes(w) PROVE ReverseInv'
        BY <2>6, WorkingStep
    <2>7. CASE Prepare
        BY <2>7, PrepareStep
    <2>8. CASE RejectUnsent \/ Settle \/ Complete
        BY <2>8, SettleStep
    <2>9. CASE Send
        BY <2>9, SendStep
    <2>10. CASE Answer
      <3>1. turn.row \in Rows
          BY <2>10 DEF Answer, ReverseInv, TurnSound
      <3> QED
          BY <2>10, <3>1, LearnStep DEF Answer
    <2>11. CASE Save
        BY <2>11, SaveStep
    <2>12. CASE AbortTurn
        BY <2>12, AbortStep DEF AbortTurn
    <2>13. CASE LegMoves \/ ProjectionRefreshed
      <3>1. leg' \in Quantities /\ projectedLeg' \in Quantities
          BY <2>13 DEF LegMoves, ProjectionRefreshed, ReverseInv, TypeOK
      <3> QED
          BY <2>13, <3>1, LegStep DEF LegMoves, ProjectionRefreshed
    <2>14. CASE UNCHANGED vars
      <3>1. UNCHANGED << rowVars, turn, wire, order, posts >> /\ UNCHANGED << leg, projectedLeg >>
          BY <2>14 DEF vars, worldVars
      <3> QED
          BY <3>1, LegStep DEF ReverseInv, TypeOK
    <2> QED
        BY <2>1, <2>2, <2>3, <2>4, <2>5, <2>6, <2>7, <2>8, <2>9, <2>10, <2>11, <2>12, <2>13,
           <2>14 DEF Next
  <1> QED
      BY ReverseInit, <1>1, PTL DEF Spec

(* The types of rows, turn, requests and orders.                           *)
THEOREM ReverseTypeCorrect == Spec => []TypeOK
  <1>1. ReverseInv => TypeOK
      BY DEF ReverseInv
  <1> QED
      BY ReverseInvariant, <1>1, PTL

(* An opening is sent only behind a complete close, for exactly what it    *)
(* executed (settle_reverse_child, position_context).                      *)
THEOREM ReverseBacked == Spec => []ReversalBacked
  <1>1. ReverseInv => ReversalBacked
    <2> SUFFICES ASSUME ReverseInv, NEW r \in Requests, posts[Open(r)] > 0
                 PROVE  /\ order[Close(r)].status = "filled"
                        /\ prepared[Open(r)] = order[Close(r)].executed
        BY DEF ReversalBacked
    <2> USE RowFacts DEF ReverseInv
    <2>1. prepared[Open(r)] # 0
        BY DEF RequestSound
    <2>2. released[r]
        BY <2>1 DEF RowSound, PairSound
    <2> QED
        BY <2>1, <2>2 DEF PairSound
  <1> QED
      BY ReverseInvariant, <1>1, PTL

(* What is reported rejected or cancelled is over at the exchange, also    *)
(* what a restart rejects because prepared_json is missing.                *)
THEOREM ReverseRejectedIsOver == Spec => []RejectedIsOver
  <1>1. ReverseInv => RejectedIsOver
    <2> SUFFICES ASSUME ReverseInv, NEW w \in Rows, state[w] \in {"rejected", "cancelled"}
                 PROVE  wire[w] # "transit" /\ order[w].status \in {"none", "ended"}
        BY DEF RejectedIsOver
    <2> QED
        BY DEF ReverseInv, RowSound, RequestSound
  <1> QED
      BY ReverseInvariant, <1>1, PTL

(* A gated opening never outlives the close that decides about it.         *)
THEOREM ReverseNoOrphanOpening == Spec => []NoOrphanOpening
  <1>1. ReverseInv => NoOrphanOpening
      BY ReverseAssumption DEF ReverseInv, NoOrphanOpening, PairSound
  <1> QED
      BY ReverseInvariant, <1>1, PTL

=============================================================================
