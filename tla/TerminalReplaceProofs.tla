----------------------- MODULE TerminalReplaceProofs -----------------------
(***************************************************************************)
(* ReplaceInv is an inductive invariant of TerminalReplace, for any        *)
(* requests and quantities and any number of aborted turns; NoOverExposure *)
(* and NoOrphanChild follow from it.                                       *)
(***************************************************************************)
EXTENDS TerminalReplace, TLAPS

(* Nothing was asked for and the original rests.                           *)
LEMMA ReplaceInit == Init => ReplaceInv
  <1> SUFFICES ASSUME Init PROVE ReplaceInv
      OBVIOUS
  <1> USE ReplaceAssumption
  <1>1. original \in Orders /\ original.filled <= original.qty
      BY DEF Init, Orders
  <1>2. TypeOK
      BY <1>1 DEF Init, TypeOK, Idle, Turn, CommandState, Facts, NoFact
  <1>3. FactsTrue
      BY <1>1 DEF Init, FactsTrue, Idle, Turn
  <1>4. RowsAgree /\ OneCarried
      BY DEF Init, RowsAgree, OneCarried, Nonterminal, Unresolved
  <1>5. SentAsReleased /\ TurnSound
      BY DEF Init, SentAsReleased, TurnSound, Idle, Turn
  <1> QED
      BY <1>2, <1>3, <1>4, <1>5 DEF ReplaceInv

(* Admission: no other request is under way or was carried out.            *)
LEMMA ReplaceStep ==
    ASSUME ReplaceInv, NEW r \in Requests, Replace(r)
    PROVE  ReplaceInv'
  <1> USE ReplaceAssumption DEF ReplaceInv, Replace
  <1>1. TypeOK'
      BY DEF TypeOK, CommandState, Orders
  <1>2. FactsTrue'
      BY DEF FactsTrue, Final
  <1>3. RowsAgree'
      BY DEF RowsAgree, TypeOK, Nonterminal
  <1>4. OneCarried'
      BY DEF OneCarried, Busy, TypeOK
  <1>5. SentAsReleased'
      BY DEF SentAsReleased, RowsAgree, TypeOK
  <1>6. TurnSound'
    <2>1. turn.op = "placing" => turn.req # r
        BY DEF TurnSound, RowsAgree
    <2> QED
        BY <2>1 DEF TurnSound, TypeOK
  <1> QED
      BY <1>1, <1>2, <1>3, <1>4, <1>5, <1>6

(* The settlement of a parent, with the release or the end of its child:   *)
(* the fact on the row, if there is one, is the final fill.                *)
LEMMA SettleParentStep ==
    ASSUME ReplaceInv, NEW r \in Requests,
           NEW next \in {"accepted", "rejected", "reconcile_required", "reconciled"},
           SettleParent(r, next),
           turn' = Idle \/ (turn.op = "recorded" /\ turn' = [turn EXCEPT !.op = "accepting"])
    PROVE  ReplaceInv'
  <1> USE ReplaceAssumption DEF ReplaceInv
  <1>1. parent[r] \in Unresolved /\ next \in CommandState
      BY DEF SettleParent, SettleFrom, DeferTo, Unresolved, CommandState
  <1>2. child[r] = "pending" /\ ~released[r] /\ sent[r] = 0
    <2>1. child[r] = "pending" /\ ~released[r]
        BY <1>1 DEF RowsAgree, TypeOK, Nonterminal, Unresolved
    <2> QED
        BY <2>1 DEF SentAsReleased
  <1>3. /\ parent' = [parent EXCEPT ![r] = next]
        /\ UNCHANGED << originalQuantity, remaining, original, projected, sent >>
      BY DEF SettleParent
  <1>4. \/ /\ next = "reconciled" /\ remaining[r] > 0
           /\ quantity' = [quantity EXCEPT ![r] = remaining[r]]
           /\ released' = [released EXCEPT ![r] = TRUE]
           /\ child' = child
        \/ /\ next \in Terminal
           /\ child' = [child EXCEPT ![r] = "cancelled"]
           /\ UNCHANGED << quantity, released >>
        \/ /\ next \notin Terminal
           /\ UNCHANGED << child, quantity, released >>
      BY <1>2 DEF SettleParent, Release
  <1>5. turn'.op \in {"idle", "accepting"} /\ turn'.req \in Requests \cup {NoRequest}
      BY DEF Idle, Turn, TypeOK
  <1>6. TypeOK'
    <2>1. remaining[r] > 0 => remaining[r] \in 0..MaxQuantity
        BY DEF TypeOK, Facts, NoFact
    <2>2. child' \in [Requests -> CommandState] /\ quantity' \in [Requests -> 0..MaxQuantity]
        BY <1>4, <2>1 DEF TypeOK, CommandState
    <2>3. released' \in [Requests -> BOOLEAN]
        BY <1>4 DEF TypeOK
    <2>4. turn' \in [op : {"idle", "claimed", "known", "recorded", "accepting", "placing", "placed"},
                     req : Requests \cup {NoRequest},
                     res : {"none", "accepted", "reconciled", "rejected", "unknown"},
                     fact : Facts]
        BY DEF TypeOK, Idle, Turn, Facts
    <2> QED
        BY <1>1, <1>3, <2>2, <2>3, <2>4 DEF TypeOK
  <1>7. FactsTrue'
    <2>1. turn'.fact = NoFact \/ turn'.fact = turn.fact
        BY DEF Idle, Turn, TypeOK
    <2> QED
        BY <1>3, <2>1 DEF FactsTrue, Final
  <1>8. RowsAgree'
    <2> SUFFICES ASSUME NEW q \in Requests
                 PROVE  /\ parent'[q] = "absent" => child'[q] = "absent"
                        /\ parent'[q] \in Nonterminal => child'[q] = "pending"
                        /\ parent'[q] \in {"rejected", "cancelled"} => child'[q] = "cancelled"
                        /\ parent'[q] = "reconciled" => released'[q] \/ child'[q] = "cancelled"
                        /\ released'[q] => /\ parent'[q] = "reconciled"
                                           /\ remaining'[q] > 0
                                           /\ quantity'[q] = remaining'[q]
        BY DEF RowsAgree
    <2>1. CASE q = r
        BY <1>2, <1>3, <1>4, <2>1 DEF TypeOK, Nonterminal, Unresolved, Terminal
    <2>2. CASE q # r
      <3>1. /\ parent'[q] = parent[q] /\ child'[q] = child[q] /\ released'[q] = released[q]
            /\ quantity'[q] = quantity[q] /\ remaining'[q] = remaining[q]
          BY <1>3, <1>4, <2>2 DEF TypeOK
      <3> QED
          BY <3>1 DEF RowsAgree
    <2> QED
        BY <2>1, <2>2
  <1>9. OneCarried'
    <2>1. \A q \in Requests : parent'[q] \in Nonterminal \cup {"reconciled"}
                                => parent[q] \in Nonterminal \cup {"reconciled"}
        BY <1>1, <1>3 DEF TypeOK, Nonterminal
    <2> QED
        BY <2>1 DEF OneCarried
  <1>10. SentAsReleased'
    <2> SUFFICES ASSUME NEW q \in Requests, sent[q] # 0
                 PROVE  sent'[q] = quantity'[q] /\ released'[q] /\ child'[q] # "pending"
        BY <1>3 DEF SentAsReleased
    <2>1. q # r
        BY <1>2
    <2>2. quantity'[q] = quantity[q] /\ released'[q] = released[q] /\ child'[q] = child[q]
        BY <1>4, <2>1 DEF TypeOK
    <2> QED
        BY <1>3, <2>2 DEF SentAsReleased
  <1>11. TurnSound'
    <2>1. turn'.op = "accepting" => turn'.req \in Requests
        BY DEF Idle, Turn, TurnSound, TypeOK
    <2> QED
        BY <1>5, <2>1 DEF TurnSound
  <1> QED
      BY <1>6, <1>7, <1>8, <1>9, <1>10, <1>11

(* The steps that only move the turn: they read the original, or forget.   *)
LEMMA TurnStep ==
    ASSUME ReplaceInv,
           UNCHANGED << rowVars, original, projected, sent >>,
           turn' \in [op : {"idle", "known"}, req : Requests \cup {NoRequest},
                      res : {"none", "accepted", "reconciled", "rejected", "unknown"},
                      fact : Facts],
           turn'.op = "known" => turn'.req \in Requests /\ turn'.res # "none",
           turn'.fact # NoFact => Final(turn'.fact)
    PROVE  ReplaceInv'
  <1> USE DEF ReplaceInv, rowVars
  <1>1. TypeOK'
      BY DEF TypeOK
  <1>2. FactsTrue'
      BY DEF FactsTrue, Final
  <1>3. RowsAgree' /\ OneCarried' /\ SentAsReleased'
      BY DEF RowsAgree, OneCarried, SentAsReleased
  <1>4. TurnSound'
      BY DEF TurnSound
  <1> QED
      BY <1>1, <1>2, <1>3, <1>4

(* What a signed read says of an order that has ended stays true.          *)
LEMMA LearnStep ==
    ASSUME ReplaceInv, NEW r \in Requests, NEW res \in {"accepted", "reconciled", "rejected", "unknown"},
           Learn(r, res), UNCHANGED << rowVars, original, projected, sent >>
    PROVE  ReplaceInv'
  <1> USE ReplaceAssumption
  <1>1. SignedFact(r) \in Facts /\ (SignedFact(r) # NoFact => Final(SignedFact(r)))
      BY DEF SignedFact, Final, Facts, NoFact, ReplaceInv, TypeOK, FactsTrue, Orders
  <1>2. turn' = [op |-> "known", req |-> r, res |-> res, fact |-> turn'.fact]
      BY DEF Learn, Turn
  <1>3. turn'.fact \in Facts /\ (turn'.fact # NoFact => Final(turn'.fact))
      BY <1>1 DEF Learn, Turn, Facts
  <1>4. turn' \in [op : {"idle", "known"}, req : Requests \cup {NoRequest},
                   res : {"none", "accepted", "reconciled", "rejected", "unknown"},
                   fact : Facts]
      BY <1>2, <1>3
  <1> QED
      BY <1>2, <1>3, <1>4, TurnStep

(* An aborted turn forgets what it knew.                                   *)
LEMMA AbortStep ==
    ASSUME ReplaceInv, AbortTurn
    PROVE  ReplaceInv'
  <1>1. Idle \in [op : {"idle", "known"}, req : Requests \cup {NoRequest},
                  res : {"none", "accepted", "reconciled", "rejected", "unknown"},
                  fact : Facts]
      BY DEF Idle, Turn, Facts
  <1>2. Idle.op = "idle" /\ Idle.fact = NoFact
      BY DEF Idle, Turn
  <1> QED
      BY <1>1, <1>2, TurnStep DEF AbortTurn

(* The claim of the cancel.                                                *)
LEMMA ClaimParentStep ==
    ASSUME ReplaceInv, NEW r \in Requests, ClaimParent(r)
    PROVE  ReplaceInv'
  <1> USE DEF ReplaceInv, ClaimParent
  <1>1. turn' = [op |-> "claimed", req |-> r, res |-> "none", fact |-> NoFact]
      BY DEF Turn
  <1>2. TypeOK'
      BY <1>1 DEF TypeOK, CommandState, Facts
  <1>3. FactsTrue'
      BY <1>1 DEF FactsTrue, Final
  <1>4. RowsAgree'
      BY DEF RowsAgree, TypeOK, Nonterminal, Unresolved
  <1>5. OneCarried'
    <2>1. \A q \in Requests : parent'[q] \in Nonterminal \cup {"reconciled"}
                                => parent[q] \in Nonterminal \cup {"reconciled"}
        BY DEF TypeOK, Nonterminal
    <2> QED
        BY <2>1 DEF OneCarried
  <1>6. SentAsReleased' /\ TurnSound'
      BY <1>1 DEF SentAsReleased, TurnSound
  <1> QED
      BY <1>2, <1>3, <1>4, <1>5, <1>6

(* The fact is written down.                                               *)
LEMMA RecordFactStep ==
    ASSUME ReplaceInv, RecordFact
    PROVE  ReplaceInv'
  <1> USE DEF ReplaceInv, RecordFact
  <1>1. turn.req \in Requests
      BY DEF TurnSound
  <1>2. \A r \in Requests : remaining'[r] # remaining[r]
                              => r = turn.req /\ ~released[r] /\ remaining'[r] = turn.fact
      BY <1>1 DEF TypeOK
  <1>3. turn' = [op |-> "recorded", req |-> turn.req, res |-> turn.res, fact |-> turn.fact]
      BY DEF TypeOK
  <1>4. TypeOK'
    <2>1. remaining' \in [Requests -> Facts]
        BY DEF TypeOK
    <2> QED
        BY <1>3, <2>1 DEF TypeOK
  <1>5. FactsTrue'
      BY <1>2, <1>3 DEF FactsTrue, Final
  <1>6. RowsAgree'
      BY <1>2 DEF RowsAgree
  <1>7. OneCarried' /\ SentAsReleased'
      BY DEF OneCarried, SentAsReleased
  <1>8. TurnSound'
      BY <1>3 DEF TurnSound
  <1> QED
      BY <1>4, <1>5, <1>6, <1>7, <1>8

(* The claim of the child, whose parent has released it.                   *)
LEMMA ClaimChildStep ==
    ASSUME ReplaceInv, NEW r \in Requests, ClaimChild(r)
    PROVE  ReplaceInv'
  <1> USE DEF ReplaceInv, ClaimChild
  <1>1. turn' = [op |-> "placing", req |-> r, res |-> "none", fact |-> NoFact]
      BY DEF Turn
  <1>2. TypeOK'
      BY <1>1 DEF TypeOK, CommandState, Facts
  <1>3. FactsTrue'
      BY <1>1 DEF FactsTrue, Final
  <1>4. RowsAgree' /\ OneCarried'
      BY DEF RowsAgree, OneCarried, TypeOK, Nonterminal, Unresolved
  <1>5. SentAsReleased'
      BY DEF SentAsReleased, TypeOK
  <1>6. TurnSound'
    <2>1. sent[r] = 0 /\ child'[r] = "sending"
        BY DEF SentAsReleased, TypeOK
    <2> QED
        BY <1>1, <2>1 DEF TurnSound
  <1> QED
      BY <1>2, <1>3, <1>4, <1>5, <1>6

(* The submit: once, for the released quantity.                            *)
LEMMA SendChildStep ==
    ASSUME ReplaceInv, SendChild
    PROVE  ReplaceInv'
  <1> USE ReplaceAssumption DEF ReplaceInv, SendChild, rowVars
  <1> DEFINE r == turn.req
  <1>1. r \in Requests /\ child[r] = "sending" /\ sent[r] = 0
      BY DEF TurnSound
  <1>2. released[r]
      BY <1>1 DEF RowsAgree, TypeOK, CommandState, Nonterminal, Unresolved
  <1>3. sent' = [sent EXCEPT ![r] = quantity[r]]
    <2>1. quantity[r] \in Nat /\ sent[r] + quantity[r] = quantity[r]
        BY <1>1 DEF TypeOK
    <2> QED
        BY <2>1
  <1>4. turn' = [op |-> "placed", req |-> r, res |-> turn.res, fact |-> turn.fact]
      BY DEF TypeOK
  <1> HIDE DEF r
  <1>5. TypeOK'
    <2>1. sent' \in [Requests -> 0..MaxQuantity]
        BY <1>1, <1>3 DEF TypeOK
    <2>2. r \in Requests \cup {NoRequest}
        BY <1>1
    <2> QED
        BY <1>4, <2>1, <2>2 DEF TypeOK
  <1>6. FactsTrue'
      BY <1>4 DEF FactsTrue, Final
  <1>7. RowsAgree' /\ OneCarried'
      BY DEF RowsAgree, OneCarried
  <1>8. SentAsReleased'
      BY <1>1, <1>2, <1>3 DEF SentAsReleased, TypeOK
  <1>9. TurnSound'
      BY <1>1, <1>4 DEF TurnSound
  <1> QED
      BY <1>5, <1>6, <1>7, <1>8, <1>9

(* Whatever becomes of the child, its parent was carried out.              *)
LEMMA SettleChildStep ==
    ASSUME ReplaceInv, NEW r \in Requests, NEW next \in CommandState, SettleChild(r, next)
    PROVE  ReplaceInv'
  <1> USE DEF ReplaceInv, SettleChild
  <1>1. released[r] /\ parent[r] = "reconciled"
    <2>1. parent[r] = "reconciled"
        BY DEF RowsAgree, TypeOK, CommandState, Nonterminal, Unresolved
    <2> QED
        BY <2>1 DEF RowsAgree, Unresolved
  <1>2. next # "pending"
      BY DEF SettleFrom, Unresolved
  <1>3. turn' = [op |-> "idle", req |-> NoRequest, res |-> "none", fact |-> NoFact]
      BY DEF Idle, Turn
  <1>4. TypeOK'
      BY <1>3 DEF TypeOK, Facts
  <1>5. FactsTrue'
      BY <1>3 DEF FactsTrue, Final
  <1>6. RowsAgree'
      BY <1>1 DEF RowsAgree, TypeOK, Nonterminal, Unresolved
  <1>7. OneCarried'
      BY DEF OneCarried
  <1>8. SentAsReleased'
      BY <1>1, <1>2 DEF SentAsReleased, TypeOK
  <1>9. TurnSound'
      BY <1>3 DEF TurnSound
  <1> QED
      BY <1>4, <1>5, <1>6, <1>7, <1>8, <1>9

(* An order that moves is open, and then no fact about it is final yet.    *)
LEMMA WorldStep ==
    ASSUME ReplaceInv, UNCHANGED << rowVars, turn, sent >>,
           OriginalFills \/ OriginalEnds \/ OriginalAmended \/ ProjectionRefreshed
    PROVE  ReplaceInv'
  <1> USE ReplaceAssumption DEF ReplaceInv, rowVars
  <1>1. original' \in Orders /\ original'.filled <= original'.qty
    <2>1. CASE OriginalFills
      <3>1. PICK n \in (original.filled + 1)..original.qty :
                original' = [original EXCEPT !.filled = n, !.open = (n < original.qty)]
          BY <2>1 DEF OriginalFills
      <3>2. (n < original.qty) \in BOOLEAN
          OBVIOUS
      <3>3. n \in 0..MaxQuantity
          BY DEF TypeOK, Orders
      <3>4. original' = [open |-> (n < original.qty), qty |-> original.qty, filled |-> n]
          BY <3>1 DEF TypeOK, Orders
      <3> QED
          BY <3>2, <3>3, <3>4 DEF TypeOK, Orders
    <2>2. CASE OriginalEnds
        BY <2>2 DEF OriginalEnds, TypeOK, Orders, FactsTrue
    <2>3. CASE OriginalAmended
        BY <2>3 DEF OriginalAmended, TypeOK, Orders
    <2>4. CASE ProjectionRefreshed
        BY <2>4 DEF ProjectionRefreshed, TypeOK, FactsTrue
    <2> QED
        BY <2>1, <2>2, <2>3, <2>4
  <1>2. projected' \in Orders
      BY DEF OriginalFills, OriginalEnds, OriginalAmended, ProjectionRefreshed, TypeOK
  <1>3. TypeOK'
      BY <1>1, <1>2 DEF TypeOK
  <1>4. original.open \/ original' = original
      BY DEF OriginalFills, OriginalEnds, OriginalAmended, ProjectionRefreshed
  <1>5. FactsTrue'
      BY <1>1, <1>4 DEF FactsTrue, Final
  <1>6. RowsAgree' /\ OneCarried' /\ SentAsReleased' /\ TurnSound'
      BY DEF RowsAgree, OneCarried, SentAsReleased, TurnSound
  <1> QED
      BY <1>3, <1>5, <1>6

(* The settlement actions of the parent, with the state each of them asks. *)
LEMMA SettleStep ==
    ASSUME ReplaceInv, Settle \/ Complete \/ RejectUnsent
    PROVE  ReplaceInv'
  <1>1. turn.req \in Requests
      BY DEF ReplaceInv, TurnSound, Settle, Complete, RejectUnsent
  <1>2. CASE RejectUnsent
      BY <1>1, <1>2, SettleParentStep DEF RejectUnsent
  <1>3. CASE Complete
      BY <1>1, <1>3, SettleParentStep DEF Complete
  <1>4. CASE Settle
    <2> DEFINE next == ParentNext(parent[turn.req], turn.res)
    <2>1. SettleParent(turn.req, next)
        BY <1>4 DEF Settle
    <2>2. turn.res \in {"accepted", "reconciled", "rejected", "unknown"}
        BY <1>4 DEF Settle, ReplaceInv, TurnSound, TypeOK
    <2>3. next \in {"accepted", "rejected", "reconcile_required", "reconciled"}
                   \cup {parent[turn.req]}
        BY <2>2 DEF ParentNext
    <2>4. parent[turn.req] \in CommandState
        BY <1>1 DEF ReplaceInv, TypeOK
    <2> HIDE DEF next
    <2>5. next \in {"accepted", "rejected", "reconcile_required", "reconciled"}
        BY <2>1, <2>3, <2>4 DEF SettleParent, SettleFrom, DeferTo, CommandState
    <2>6. turn' = Idle \/ (turn.op = "recorded" /\ turn' = [turn EXCEPT !.op = "accepting"])
        BY <1>4 DEF Settle
    <2> QED
        BY <1>1, <2>1, <2>5, <2>6, SettleParentStep
  <1> QED
      BY <1>2, <1>3, <1>4

(* A submit of the cancel and a readback both learn from a signed read.    *)
LEMMA ReadStep ==
    ASSUME ReplaceInv, SubmitParent \/ \E r \in Requests : ReadParent(r)
    PROVE  ReplaceInv'
  <1>1. SignedState \in {"accepted", "reconciled"}
      BY DEF SignedState
  <1>2. CASE SubmitParent
    <2>1. turn.req \in Requests
        BY <1>2 DEF SubmitParent, ReplaceInv, TurnSound
    <2> QED
        BY <1>1, <1>2, <2>1, LearnStep DEF SubmitParent
  <1>3. ASSUME NEW r \in Requests, ReadParent(r) PROVE ReplaceInv'
      BY <1>1, <1>3, LearnStep DEF ReadParent
  <1> QED
      BY <1>2, <1>3

(* ReplaceInv is an inductive invariant of the replacement.                *)
THEOREM ReplaceInvariant == Spec => []ReplaceInv
  <1>1. ReplaceInv /\ [Next]_vars => ReplaceInv'
    <2> SUFFICES ASSUME ReplaceInv, [Next]_vars PROVE ReplaceInv'
        OBVIOUS
    <2>1. ASSUME NEW r \in Requests, Replace(r) PROVE ReplaceInv'
        BY <2>1, ReplaceStep
    <2>2. ASSUME NEW r \in Requests, ClaimParent(r) PROVE ReplaceInv'
        BY <2>2, ClaimParentStep
    <2>3. ASSUME NEW r \in Requests, ReadParent(r) PROVE ReplaceInv'
        BY <2>3, ReadStep
    <2>4. ASSUME NEW r \in Requests, RecoverParent(r) PROVE ReplaceInv'
        BY <2>4, SettleParentStep DEF RecoverParent
    <2>5. ASSUME NEW r \in Requests, ClaimChild(r) PROVE ReplaceInv'
        BY <2>5, ClaimChildStep
    <2>6. ASSUME NEW r \in Requests, NEW next \in CommandState, SettleChild(r, next)
          PROVE  ReplaceInv'
        BY <2>6, SettleChildStep
    <2>7. CASE RejectUnsent \/ Settle \/ Complete
        BY <2>7, SettleStep
    <2>8. CASE SubmitParent
        BY <2>8, ReadStep
    <2>9. CASE RecordFact
        BY <2>9, RecordFactStep
    <2>10. CASE SendChild
        BY <2>10, SendChildStep
    <2>11. CASE AbortTurn
        BY <2>11, AbortStep
    <2>12. CASE OriginalFills \/ OriginalEnds \/ OriginalAmended \/ ProjectionRefreshed
      <3>1. UNCHANGED << rowVars, turn, sent >>
          BY <2>12 DEF OriginalFills, OriginalEnds, OriginalAmended, ProjectionRefreshed
      <3> QED
          BY <2>12, <3>1, WorldStep
    <2>13. CASE UNCHANGED vars
      <3> USE <2>13 DEF vars, rowVars, ReplaceInv
      <3>1. TypeOK' /\ FactsTrue'
          BY DEF TypeOK, FactsTrue, Final
      <3>2. RowsAgree' /\ OneCarried' /\ SentAsReleased' /\ TurnSound'
          BY DEF RowsAgree, OneCarried, SentAsReleased, TurnSound
      <3> QED
          BY <3>1, <3>2
    <2> QED
        BY <2>1, <2>2, <2>3, <2>4, <2>5, <2>6, <2>7, <2>8, <2>9, <2>10, <2>11, <2>12, <2>13 DEF Next
  <1> QED
      BY ReplaceInit, <1>1, PTL DEF Spec

(* The types of the rows, of the turn and of the original.                 *)
THEOREM ReplaceTypeCorrect == Spec => []TypeOK
  <1>1. ReplaceInv => TypeOK
      BY DEF ReplaceInv
  <1> QED
      BY ReplaceInvariant, <1>1, PTL

(* The replacement never adds exposure (settle_replace_child releases only *)
(* what the final fact of an ended original leaves, of one request only).  *)
THEOREM ReplaceNoOverExposure == Spec => []NoOverExposure
  <1>1. ReplaceInv => NoOverExposure
    <2> SUFFICES ASSUME ReplaceInv, NEW r \in Requests, sent[r] > 0
                 PROVE  /\ ~original.open
                        /\ original.filled + sent[r] <= original.qty
                        /\ \A q \in Requests : sent[q] > 0 => q = r
        BY DEF NoOverExposure
    <2> USE DEF ReplaceInv
    <2>1. \A q \in Requests : sent[q] > 0 => parent[q] = "reconciled"
        BY DEF SentAsReleased, RowsAgree, TypeOK
    <2>2. sent[r] = remaining[r] /\ remaining[r] # NoFact
        BY DEF SentAsReleased, RowsAgree, TypeOK, NoFact
    <2>3. Final(sent[r])
        BY <2>2 DEF FactsTrue
    <2>4. original.filled + sent[r] <= original.qty
        BY <2>3 DEF Final, TypeOK, Orders
    <2>5. \A q \in Requests : sent[q] > 0 => q = r
        BY <2>1 DEF OneCarried
    <2> QED
        BY <2>3, <2>4, <2>5 DEF Final
  <1> QED
      BY ReplaceInvariant, <1>1, PTL

(* No crash between the transactions leaves a child behind a parent that   *)
(* is settled.                                                             *)
THEOREM ReplaceNoOrphanChild == Spec => []NoOrphanChild
  <1>1. ReplaceInv => NoOrphanChild
      BY DEF ReplaceInv, NoOrphanChild, RowsAgree, TypeOK, CommandState, Nonterminal, Unresolved
  <1> QED
      BY ReplaceInvariant, <1>1, PTL

=============================================================================
