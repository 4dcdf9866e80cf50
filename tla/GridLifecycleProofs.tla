------------------------- MODULE GridLifecycleProofs -------------------------
(***************************************************************************)
(* LifecycleInv is an inductive invariant of the Grid's lifecycle, for any *)
(* orders, config revisions and requests.  A turn judges by a projection   *)
(* from before, by rows read one after the other and by the age of stamps; *)
(* the argument is that an order missing from the projection can rest now  *)
(* only if a command was written since, which the comparison of stamps     *)
(* excludes.                                                               *)
(***************************************************************************)
EXTENDS GridLifecycle, TLAPS

USE DEF States, Winding, Unsettled

(* Stamps of different rows are different.                                 *)
LEMMA StampsDiffer ==
  /\ OfInstance # OfCommands /\ OfTurn # OfCommands /\ OfTurn # OfInstance
  /\ \A o : OfOwner(o) # OfCommands /\ OfOwner(o) # OfInstance /\ OfOwner(o) # OfTurn
  /\ \A o, p : OfOwner(o) = OfOwner(p) => o = p
BY DEF OfInstance, OfCommands, OfTurn, OfOwner

(* The stamps are what a projection may hold.                              *)
LEMMA StampsAre ==
  /\ {OfInstance, OfCommands, OfTurn} \subseteq Stamps
  /\ \A o \in Orders : OfOwner(o) \in Stamps
BY DEF Stamps

(* Stamping with the present keeps what a projection counts as late.       *)
LEMMA StampGrows ==
  ASSUME TypeOK, NEW E \in SUBSET Stamps, Stamp(E)
  PROVE  /\ proj' = [open |-> proj.open, late |-> proj.late \cup E]
         /\ snap.step = "idle" => snap' = snap
         /\ snap.step = "taken" =>
              snap' = [step |-> "taken", open |-> snap.open, late |-> snap.late \cup E]
         /\ proj' \in [open : SUBSET Orders, late : SUBSET Stamps]
         /\ snap' \in [step : {"idle", "taken"}, open : SUBSET Orders, late : SUBSET Stamps]
BY DEF TypeOK, Stamp, StampSnap

(* Stamping with the turn's time never forgets a command, and forgets only *)
(* rows that it stamps.                                                    *)
LEMMA StampAsTurnKeeps ==
  ASSUME TypeOK, NEW E \in SUBSET Stamps, StampAsTurn(E)
  PROVE  \E P, S \in SUBSET Stamps :
           /\ proj' = [open |-> proj.open, late |-> P]
           /\ snap.step = "idle" => snap' = snap
           /\ snap.step = "taken" => snap' = [step |-> "taken", open |-> snap.open, late |-> S]
           /\ proj' \in [open : SUBSET Orders, late : SUBSET Stamps]
           /\ snap' \in [step : {"idle", "taken"}, open : SUBSET Orders, late : SUBSET Stamps]
           /\ OfCommands \in proj.late => OfCommands \in P
           /\ OfCommands \in snap.late => OfCommands \in S
           /\ \A o \in Orders : OfOwner(o) \notin E =>
                /\ OfOwner(o) \in proj.late => OfOwner(o) \in P
                /\ OfOwner(o) \in snap.late => OfOwner(o) \in S
<1> DEFINE P == As(proj.late, E)  S == As(snap.late, E)
<1>1. P \in SUBSET Stamps /\ S \in SUBSET Stamps
  BY DEF TypeOK, As
<1>2. /\ OfCommands \in proj.late => OfCommands \in P
      /\ OfCommands \in snap.late => OfCommands \in S
      /\ \A o \in Orders : OfOwner(o) \notin E =>
           /\ OfOwner(o) \in proj.late => OfOwner(o) \in P
           /\ OfOwner(o) \in snap.late => OfOwner(o) \in S
  BY DEF As
<1>3. proj' = [proj EXCEPT !.late = P]
      /\ snap' = IF snap.step = "idle" THEN snap ELSE [snap EXCEPT !.late = S]
  BY DEF StampAsTurn
<1> HIDE DEF P, S
<1>4. /\ proj' = [open |-> proj.open, late |-> P]
      /\ snap.step = "idle" => snap' = snap
      /\ snap.step = "taken" => snap' = [step |-> "taken", open |-> snap.open, late |-> S]
  BY <1>3 DEF TypeOK
<1>5. /\ proj' \in [open : SUBSET Orders, late : SUBSET Stamps]
      /\ snap' \in [step : {"idle", "taken"}, open : SUBSET Orders, late : SUBSET Stamps]
  BY <1>1, <1>4 DEF TypeOK
<1> QED
  BY <1>1, <1>2, <1>4, <1>5

TurnType ==
  [step : {"idle", "loaded", "synced", "judged"}, state : States, config : Configs,
   expired : BOOLEAN, stale : BOOLEAN, open : SUBSET Orders,
   late : SUBSET {OfInstance, OfCommands}, converged : BOOLEAN]

(* A turn that is overtaken keeps its place and its view.                  *)
LEMMA OvertakeKeeps ==
  ASSUME TypeOK, NEW E \in SUBSET Stamps, Overtake(E)
  PROVE  /\ turn' \in TurnType
         /\ turn'.step = turn.step /\ turn'.state = turn.state
         /\ turn'.open = turn.open /\ turn'.converged = turn.converged
         /\ turn.step # "idle" => (turn'.stale <=> turn.stale \/ OfInstance \in E)
         /\ turn.step \in {"synced", "judged"} =>
              (OfCommands \in turn'.late <=> OfCommands \in turn.late \/ OfCommands \in E)
<1>1. turn \in TurnType
  BY DEF TypeOK, TurnType
<1> DEFINE late == IF turn.step = "loaded" THEN turn.late
                   ELSE turn.late \cup (E \cap {OfInstance, OfCommands})
           stale == turn.stale \/ OfInstance \in E
<1>2. late \in SUBSET {OfInstance, OfCommands} /\ stale \in BOOLEAN
  BY <1>1 DEF TurnType
<1>3. turn' = IF turn.step = "idle" THEN turn ELSE [turn EXCEPT !.stale = stale, !.late = late]
  BY DEF Overtake
<1>4. OfCommands \in late <=> OfCommands \in turn.late \/ (turn.step # "loaded" /\ OfCommands \in E)
  OBVIOUS
<1> HIDE DEF late
<1>5. CASE turn.step = "idle"
  BY <1>1, <1>3, <1>5
<1>6. CASE turn.step # "idle"
  <2>1. turn' = [turn EXCEPT !.stale = stale, !.late = late]
    BY <1>3, <1>6
  <2>2. turn' \in TurnType
    BY <1>1, <1>2, <2>1 DEF TurnType
  <2>3. /\ turn'.step = turn.step /\ turn'.state = turn.state
        /\ turn'.open = turn.open /\ turn'.converged = turn.converged
        /\ turn'.late = late
    BY <1>1, <2>1 DEF TurnType
  <2>4. turn'.stale <=> turn.stale \/ OfInstance \in E
    BY <1>1, <2>1 DEF TurnType
  <2> QED
    BY <1>4, <1>6, <2>2, <2>3, <2>4
<1> QED
  BY <1>5, <1>6

-----------------------------------------------------------------------------
(* Nothing is under way; the projection is complete.                       *)
LEMMA LifecycleInit == Init => LifecycleInv
<1> SUFFICES ASSUME Init PROVE LifecycleInv
  OBVIOUS
<1> USE LifecycleAssumption
<1>1. 1 \in Configs
  BY DEF Configs
<1>2. turn \in TurnType
  BY <1>1 DEF Init, NoTurn, TurnType
<1>3. TypeOK
  <2>1. /\ place \in [Orders -> {"absent", "pending", "sending", "reconciled", "rejected", "cancelled"}]
        /\ cancel \in [Cancels -> {"absent", "pending", "sending", "reconciled", "rejected"}]
        /\ owner \in [Orders -> {"none", "unbound", "bound", "terminal"}]
        /\ order \in [Orders -> {"none", "live", "gone"}]
    BY DEF Init
  <2>2. /\ proj \in [open : SUBSET Orders, late : SUBSET Stamps]
        /\ snap \in [step : {"idle", "taken"}, open : SUBSET Orders, late : SUBSET Stamps]
    BY DEF Init, NoSnap
  <2>3. moves \in 0..MaxMoves /\ config \in Configs
    BY <1>1 DEF Init
  <2> QED
    BY <1>2, <2>1, <2>2, <2>3 DEF Init, TypeOK, TurnType
<1>4. RowsSound
  BY DEF Init, RowsSound
<1>5. ProjectionsSound
  BY DEF Init, ProjectionsSound, Sees, NoSnap
<1>6. TurnSound
  BY DEF Init, TurnSound, NoTurn
<1>7. StoppedIsFlat
  BY DEF Init, StoppedIsFlat
<1> QED
  BY <1>3, <1>4, <1>5, <1>6, <1>7 DEF LifecycleInv

-----------------------------------------------------------------------------
(* Time, the projection, the exchange.                                     *)

(* The time of a lifecycle runs out.                                       *)
LEMMA ExpireStep ==
  ASSUME LifecycleInv, Expire
  PROVE  LifecycleInv'
<1> USE DEF LifecycleInv, Expire, projections, commands
<1>1. TypeOK'
  BY DEF TypeOK
<1>2. (RowsSound /\ ProjectionsSound)'
  BY DEF RowsSound, ProjectionsSound, Sees
<1>3. (TurnSound /\ StoppedIsFlat)'
  BY DEF TurnSound, StoppedIsFlat, Flat, Open
<1> QED
  BY <1>1, <1>2, <1>3

(* A snapshot sees the orders that rest now; those of the projection that  *)
(* it lacks have ended.                                                    *)
LEMMA SnapshotTakeStep ==
  ASSUME LifecycleInv, SnapshotTake
  PROVE  LifecycleInv'
<1> USE DEF LifecycleInv, SnapshotTake, row, commands
<1>1. snap' = [step |-> "taken", open |-> Open, late |-> {}] /\ Open \subseteq Orders
  BY DEF Open
<1>2. TypeOK'
  BY <1>1 DEF TypeOK
<1>3. (RowsSound /\ StoppedIsFlat)'
  BY DEF RowsSound, StoppedIsFlat, Flat, Open
<1>4. ProjectionsSound'
  <2>1. Sees(proj.open, proj.late)'
    BY DEF ProjectionsSound, Sees
  <2>2. Sees(snap.open, snap.late)'
    BY <1>1 DEF Sees, Open, RowsSound, TypeOK
  <2>3. (\A o \in proj.open \ snap.open : order[o] = "gone")'
    BY <1>1 DEF ProjectionsSound, Sees, Open, TypeOK
  <2> QED
    BY <2>1, <2>2, <2>3 DEF ProjectionsSound
<1>5. TurnSound'
  BY DEF TurnSound, Open
<1> QED
  BY <1>2, <1>3, <1>4, <1>5

(* The snapshot becomes the projection.                                    *)
LEMMA SnapshotPublishStep ==
  ASSUME LifecycleInv, SnapshotPublish
  PROVE  LifecycleInv'
<1> USE DEF LifecycleInv, SnapshotPublish, row, commands
<1>1. proj' = [open |-> snap.open, late |-> snap.late] /\ snap' = NoSnap
  OBVIOUS
<1>2. TypeOK'
  BY <1>1 DEF TypeOK, NoSnap
<1>3. (RowsSound /\ StoppedIsFlat)'
  BY DEF RowsSound, StoppedIsFlat, Flat, Open
<1>4. ProjectionsSound'
  BY <1>1 DEF ProjectionsSound, Sees, NoSnap
<1>5. TurnSound'
  BY DEF TurnSound, Open
<1> QED
  BY <1>2, <1>3, <1>4, <1>5

(* The exchange takes an order whose placement is being sent.              *)
LEMMA AcceptStep ==
  ASSUME LifecycleInv, NEW p \in Orders, Accept(p)
  PROVE  LifecycleInv'
<1> USE DEF LifecycleInv, Accept, row, commands, projections
<1>1. order'[p] = "live" /\ \A o \in Orders : o # p => order'[o] = order[o]
  BY DEF TypeOK
<1>2. TypeOK'
  BY DEF TypeOK
<1>3. RowsSound'
  BY <1>1 DEF RowsSound
<1>4. ProjectionsSound'
  BY <1>1 DEF ProjectionsSound, Sees, RowsSound, TypeOK
<1>5. TurnSound'
  BY <1>1 DEF TurnSound, Open
<1>6. StoppedIsFlat'
  BY <1>1 DEF StoppedIsFlat, Flat, Open
<1> QED
  BY <1>2, <1>3, <1>4, <1>5, <1>6

(* An order ends.                                                          *)
LEMMA EndStep ==
  ASSUME LifecycleInv, NEW p \in Orders, End(p)
  PROVE  LifecycleInv'
<1> USE DEF LifecycleInv, End, row, commands, projections
<1>1. order'[p] = "gone" /\ \A o \in Orders : o # p => order'[o] = order[o]
  BY DEF TypeOK
<1>2. TypeOK'
  BY DEF TypeOK
<1>3. RowsSound'
  BY <1>1 DEF RowsSound
<1>4. ProjectionsSound'
  BY <1>1 DEF ProjectionsSound, Sees, TypeOK
<1>5. TurnSound'
  BY <1>1 DEF TurnSound, Open
<1>6. StoppedIsFlat'
  BY <1>1 DEF StoppedIsFlat, Flat, Open
<1> QED
  BY <1>2, <1>3, <1>4, <1>5, <1>6

-----------------------------------------------------------------------------
(* Writers beside the turn.  What they do to the projections and the turn: *)

(* Rows that are written keep what the projections tell, if what they make *)
(* bound is stamped, if a placement that leaves sending is, and if nothing *)
(* comes to rest.                                                          *)
LEMMA WriteKeeps ==
  ASSUME LifecycleInv, NEW E \in SUBSET Stamps, Write(E), order' = order,
         \A o \in Orders :
            /\ owner'[o] = "bound" /\ owner[o] # "bound" => OfOwner(o) \in E
            /\ place[o] = "sending" /\ place'[o] # "sending" => OfCommands \in E,
         instance' # instance => OfInstance \in E
  PROVE  /\ ProjectionsSound' /\ TurnSound'
         /\ proj' \in [open : SUBSET Orders, late : SUBSET Stamps]
         /\ snap' \in [step : {"idle", "taken"}, open : SUBSET Orders, late : SUBSET Stamps]
         /\ turn' \in TurnType
<1> USE DEF LifecycleInv
<1>1. /\ proj' = [open |-> proj.open, late |-> proj.late \cup E]
      /\ snap.step = "idle" => snap' = snap
      /\ snap.step = "taken" =>
           snap' = [step |-> "taken", open |-> snap.open, late |-> snap.late \cup E]
      /\ proj' \in [open : SUBSET Orders, late : SUBSET Stamps]
      /\ snap' \in [step : {"idle", "taken"}, open : SUBSET Orders, late : SUBSET Stamps]
  BY StampGrows DEF Write
<1>2. /\ turn' \in TurnType
      /\ turn'.step = turn.step /\ turn'.state = turn.state
      /\ turn'.open = turn.open /\ turn'.converged = turn.converged
      /\ turn.step # "idle" => (turn'.stale <=> turn.stale \/ OfInstance \in E)
      /\ turn.step \in {"synced", "judged"} =>
           (OfCommands \in turn'.late <=> OfCommands \in turn.late \/ OfCommands \in E)
  BY OvertakeKeeps DEF Write
<1>3. Sees(proj.open, proj.late)'
  BY <1>1 DEF ProjectionsSound, Sees
<1>4. CASE snap.step = "idle"
  BY <1>1, <1>2, <1>3, <1>4 DEF ProjectionsSound, TurnSound, Open
<1>5. CASE snap.step = "taken"
  <2>1. Sees(snap.open, snap.late)'
    BY <1>1, <1>5 DEF ProjectionsSound, Sees
  <2>2. (\A o \in proj.open \ snap.open : order[o] = "gone")'
    BY <1>1, <1>5 DEF ProjectionsSound
  <2> QED
    BY <1>1, <1>2, <1>3, <2>1, <2>2 DEF ProjectionsSound, TurnSound, Open
<1> QED
  BY <1>4, <1>5 DEF TypeOK

(* A placement is claimed.                                                 *)
LEMMA ClaimPlaceStep ==
  ASSUME LifecycleInv, NEW p \in Orders, ClaimPlace(p)
  PROVE  LifecycleInv'
<1> USE DEF LifecycleInv, ClaimPlace, row
<1>1. place'[p] = "sending" /\ \A o \in Orders : o # p => place'[o] = place[o]
  BY DEF TypeOK
<1>2. /\ ProjectionsSound' /\ TurnSound'
      /\ proj' \in [open : SUBSET Orders, late : SUBSET Stamps]
      /\ snap' \in [step : {"idle", "taken"}, open : SUBSET Orders, late : SUBSET Stamps]
      /\ turn' \in TurnType
  BY <1>1, StampsAre, WriteKeeps
<1>3. TypeOK'
  BY <1>2 DEF TypeOK, TurnType
<1>4. RowsSound'
  BY <1>1 DEF RowsSound
<1>5. StoppedIsFlat'
  BY <1>1 DEF StoppedIsFlat, Flat, Open
<1> QED
  BY <1>2, <1>3, <1>4, <1>5

(* A cancel is claimed.                                                    *)
LEMMA ClaimCancelStep ==
  ASSUME LifecycleInv, NEW p \in Orders, NEW k \in Configs, ClaimCancel(p, k)
  PROVE  LifecycleInv'
<1> USE DEF LifecycleInv, ClaimCancel, row
<1>1. cancel' \in [Cancels -> {"absent", "pending", "sending", "reconciled", "rejected"}]
  BY DEF TypeOK
<1>2. /\ ProjectionsSound' /\ TurnSound'
      /\ proj' \in [open : SUBSET Orders, late : SUBSET Stamps]
      /\ snap' \in [step : {"idle", "taken"}, open : SUBSET Orders, late : SUBSET Stamps]
      /\ turn' \in TurnType
  BY StampsAre, WriteKeeps
<1>3. TypeOK'
  BY <1>1, <1>2 DEF TypeOK, TurnType
<1>4. RowsSound' /\ StoppedIsFlat'
  BY DEF RowsSound, StoppedIsFlat, Flat, Open
<1> QED
  BY <1>2, <1>3, <1>4

(* The verdict on a placement, with its ownership.                         *)
LEMMA SettlePlaceStep ==
  ASSUME LifecycleInv, NEW p \in Orders, SettlePlace(p)
  PROVE  LifecycleInv'
<1> USE DEF LifecycleInv, SettlePlace, row
<1>1. /\ \A o \in Orders : o # p => place'[o] = place[o] /\ owner'[o] = owner[o]
      /\ place'[p] # "sending"
      /\ \/ /\ order[p] # "none" /\ place'[p] = "reconciled"
            /\ owner'[p] = IF owner[p] = "unbound" THEN "bound" ELSE owner[p]
         \/ /\ order[p] = "none" /\ place'[p] = "rejected"
            /\ owner'[p] = IF owner[p] = "unbound" THEN "terminal" ELSE owner[p]
  BY DEF TypeOK
<1>2. /\ ProjectionsSound' /\ TurnSound'
      /\ proj' \in [open : SUBSET Orders, late : SUBSET Stamps]
      /\ snap' \in [step : {"idle", "taken"}, open : SUBSET Orders, late : SUBSET Stamps]
      /\ turn' \in TurnType
  <2>1. {OfCommands, OfOwner(p)} \in SUBSET Stamps
    BY StampsAre
  <2> QED
    BY <1>1, <2>1, WriteKeeps
<1>3. TypeOK'
  <2>1. /\ place' \in [Orders -> {"absent", "pending", "sending", "reconciled", "rejected", "cancelled"}]
        /\ owner' \in [Orders -> {"none", "unbound", "bound", "terminal"}]
    BY DEF TypeOK
  <2> QED
    BY <1>2, <2>1 DEF TypeOK, TurnType
<1>4. RowsSound'
  BY <1>1 DEF RowsSound
<1>5. StoppedIsFlat'
  BY <1>1 DEF StoppedIsFlat, Flat, Open
<1> QED
  BY <1>2, <1>3, <1>4, <1>5

(* The verdict on a cancel: it closes the ownership of an order that ended. *)
LEMMA SettleCancelStep ==
  ASSUME LifecycleInv, NEW p \in Orders, NEW k \in Configs, SettleCancel(p, k)
  PROVE  LifecycleInv'
<1> USE DEF LifecycleInv, SettleCancel, row
<1>1. /\ owner' = owner \/ (order[p] = "gone" /\ owner' = [owner EXCEPT ![p] = "terminal"])
      /\ Write({OfCommands, OfOwner(p)}) \/ Write({OfCommands})
  OBVIOUS
<1>2. /\ \A o \in Orders : o # p => owner'[o] = owner[o]
      /\ owner'[p] = owner[p] \/ (order[p] = "gone" /\ owner'[p] = "terminal")
      /\ owner' \in [Orders -> {"none", "unbound", "bound", "terminal"}]
  BY <1>1 DEF TypeOK
<1>3. /\ ProjectionsSound' /\ TurnSound'
      /\ proj' \in [open : SUBSET Orders, late : SUBSET Stamps]
      /\ snap' \in [step : {"idle", "taken"}, open : SUBSET Orders, late : SUBSET Stamps]
      /\ turn' \in TurnType
  <2>1. {OfCommands, OfOwner(p)} \in SUBSET Stamps /\ {OfCommands} \in SUBSET Stamps
    BY StampsAre
  <2>2. \A o \in Orders : owner'[o] = "bound" => owner[o] = "bound"
    BY <1>2
  <2> QED
    BY <1>1, <2>1, <2>2, WriteKeeps
<1>4. TypeOK'
  <2>1. cancel' \in [Cancels -> {"absent", "pending", "sending", "reconciled", "rejected"}]
    BY DEF TypeOK
  <2> QED
    BY <1>2, <1>3, <2>1 DEF TypeOK, TurnType
<1>5. RowsSound' /\ StoppedIsFlat'
  BY <1>2 DEF RowsSound, StoppedIsFlat, Flat, Open
<1> QED
  BY <1>3, <1>4, <1>5

(* A plan is committed: new placements have not been at the exchange.      *)
LEMMA CommitPlanStep ==
  ASSUME LifecycleInv, NEW P \in SUBSET Orders, NEW C \in SUBSET Orders, CommitPlan(P, C)
  PROVE  LifecycleInv'
<1> USE DEF LifecycleInv, CommitPlan
<1> DEFINE E == {OfInstance, OfCommands} \cup { OfOwner(o) : o \in P }
<1>1. \A o \in Orders : /\ place'[o] = IF o \in P THEN "pending" ELSE place[o]
                        /\ owner'[o] = IF o \in P THEN "unbound" ELSE owner[o]
  OBVIOUS
<1>2. E \in SUBSET Stamps
  BY StampsAre
<1>3. \A o \in P : place[o] = "absent" /\ order[o] = "none"
  BY DEF RowsSound
<1>4. /\ ProjectionsSound' /\ TurnSound'
      /\ proj' \in [open : SUBSET Orders, late : SUBSET Stamps]
      /\ snap' \in [step : {"idle", "taken"}, open : SUBSET Orders, late : SUBSET Stamps]
      /\ turn' \in TurnType
  <2>1. OfCommands \in E /\ OfInstance \in E /\ Write(E)
    OBVIOUS
  <2> HIDE DEF E
  <2> QED
    BY <1>1, <1>2, <2>1, WriteKeeps
<1>5. TypeOK'
  <2>1. /\ place' \in [Orders -> {"absent", "pending", "sending", "reconciled", "rejected", "cancelled"}]
        /\ owner' \in [Orders -> {"none", "unbound", "bound", "terminal"}]
    BY <1>1 DEF TypeOK
  <2>2. cancel' \in [Cancels -> {"absent", "pending", "sending", "reconciled", "rejected"}]
    BY DEF TypeOK
  <2> QED
    BY <1>4, <2>1, <2>2 DEF TypeOK, TurnType
<1>6. RowsSound'
  BY <1>1, <1>3 DEF RowsSound
<1>7. StoppedIsFlat'
  BY DEF StoppedIsFlat
<1> QED
  BY <1>4, <1>5, <1>6, <1>7

(* Withdrawing what was never sent: nothing is made bound and nothing that *)
(* is being sent is touched.                                               *)
LEMMA FenceRiskFacts ==
  ASSUME LifecycleInv, FenceRisk, order' = order
  PROVE  /\ place' \in [Orders -> {"absent", "pending", "sending", "reconciled", "rejected", "cancelled"}]
         /\ owner' \in [Orders -> {"none", "unbound", "bound", "terminal"}]
         /\ RowsSound'
         /\ \A o \in Orders :
              /\ owner'[o] = "bound" => owner[o] = "bound" /\ OfOwner(o) \notin Fenced
              /\ place'[o] = "sending" <=> place[o] = "sending"
              /\ place'[o] \in Unsettled => place[o] \in Unsettled
         /\ Fenced \in SUBSET Stamps
<1> USE DEF LifecycleInv
<1>1. \A o \in Orders :
         /\ place'[o] = IF place[o] = "pending" THEN "cancelled" ELSE place[o]
         /\ owner'[o] = IF place[o] = "pending" /\ owner[o] = "unbound" THEN "terminal" ELSE owner[o]
  BY DEF FenceRisk
<1>2. /\ place' \in [Orders -> {"absent", "pending", "sending", "reconciled", "rejected", "cancelled"}]
      /\ owner' \in [Orders -> {"none", "unbound", "bound", "terminal"}]
  BY DEF FenceRisk, TypeOK
<1>3. RowsSound'
  BY <1>1 DEF RowsSound
<1>4. \A o \in Orders : OfOwner(o) \in Fenced => place[o] = "pending"
  BY StampsDiffer DEF Fenced
<1>5. \A o \in Orders : owner'[o] = "bound" => owner[o] = "bound" /\ OfOwner(o) \notin Fenced
  BY <1>1, <1>4 DEF RowsSound
<1>6. Fenced \in SUBSET Stamps
  BY StampsAre DEF Fenced
<1> QED
  BY <1>1, <1>2, <1>3, <1>5, <1>6

(* A request of the user: no request leads to stopped.                     *)
LEMMA RequestLifecycleStep ==
  ASSUME LifecycleInv, NEW a \in {"start", "resume", "pause", "stop", "reset"},
         RequestLifecycle(a)
  PROVE  LifecycleInv'
<1> USE LifecycleAssumption DEF LifecycleInv, RequestLifecycle
<1>1. instance' \in {"start_pending", "paused", "stop_pending", "reset_required"}
  BY DEF LifecycleNext
<1>2. order' = order /\ cancel' = cancel /\ moves' \in 0..MaxMoves /\ config' \in Configs
  BY DEF TypeOK, Configs
<1>3. \E E \in SUBSET Stamps :
         /\ OfInstance \in E /\ Write(E)
         /\ place' \in [Orders -> {"absent", "pending", "sending", "reconciled", "rejected", "cancelled"}]
         /\ owner' \in [Orders -> {"none", "unbound", "bound", "terminal"}]
         /\ RowsSound'
         /\ \A o \in Orders : /\ owner'[o] = "bound" => owner[o] = "bound"
                              /\ place'[o] = "sending" <=> place[o] = "sending"
  <2>1. CASE a \in {"pause", "stop", "reset"}
    <3>1. FenceRisk /\ Write({OfInstance} \cup Fenced)
      BY <2>1
    <3>2. {OfInstance} \cup Fenced \in SUBSET Stamps
      BY <1>2, <3>1, FenceRiskFacts, StampsAre
    <3> QED
      BY <1>2, <3>1, <3>2, FenceRiskFacts
  <2>2. CASE a \notin {"pause", "stop", "reset"}
    <3>1. UNCHANGED << place, owner >> /\ Write({OfInstance})
      BY <2>2
    <3>2. {OfInstance} \in SUBSET Stamps
      BY StampsAre
    <3>3. RowsSound'
      BY <1>2, <3>1 DEF RowsSound
    <3> QED
      BY <3>1, <3>2, <3>3 DEF TypeOK
  <2> QED
    BY <2>1, <2>2
<1>4. /\ ProjectionsSound' /\ TurnSound'
      /\ proj' \in [open : SUBSET Orders, late : SUBSET Stamps]
      /\ snap' \in [step : {"idle", "taken"}, open : SUBSET Orders, late : SUBSET Stamps]
      /\ turn' \in TurnType
  BY <1>2, <1>3, WriteKeeps
<1>5. TypeOK'
  <2>1. /\ instance' \in States /\ dirty' \in BOOLEAN
        /\ digest' \in {"null", "empty", "plan"} /\ timer' \in {"none", "running", "expired"}
    BY <1>1
  <2> QED
    BY <1>2, <1>3, <1>4, <2>1 DEF TypeOK, TurnType
<1>6. StoppedIsFlat'
  BY <1>1 DEF StoppedIsFlat
<1> QED
  BY <1>3, <1>4, <1>5, <1>6

(* A new configuration: a stopped instance stays flat.                     *)
LEMMA UpdateConfigStep ==
  ASSUME LifecycleInv, UpdateConfig
  PROVE  LifecycleInv'
<1> USE LifecycleAssumption DEF LifecycleInv, UpdateConfig
<1>1. order' = order /\ cancel' = cancel /\ moves' \in 0..MaxMoves /\ config' \in Configs
  BY DEF TypeOK, Configs
<1>2. FenceRisk /\ Write({OfInstance} \cup Fenced) /\ instance' = instance
  OBVIOUS
<1>3. /\ place' \in [Orders -> {"absent", "pending", "sending", "reconciled", "rejected", "cancelled"}]
      /\ owner' \in [Orders -> {"none", "unbound", "bound", "terminal"}]
      /\ RowsSound'
      /\ \A o \in Orders :
           /\ owner'[o] = "bound" => owner[o] = "bound" /\ OfOwner(o) \notin Fenced
           /\ place'[o] = "sending" <=> place[o] = "sending"
           /\ place'[o] \in Unsettled => place[o] \in Unsettled
      /\ Fenced \in SUBSET Stamps
  BY <1>1, <1>2, FenceRiskFacts
<1>4. /\ ProjectionsSound' /\ TurnSound'
      /\ proj' \in [open : SUBSET Orders, late : SUBSET Stamps]
      /\ snap' \in [step : {"idle", "taken"}, open : SUBSET Orders, late : SUBSET Stamps]
      /\ turn' \in TurnType
  <2>1. {OfInstance} \cup Fenced \in SUBSET Stamps
    BY <1>3, StampsAre
  <2> QED
    BY <1>1, <1>2, <1>3, <2>1, WriteKeeps
<1>5. TypeOK'
  <2>1. /\ instance' \in States /\ dirty' \in BOOLEAN
        /\ digest' \in {"null", "empty", "plan"} /\ timer' \in {"none", "running", "expired"}
    BY <1>2 DEF TypeOK, ConfigDirty
  <2> QED
    BY <1>1, <1>3, <1>4, <2>1 DEF TypeOK, TurnType
<1>6. StoppedIsFlat'
  BY <1>1, <1>2, <1>3 DEF StoppedIsFlat, Flat, Open
<1> QED
  BY <1>3, <1>4, <1>5, <1>6

-----------------------------------------------------------------------------
(* The turn.                                                               *)

(* The end of a turn forgets its view.                                     *)
LEMMA NoTurnSound == LifecycleInv => NoTurn \in TurnType
BY LifecycleAssumption DEF NoTurn, TurnType, Configs

(* A turn starts on an instance that is neither stopped nor handed over.   *)
LEMMA TurnLoadStep ==
  ASSUME LifecycleInv, TurnLoad
  PROVE  LifecycleInv'
<1> USE DEF LifecycleInv
<1>1. /\ UNCHANGED << instance, dirty, digest, timer, config, place, cancel, owner, order, moves >>
       /\ Stamp({OfTurn}) /\ instance \notin {"stopped", "needs_attention"}
  BY DEF TurnLoad, row, commands
<1> DEFINE expired == timer = "expired"
<1>2. expired \in BOOLEAN
  OBVIOUS
<1>3. turn' = [step |-> "loaded", state |-> instance, config |-> config,
               expired |-> expired, stale |-> FALSE, open |-> {}, late |-> {},
               converged |-> FALSE]
  BY DEF TurnLoad, NoTurn
<1> HIDE DEF expired
<1>4. {OfTurn} \in SUBSET Stamps
  BY StampsAre
<1>5. /\ proj' = [open |-> proj.open, late |-> proj.late \cup {OfTurn}]
      /\ snap.step = "idle" => snap' = snap
      /\ snap.step = "taken" =>
           snap' = [step |-> "taken", open |-> snap.open, late |-> snap.late \cup {OfTurn}]
      /\ proj' \in [open : SUBSET Orders, late : SUBSET Stamps]
      /\ snap' \in [step : {"idle", "taken"}, open : SUBSET Orders, late : SUBSET Stamps]
  BY <1>4, <1>1, StampGrows
<1>6. turn' \in TurnType
  <2>1. instance \in States /\ config \in Configs
    BY DEF TypeOK
  <2> QED
    BY <1>3, <1>2, <2>1 DEF TurnType
<1>7. TypeOK'
  BY <1>5, <1>6, <1>1 DEF TypeOK, TurnType
<1>8. ProjectionsSound'
  <2>1. Sees(proj.open, proj.late)'
    BY <1>5, <1>1 DEF ProjectionsSound, Sees
  <2>2. CASE snap.step = "idle"
    BY <1>5, <1>1, <2>1, <2>2 DEF ProjectionsSound
  <2>3. CASE snap.step = "taken"
    <3>1. Sees(snap.open, snap.late)'
      BY <1>5, <1>1, <2>3 DEF ProjectionsSound, Sees
    <3>2. (\A o \in proj.open \ snap.open : order[o] = "gone")'
      BY <1>5, <1>1, <2>3 DEF ProjectionsSound
    <3> QED
      BY <1>1, <2>1, <3>1, <3>2 DEF ProjectionsSound
  <2> QED
    BY <2>2, <2>3 DEF TypeOK
<1>9. TurnSound'
  <2>1. turn'.step = "loaded" /\ turn'.converged = FALSE /\ turn'.state = instance
    BY <1>3
  <2> QED
    BY <1>1, <2>1 DEF TurnSound
<1>10. RowsSound' /\ StoppedIsFlat'
  BY <1>1 DEF RowsSound, StoppedIsFlat, Flat, Open
<1> QED
  BY <1>8, <1>9, <1>10, <1>7

(* What a turn writes with its own time keeps what the projections tell,   *)
(* if it makes nothing bound, stamps nothing bound and settles nothing.    *)
LEMMA TurnStampKeeps ==
  ASSUME LifecycleInv, NEW E \in SUBSET Stamps, StampAsTurn(E), order' = order,
         \A o \in Orders :
            /\ owner'[o] = "bound" => owner[o] = "bound" /\ OfOwner(o) \notin E
            /\ place[o] = "sending" => place'[o] = "sending"
  PROVE  /\ ProjectionsSound'
         /\ proj' \in [open : SUBSET Orders, late : SUBSET Stamps]
         /\ snap' \in [step : {"idle", "taken"}, open : SUBSET Orders, late : SUBSET Stamps]
<1> USE DEF LifecycleInv
<1>1. PICK P \in SUBSET Stamps, S \in SUBSET Stamps :
         /\ proj' = [open |-> proj.open, late |-> P]
         /\ snap.step = "idle" => snap' = snap
         /\ snap.step = "taken" => snap' = [step |-> "taken", open |-> snap.open, late |-> S]
         /\ proj' \in [open : SUBSET Orders, late : SUBSET Stamps]
         /\ snap' \in [step : {"idle", "taken"}, open : SUBSET Orders, late : SUBSET Stamps]
         /\ OfCommands \in proj.late => OfCommands \in P
         /\ OfCommands \in snap.late => OfCommands \in S
         /\ \A o \in Orders : OfOwner(o) \notin E =>
              /\ OfOwner(o) \in proj.late => OfOwner(o) \in P
              /\ OfOwner(o) \in snap.late => OfOwner(o) \in S
  BY StampAsTurnKeeps
<1>2. Sees(proj.open, proj.late)'
  BY <1>1 DEF ProjectionsSound, Sees
<1>3. CASE snap.step = "idle"
  BY <1>1, <1>2, <1>3 DEF ProjectionsSound
<1>4. CASE snap.step = "taken"
  <2>1. Sees(snap.open, snap.late)'
    BY <1>1, <1>4 DEF ProjectionsSound, Sees
  <2>2. (\A o \in proj.open \ snap.open : order[o] = "gone")'
    BY <1>1, <1>4 DEF ProjectionsSound
  <2> QED
    BY <1>1, <1>2, <2>1, <2>2 DEF ProjectionsSound
<1> QED
  BY <1>1, <1>3, <1>4 DEF TypeOK

(* A change of state by the turn.                                          *)
LEMMA SettleStep ==
  ASSUME LifecycleInv, turn.step # "idle",
         NEW next \in {"running", "blocked", "reset_required", "needs_attention", "stopped"},
         Settle(next), TurnEnds, UNCHANGED << cancel, order, moves >>,
         next = "stopped" => Flat
  PROVE  LifecycleInv'
<1> USE DEF LifecycleInv
<1>1. turn' = NoTurn /\ turn' \in TurnType
  BY NoTurnSound DEF TurnEnds
<1>2. instance' = next /\ instance = turn.state
  BY DEF Settle
<1>3. \E E \in SUBSET Stamps :
         /\ StampAsTurn(E)
         /\ place' \in [Orders -> {"absent", "pending", "sending", "reconciled", "rejected", "cancelled"}]
         /\ owner' \in [Orders -> {"none", "unbound", "bound", "terminal"}]
         /\ RowsSound' /\ config' \in Configs
         /\ \A o \in Orders : /\ owner'[o] = "bound" => owner[o] = "bound" /\ OfOwner(o) \notin E
                              /\ place[o] = "sending" => place'[o] = "sending"
                              /\ place'[o] \in Unsettled => place[o] \in Unsettled
  <2>1. CASE next = "reset_required"
    <3>1. FenceRisk /\ StampAsTurn({OfInstance} \cup Fenced) /\ config' \in Configs
      BY <2>1, LifecycleAssumption DEF Settle, TypeOK, Configs
    <3>2. {OfInstance} \cup Fenced \in SUBSET Stamps
      BY <3>1, FenceRiskFacts, StampsAre
    <3>3. \A o \in Orders : OfOwner(o) \notin Fenced => OfOwner(o) \notin {OfInstance} \cup Fenced
      BY StampsDiffer
    <3> QED
      BY <3>1, <3>2, <3>3, FenceRiskFacts
  <2>2. CASE next # "reset_required"
    <3>1. StampAsTurn({OfInstance} \cup {}) /\ config' = config /\ UNCHANGED << place, owner >>
      BY <2>2 DEF Settle
    <3>2. {OfInstance} \cup {} \in SUBSET Stamps
      BY StampsAre
    <3>3. \A o \in Orders : OfOwner(o) \notin {OfInstance} \cup {}
      BY StampsDiffer
    <3>4. RowsSound'
      BY <3>1 DEF RowsSound
    <3> QED
      BY <3>1, <3>2, <3>3, <3>4 DEF TypeOK
  <2> QED
    BY <2>1, <2>2
<1>4. /\ ProjectionsSound'
      /\ proj' \in [open : SUBSET Orders, late : SUBSET Stamps]
      /\ snap' \in [step : {"idle", "taken"}, open : SUBSET Orders, late : SUBSET Stamps]
  BY <1>3, TurnStampKeeps
<1>5. TypeOK'
  <2>1. dirty' \in BOOLEAN /\ digest' \in {"null", "empty", "plan"}
          /\ timer' \in {"none", "running", "expired"}
    BY DEF TypeOK, Settle
  <2> QED
    BY <1>1, <1>2, <1>3, <1>4, <2>1 DEF TypeOK, TurnType
<1>6. TurnSound'
  BY <1>1 DEF TurnSound, NoTurn
<1>7. StoppedIsFlat'
  BY <1>2, <1>3 DEF StoppedIsFlat, Flat, Open
<1> QED
  BY <1>3, <1>4, <1>5, <1>6, <1>7

(* A turn that ends without a write.                                       *)
LEMMA AbandonStep ==
  ASSUME LifecycleInv, Abandon
  PROVE  LifecycleInv'
<1> USE DEF LifecycleInv, Abandon, row, commands, projections
<1>1. turn' = NoTurn /\ turn' \in TurnType
  BY NoTurnSound DEF TurnEnds
<1>2. TypeOK'
  BY <1>1 DEF TypeOK, TurnType
<1>3. (RowsSound /\ ProjectionsSound /\ StoppedIsFlat)'
  BY DEF RowsSound, ProjectionsSound, Sees, StoppedIsFlat, Flat, Open
<1>4. TurnSound'
  BY <1>1 DEF TurnSound, NoTurn
<1> QED
  BY <1>2, <1>3, <1>4

(* The time of winding down is up, or it is not.                           *)
LEMMA TimeOutStep ==
  ASSUME LifecycleInv, turn.step # "idle", TimeOut
  PROVE  LifecycleInv'
BY SettleStep, AbandonStep DEF TimeOut

(* No facts to judge by.                                                   *)
LEMMA TurnNoFactsStep ==
  ASSUME LifecycleInv, TurnNoFacts
  PROVE  LifecycleInv'
BY SettleStep, TimeOutStep DEF TurnNoFacts

(* The turn reads the projection and the rows.  A row that it closes is of *)
(* an order that has ended; what rests and is missing in its view, was     *)
(* commanded since.                                                        *)
LEMMA TurnSyncStep ==
  ASSUME LifecycleInv, TurnSync
  PROVE  LifecycleInv'
<1> USE DEF LifecycleInv
<1> DEFINE closed == { o \in Orders : Unseen(o) }
           stamps == { OfOwner(o) : o \in closed }
           kept == { o \in proj.open : owner[o] # "none" /\
                        ~ (owner[o] = "terminal" /\ OfOwner(o) \in proj.late) }
           found == { o \in Orders : owner[o] = "unbound" /\ o \in kept
                                        /\ turn.state \notin Winding }
           seen == proj.late \cap {OfInstance, OfCommands}
<1>1. /\ owner' = [o \in Orders |-> CASE o \in closed -> "terminal"
                                      [] o \in found -> "bound"
                                      [] OTHER -> owner[o]]
      /\ proj' = [proj EXCEPT !.late = @ \cup stamps]
      /\ turn' = [turn EXCEPT !.step = "synced", !.open = kept, !.late = seen]
      /\ turn.step = "loaded"
  BY DEF TurnSync
<1>2. UNCHANGED << instance, dirty, digest, timer, config, place, cancel, order, snap, moves >>
  BY DEF TurnSync, row, commands
<1>3. \A o \in closed : o \in Orders /\ o \notin proj.open /\ owner[o] = "bound" /\ order[o] = "gone"
  BY DEF Unseen, ProjectionsSound, Sees
<1>4. \A o \in found : o \in Orders /\ o \in proj.open /\ order[o] # "none"
  BY DEF ProjectionsSound, Sees
<1>5. kept \subseteq proj.open /\ kept \subseteq Orders
  BY DEF TypeOK
<1>6. \A o \in proj.open : order[o] = "live" => o \in kept
  <2>1. \A o \in proj.open : o \in Orders
    BY DEF TypeOK
  <2> QED
    BY <2>1 DEF RowsSound
<1>7. stamps \in SUBSET Stamps
  BY StampsAre, <1>3
<1>8. seen \in SUBSET {OfInstance, OfCommands} /\ (OfCommands \in proj.late => OfCommands \in seen)
  OBVIOUS
<1> HIDE DEF closed, stamps, kept, found, seen
<1>9. \A o \in Orders : owner'[o] = IF o \in closed THEN "terminal"
                                     ELSE IF o \in found THEN "bound" ELSE owner[o]
  BY <1>1, <1>3, <1>4
<1>10. proj' = [open |-> proj.open, late |-> proj.late \cup stamps]
  BY <1>1 DEF TypeOK
<1>11. /\ turn' \in TurnType
       /\ turn'.step = "synced" /\ turn'.open = kept /\ turn'.late = seen
       /\ turn'.state = turn.state /\ turn'.stale = turn.stale /\ turn'.converged = turn.converged
  <2>1. turn \in TurnType
    BY DEF TypeOK, TurnType
  <2> QED
    BY <1>1, <1>5, <1>8, <2>1 DEF TurnType
<1>12. TypeOK'
  <2>1. owner' \in [Orders -> {"none", "unbound", "bound", "terminal"}]
    BY <1>1, <1>9 DEF TypeOK
  <2>2. proj' \in [open : SUBSET Orders, late : SUBSET Stamps]
    BY <1>7, <1>10 DEF TypeOK
  <2> QED
    BY <1>2, <1>11, <2>1, <2>2 DEF TypeOK, TurnType
<1>13. RowsSound'
  BY <1>2, <1>3, <1>4, <1>9 DEF RowsSound
<1>14. ProjectionsSound'
  <2>1. Sees(proj.open, proj.late)'
    BY <1>2, <1>4, <1>9, <1>10 DEF ProjectionsSound, Sees
  <2>2. CASE snap.step = "idle"
    BY <1>2, <2>1, <2>2 DEF ProjectionsSound
  <2>3. CASE snap.step = "taken"
    <3>1. (\A o \in proj.open \ snap.open : order[o] = "gone")'
      BY <1>2, <1>10, <2>3 DEF ProjectionsSound
    <3>2. Sees(snap.open, snap.late)'
      BY <1>2, <1>4, <1>9, <2>3 DEF ProjectionsSound, Sees
    <3> QED
      BY <2>1, <3>1, <3>2 DEF ProjectionsSound
  <2> QED
    BY <2>2, <2>3 DEF TypeOK
<1>15. TurnSound'
  <2>1. turn.converged = FALSE
    BY <1>1 DEF TurnSound, TypeOK
  <2>2. \A o \in Open \ kept : OfCommands \in seen \/ place[o] = "sending"
    BY <1>6, <1>8 DEF Open, ProjectionsSound, Sees
  <2>3. Open' = Open
    BY <1>2 DEF Open
  <2> QED
    BY <1>1, <1>2, <1>11, <2>1, <2>2, <2>3 DEF TurnSound
<1>16. StoppedIsFlat'
  BY <1>2 DEF StoppedIsFlat, Flat, Open
<1> QED
  BY <1>12, <1>13, <1>14, <1>15, <1>16

(* A turn that writes to the instance's row without a change of state.     *)
LEMMA RowStep ==
  ASSUME LifecycleInv, StampAsTurn({OfInstance}), TurnEnds,
         UNCHANGED << instance, config, place, owner, cancel, order, moves >>,
         dirty' \in BOOLEAN, digest' \in {"null", "empty", "plan"},
         timer' \in {"none", "running", "expired"}
  PROVE  LifecycleInv'
<1> USE DEF LifecycleInv
<1>1. turn' = NoTurn /\ turn' \in TurnType
  BY NoTurnSound DEF TurnEnds
<1>2. /\ ProjectionsSound'
      /\ proj' \in [open : SUBSET Orders, late : SUBSET Stamps]
      /\ snap' \in [step : {"idle", "taken"}, open : SUBSET Orders, late : SUBSET Stamps]
  <2>1. {OfInstance} \in SUBSET Stamps /\ \A o \in Orders : OfOwner(o) \notin {OfInstance}
    BY StampsAre, StampsDiffer
  <2> QED
    BY <2>1, TurnStampKeeps
<1>3. TypeOK'
  BY <1>1, <1>2 DEF TypeOK, TurnType
<1>4. RowsSound' /\ StoppedIsFlat'
  BY DEF RowsSound, StoppedIsFlat, Flat, Open
<1>5. TurnSound'
  BY <1>1 DEF TurnSound, NoTurn
<1> QED
  BY <1>2, <1>3, <1>4, <1>5

(* A turn on an instance that is not winding down.                         *)
LEMMA TurnRunStep ==
  ASSUME LifecycleInv, TurnRun
  PROVE  LifecycleInv'
<1>1. turn.step # "idle" /\ TurnEnds /\ UNCHANGED << cancel, order, moves >>
  BY DEF TurnRun
<1>2. CASE Settle("running") \/ Settle("blocked") \/ Settle("reset_required")
  BY <1>1, <1>2, SettleStep
<1>3. CASE /\ dirty' = FALSE
           /\ timer' = "none"
           /\ StampAsTurn({OfInstance})
           /\ UNCHANGED << instance, digest, config, place, owner >>
  BY <1>1, <1>3, RowStep DEF LifecycleInv, TypeOK
<1> QED
  BY <1>2, <1>3 DEF TurnRun

(* A turn that marks the empty surface.                                    *)
LEMMA TurnPrepareStep ==
  ASSUME LifecycleInv, TurnPrepare
  PROVE  LifecycleInv'
BY RowStep DEF TurnPrepare, LifecycleInv, TypeOK, commands

(* The cancels of a turn: its judgement is that nothing is left, or it is  *)
(* not converged.                                                          *)
LEMMA TurnReconcileStep ==
  ASSUME LifecycleInv, TurnReconcile
  PROVE  LifecycleInv'
<1> USE DEF LifecycleInv
<1>1. turn \in TurnType /\ turn.step = "synced" /\ turn.converged = FALSE
  BY DEF TypeOK, TurnType, TurnReconcile, TurnSound
<1>2. CASE Abandon
  BY <1>2, AbandonStep
<1>3. CASE /\ cancel' = [c \in Cancels |-> IF c \in ToCancel \X {turn.config}
                                            THEN "pending" ELSE cancel[c]]
           /\ StampAsTurn({OfCommands})
           /\ turn' = [turn EXCEPT !.step = "judged"]
           /\ UNCHANGED << row, place, owner, order, moves >>
  <2>1. UNCHANGED << instance, dirty, digest, timer, config, place, owner, order, moves >>
    BY <1>3 DEF row
  <2>2. /\ turn' \in TurnType /\ turn'.step = "judged" /\ turn'.converged = FALSE
        /\ turn'.state = turn.state /\ turn'.stale = turn.stale
        /\ turn'.open = turn.open /\ turn'.late = turn.late
    BY <1>1, <1>3 DEF TurnType
  <2>3. /\ ProjectionsSound'
        /\ proj' \in [open : SUBSET Orders, late : SUBSET Stamps]
        /\ snap' \in [step : {"idle", "taken"}, open : SUBSET Orders, late : SUBSET Stamps]
    <3>1. {OfCommands} \in SUBSET Stamps /\ \A o \in Orders : OfOwner(o) \notin {OfCommands}
      BY StampsAre, StampsDiffer
    <3> QED
      BY <1>3, <2>1, <3>1, TurnStampKeeps
  <2>4. TypeOK'
    <3>1. cancel' \in [Cancels -> {"absent", "pending", "sending", "reconciled", "rejected"}]
      BY <1>3 DEF TypeOK
    <3> QED
      BY <2>1, <2>2, <2>3, <3>1 DEF TypeOK, TurnType
  <2>5. RowsSound' /\ StoppedIsFlat'
    BY <2>1 DEF RowsSound, StoppedIsFlat, Flat, Open
  <2>6. TurnSound'
    BY <1>1, <2>1, <2>2 DEF TurnSound, Open
  <2> QED
    BY <2>3, <2>4, <2>5, <2>6
<1>4. CASE /\ turn' = [turn EXCEPT !.step = "judged",
                                   !.converged = turn.open = {} /\ Nonterminal = {}]
           /\ UNCHANGED << row, commands, owner, order, projections, moves >>
  <2>1. UNCHANGED << instance, dirty, digest, timer, config, place, cancel, owner, order, proj,
                     snap, moves >>
    BY <1>4 DEF row, commands, projections
  <2> DEFINE left == turn.open = {} /\ Nonterminal = {}
  <2>2. left \in BOOLEAN /\ (left => turn.open = {})
    OBVIOUS
  <2> HIDE DEF left
  <2>3. turn' = [turn EXCEPT !.step = "judged", !.converged = left]
    BY <1>4 DEF left
  <2>4. /\ turn' \in TurnType /\ turn'.step = "judged" /\ turn'.converged = left
        /\ turn'.state = turn.state /\ turn'.stale = turn.stale
        /\ turn'.open = turn.open /\ turn'.late = turn.late
    BY <1>1, <2>2, <2>3 DEF TurnType
  <2>5. TypeOK'
    BY <2>1, <2>4 DEF TypeOK, TurnType
  <2>6. (RowsSound /\ ProjectionsSound /\ StoppedIsFlat)'
    BY <2>1 DEF RowsSound, ProjectionsSound, Sees, StoppedIsFlat, Flat, Open
  <2>7. TurnSound'
    BY <1>1, <2>1, <2>2, <2>4 DEF TurnSound, Open
  <2> QED
    BY <2>5, <2>6, <2>7
<1> QED
  BY <1>2, <1>3, <1>4 DEF TurnReconcile

(* A turn that has judged the surface empty, with no command in flight and *)
(* none written since the projection it read, is right.                    *)
LEMMA JudgedIsFlat ==
  ASSUME LifecycleInv, turn.step = "judged", turn.converged, CommandsObserved
  PROVE  Flat
<1>1. turn.open = {} /\ OfCommands \notin turn.late
  BY DEF LifecycleInv, TurnSound, CommandsObserved
<1>2. \A o \in Orders : place[o] \notin Unsettled
  BY DEF CommandsObserved, Nonterminal
<1>3. Open = {}
  BY <1>1, <1>2 DEF LifecycleInv, TurnSound, Open
<1> QED
  BY <1>2, <1>3 DEF Flat

(* The turn's write, if any, after its judgement.                          *)
LEMMA FinishStep ==
  ASSUME LifecycleInv, FinishPause \/ FinishStop \/ FinishReset \/ FinishLater
  PROVE  LifecycleInv'
<1>1. CASE FinishPause
  <2>1. CASE Abandon
    BY <2>1, AbandonStep
  <2>2. CASE ~ Abandon
    BY <1>1, <2>2, RowStep DEF FinishPause, LifecycleInv, TypeOK, commands
  <2> QED
    BY <2>1, <2>2
<1>2. CASE FinishStop
  BY <1>2, JudgedIsFlat, SettleStep, AbandonStep DEF FinishStop
<1>3. CASE FinishReset
  BY <1>3, SettleStep, AbandonStep DEF FinishReset
<1>4. CASE FinishLater
  BY <1>4, TimeOutStep DEF FinishLater
<1> QED
  BY <1>1, <1>2, <1>3, <1>4

-----------------------------------------------------------------------------

(* Every step of the lifecycle keeps the invariant.                        *)
LEMMA LifecycleNextKeeps ==
  ASSUME LifecycleInv, [Next]_vars
  PROVE  LifecycleInv'
<1>1. CASE Expire \/ Snapshot \/ Exchange
  BY <1>1, ExpireStep, SnapshotTakeStep, SnapshotPublishStep, AcceptStep, EndStep
     DEF Snapshot, Exchange
<1>2. CASE ExecutorStep
  BY <1>2, ClaimPlaceStep, SettlePlaceStep, ClaimCancelStep, SettleCancelStep DEF ExecutorStep
<1>3. CASE \E P, C \in SUBSET Orders : CommitPlan(P, C)
  BY <1>3, CommitPlanStep
<1>4. CASE User
  BY <1>4, UpdateConfigStep, RequestLifecycleStep DEF User
<1>5. CASE TurnLoad \/ TurnSync \/ TurnRun \/ TurnPrepare \/ TurnReconcile
  BY <1>5, TurnLoadStep, TurnSyncStep, TurnRunStep, TurnPrepareStep, TurnReconcileStep
<1>6. CASE FinishPause \/ FinishStop \/ FinishReset \/ FinishLater
  BY <1>6, FinishStep
<1>7. CASE TurnNoFacts \/ TurnAborts
  BY <1>7, TurnNoFactsStep, AbandonStep DEF TurnAborts
<1>8. CASE UNCHANGED vars
  <2>1. UNCHANGED << instance, dirty, digest, timer, config, place, cancel, owner, order, proj,
                     snap, turn, moves >>
    BY <1>8 DEF vars, row, commands, projections
  <2>2. TypeOK'
    BY <2>1 DEF LifecycleInv, TypeOK
  <2>3. (RowsSound /\ ProjectionsSound /\ TurnSound /\ StoppedIsFlat)'
    BY <2>1 DEF LifecycleInv, RowsSound, ProjectionsSound, Sees, TurnSound, StoppedIsFlat, Flat, Open
  <2> QED
    BY <2>2, <2>3 DEF LifecycleInv
<1> QED
  BY <1>1, <1>2, <1>3, <1>4, <1>5, <1>6, <1>7, <1>8 DEF Next, TurnStep

(* What a turn sees of the orders, through a lagging projection and rows   *)
(* read one after the other, and what it may conclude, in every state of   *)
(* the lifecycle.                                                          *)
THEOREM LifecycleInvariant == Spec => []LifecycleInv
<1>1. Init => LifecycleInv
  BY LifecycleInit
<1>2. LifecycleInv /\ [Next]_vars => LifecycleInv'
  BY LifecycleNextKeeps
<1> QED
  BY <1>1, <1>2, PTL DEF Spec

(* The rows, the projections and the turn keep their types.                *)
THEOREM LifecycleTypeCorrect == Spec => []TypeOK
<1>1. LifecycleInv => TypeOK
  BY DEF LifecycleInv
<1> QED
  BY <1>1, LifecycleInvariant, PTL

(* finish_stop: a stopped instance has nothing at the exchange and nothing *)
(* on its way there, for good.                                             *)
THEOREM LifecycleStoppedIsFlat == Spec => []StoppedIsFlat
<1>1. LifecycleInv => StoppedIsFlat
  BY DEF LifecycleInv
<1> QED
  BY <1>1, LifecycleInvariant, PTL

(* Which steps make a row that was reset running, and which clear the      *)
(* dirty flag of a paused one under the same configuration: only a turn    *)
(* that has judged the surface empty.                                      *)
LEMMA OnlyJudged ==
  ASSUME LifecycleInv, [Next]_vars,
         \/ instance = "reset_required" /\ instance' = "running"
         \/ instance = "paused" /\ instance' = "paused" /\ dirty /\ ~dirty' /\ config' = config
  PROVE  Flat
<1>1. ~ UNCHANGED << instance, dirty >>
  OBVIOUS
<1>2. ~ Abandon
  BY <1>1 DEF Abandon, row
<1>3. \/ \E P, C \in SUBSET Orders : CommitPlan(P, C)
      \/ UpdateConfig
      \/ \E a \in {"start", "resume", "pause", "stop", "reset"} : RequestLifecycle(a)
      \/ TurnRun \/ TurnPrepare
      \/ FinishPause \/ FinishStop \/ FinishReset \/ FinishLater \/ TurnNoFacts
  <2>1. ~ UNCHANGED vars /\ ~ Expire /\ ~ Snapshot /\ ~ ExecutorStep /\ ~ Exchange
    BY <1>1 DEF vars, row, Expire, Snapshot, SnapshotTake, SnapshotPublish, ExecutorStep, ClaimPlace,
         SettlePlace, ClaimCancel, SettleCancel, Exchange, Accept, End
  <2>2. ~ TurnLoad /\ ~ TurnSync /\ ~ TurnReconcile /\ ~ TurnAborts
    BY <1>1, <1>2 DEF row, TurnLoad, TurnSync, TurnReconcile, TurnAborts
  <2> QED
    BY <2>1, <2>2 DEF Next, User, TurnStep
<1>4. ~ \E P, C \in SUBSET Orders : CommitPlan(P, C)
  BY DEF CommitPlan
<1>5. ~ UpdateConfig
  <2>1. SUFFICES ASSUME UpdateConfig PROVE FALSE
    OBVIOUS
  <2>2. config \in Nat /\ config' = config + 1 /\ instance' = instance
    BY <2>1 DEF UpdateConfig, LifecycleInv, TypeOK, Configs
  <2> QED
    BY <2>2
<1>6. ~ \E a \in {"start", "resume", "pause", "stop", "reset"} : RequestLifecycle(a)
  <2>1. SUFFICES ASSUME NEW a \in {"start", "resume", "pause", "stop", "reset"},
                        RequestLifecycle(a)
                 PROVE FALSE
    OBVIOUS
  <2>2. dirty' = TRUE /\ instance' # "running"
    BY <2>1 DEF RequestLifecycle, LifecycleNext
  <2> QED
    BY <2>2
<1>7. ~ TurnPrepare
  BY DEF TurnPrepare
<1>8. ~ TurnRun
  <2>1. SUFFICES ASSUME TurnRun PROVE FALSE
    OBVIOUS
  <2>2. instance = turn.state
    BY <2>1 DEF TurnRun, Settle, LifecycleInv, TurnSound
  <2> QED
    BY <2>1, <2>2 DEF TurnRun
<1>9. ~ TimeOut
  BY <1>2 DEF TimeOut, Settle
<1>10. ~ TurnNoFacts /\ ~ FinishLater
  BY <1>9 DEF TurnNoFacts, FinishLater, Settle
<1>11. FinishPause \/ FinishStop \/ FinishReset
  BY <1>3, <1>4, <1>5, <1>6, <1>7, <1>8, <1>10
<1> QED
  BY <1>11, JudgedIsFlat DEF FinishPause, FinishStop, FinishReset

(* finish_pause: a pause is confirmed only over an empty surface.          *)
THEOREM LifecyclePauseConfirmsFlat == Spec => PauseConfirmsFlat
<1>1. LifecycleInv /\ [Next]_vars =>
        [(instance = "paused" /\ instance' = "paused" /\ dirty /\ ~dirty' /\ config' = config)
            => Flat]_vars
  BY OnlyJudged
<1> QED
  BY <1>1, LifecycleInvariant, PTL DEF Spec, PauseConfirmsFlat

(* finish_reset: a new grid starts only over an empty surface.             *)
THEOREM LifecycleResetStartsClean == Spec => ResetStartsClean
<1>1. LifecycleInv /\ [Next]_vars =>
        [(instance = "reset_required" /\ instance' = "running") => Flat]_vars
  BY OnlyJudged
<1> QED
  BY <1>1, LifecycleInvariant, PTL DEF Spec, ResetStartsClean

=============================================================================
