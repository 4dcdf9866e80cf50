----------------------------- MODULE WriterLease -----------------------------
(***************************************************************************)
(* The durable writer authority of one scope (writer_lease.rs): processes  *)
(* that hold a session in memory renew, recover, retire, protect, fence    *)
(* and hand over the one writer, and take a guard (the OS lock, kept for   *)
(* the length of a gateway call) before they send anything.                *)
(*                                                                         *)
(* The stored state changes in one step here, under the lock; what a crash *)
(* inside persist_state leaves behind is the subject of AuthorityFile.     *)
(* An operation whose state was stored may still fail to its caller, who   *)
(* then keeps the session it had.  A token is the revision it was made at; *)
(* scope, digests of summaries and identifiers are well formed.            *)
(***************************************************************************)
EXTENDS Naturals

CONSTANTS
    Processes,          \* running executables, each with its own digest
    FlatReceipts,       \* receipt ids of flat proofs
    Handoffs,           \* receipt ids of executable handoffs
    TTL,                \* WRITER_LEASE_TTL_MS
    MaxRevision,        \* where increment fails (checked_add of a u64)
    MaxTime,            \* bound: clock explored
    MaxReadback         \* bound: signed private readbacks explored

ASSUME LeaseAssumption ==
    /\ TTL \in Nat \ {0} /\ MaxRevision \in Nat /\ MaxTime \in Nat /\ MaxReadback \in Nat

VARIABLES
    cell,               \* DurableState
    sess,               \* the WriterSession each process holds
    entry,              \* whether it was given out as an entry-capable session
    guard,              \* the DispatchGuard held: by whom, of which kind
    now,                \* now_ms, from 1
    readback,           \* the latest signed private readback generation
    gone,               \* generations whose authority was ended (history)
    protected,          \* generations that were made protection-only (history)
    cleared,            \* generations ended by a flat receipt (history)
    uses                \* how often each receipt was accepted (history)

history == << gone, protected, cleared, uses >>
leaseVars == << cell, sess, entry, guard, now, readback, history >>

None == [token |-> 0, gen |-> 0, rev |-> 0, rb |-> 0, until |-> 0]
Session == [token : Nat, gen : Nat, rev : Nat, rb : Nat, until : Nat]
NoFence == [open |-> FALSE]
Fence == [open : {TRUE}, id : Handoffs, predecessor : Session, rb : Nat, successor : Processes]
NoGuard == [kind |-> "none"]

Receipts == ({"flat"} \X FlatReceipts) \cup ({"handoff"} \X Handoffs)

Cells == [rev : Nat, next : Nat, active : Session, prot : BOOLEAN,
          flat : SUBSET FlatReceipts, pending : Fence \cup {NoFence},
          handoffs : SUBSET Handoffs]

LeaseTypeOK ==
    /\ cell \in Cells
    /\ sess \in [Processes -> Session]
    /\ entry \in [Processes -> BOOLEAN]
    /\ guard \in [kind : {"entry", "protection"}, by : Processes] \cup {NoGuard}
    /\ now \in Nat /\ readback \in Nat
    /\ gone \in SUBSET Nat /\ protected \in SUBSET Nat /\ cleared \in SUBSET Nat
    /\ uses \in [Receipts -> Nat]

LeaseInit ==
    /\ cell = [rev |-> 0, next |-> 1, active |-> None, prot |-> FALSE, flat |-> {},
               pending |-> NoFence, handoffs |-> {}]
    /\ sess = [p \in Processes |-> None]
    /\ entry = [p \in Processes |-> FALSE]
    /\ guard = NoGuard
    /\ now = 1
    /\ readback = 1
    /\ gone = {} /\ protected = {} /\ cleared = {}
    /\ uses = [r \in Receipts |-> 0]

-----------------------------------------------------------------------------
(* validate_state: what a reader accepts.                                  *)
Valid(c) ==
    /\ c.next > 0
    /\ c.prot => c.active # None
    /\ c.pending # NoFence =>
        /\ c.active = None
        /\ ~ c.prot
        /\ 0 < c.pending.predecessor.token
        /\ 0 < c.pending.predecessor.gen /\ c.pending.predecessor.gen < c.next
        /\ c.pending.predecessor.rev < c.rev
        /\ 0 < c.pending.predecessor.rb /\ c.pending.predecessor.rb <= c.pending.rb
        /\ c.pending.id \notin c.handoffs
    /\ c.active # None =>
        /\ 0 < c.active.token
        /\ 0 < c.active.gen /\ c.active.gen < c.next
        /\ c.active.rev = c.rev
        /\ 0 < c.active.rb

(* lock and load_or_initial or require_state, at the head of every         *)
(* operation.  No file at all is the initial state, which has no writer.   *)
Locked == guard = NoGuard /\ Valid(cell)

(* increment of the revision; the generation stays below it.               *)
Advances == cell.rev < MaxRevision

(* require_exact_session and require_session.                              *)
Exact(p) == cell.active # None /\ cell.active = sess[p]
Live(p) == Exact(p) /\ now < cell.active.until

(* persist_locked, and what the caller is left with.                       *)
Persist(p, c, s, e) ==
    /\ cell' = c
    /\ \/ /\ sess' = [sess EXCEPT ![p] = s]
          /\ entry' = [entry EXCEPT ![p] = e]
       \/ UNCHANGED << sess, entry >>
    /\ UNCHANGED << guard, now, readback >>

(* The session of the next generation, and of the same one.                *)
NextSession(rb) == [token |-> cell.rev + 1, gen |-> cell.next, rev |-> cell.rev + 1,
                    rb |-> rb, until |-> now + TTL]
Renewed == [token |-> cell.active.token, gen |-> cell.active.gen, rev |-> cell.rev + 1,
            rb |-> cell.active.rb, until |-> now + TTL]
Reopened(rb) == [token |-> cell.rev + 1, gen |-> cell.active.gen, rev |-> cell.rev + 1,
                 rb |-> rb, until |-> now + TTL]
Reread(rb) == [token |-> cell.active.token, gen |-> cell.active.gen, rev |-> cell.rev + 1,
               rb |-> rb, until |-> cell.active.until]

(* Mutant: a later run goes on under the generation of the one before.     *)
RegisterInitialAgain(p, rb) ==
    /\ Locked /\ Advances
    /\ cell.pending = NoFence
    /\ cell.active = None
    /\ LET s == [NextSession(rb) EXCEPT !.gen = IF cell.next > 1 THEN cell.next - 1 ELSE cell.next]
       IN Persist(p, [cell EXCEPT !.rev = s.rev, !.next = s.gen + 1, !.active = s, !.prot = FALSE],
                  s, TRUE)
    /\ UNCHANGED history

RegisterInitial(p, rb) ==
    /\ Locked /\ Advances
    /\ cell.pending = NoFence
    /\ cell.active = None
    /\ LET s == NextSession(rb)
       IN Persist(p, [cell EXCEPT !.rev = s.rev, !.next = @ + 1, !.active = s, !.prot = FALSE], s, TRUE)
    /\ UNCHANGED history

(* Mutant: renewal compares and swaps beside a guard that is held.         *)
RenewUnlocked(p) ==
    /\ Valid(cell) /\ Advances
    /\ Live(p)
    /\ ~ cell.prot
    /\ Persist(p, [cell EXCEPT !.rev = @ + 1, !.active = Renewed], Renewed, TRUE)
    /\ UNCHANGED history

Renew(p) ==
    /\ Locked /\ Advances
    /\ Live(p)
    /\ ~ cell.prot
    /\ Persist(p, [cell EXCEPT !.rev = @ + 1, !.active = Renewed], Renewed, TRUE)
    /\ UNCHANGED history

(* recover_same_scope_after_readback.                                      *)
Recover(p, rb) ==
    /\ Locked /\ Advances
    /\ rb > sess[p].rb
    /\ ~ cell.prot
    /\ Exact(p)
    /\ cell.active.until <= now
    /\ Persist(p, [cell EXCEPT !.rev = @ + 1, !.active = Reopened(rb)], Reopened(rb), TRUE)
    /\ UNCHANGED history

RenewProtection(p) ==
    /\ Locked /\ Advances
    /\ cell.prot
    /\ Exact(p)
    /\ Persist(p, [cell EXCEPT !.rev = @ + 1, !.active = Renewed], Renewed, FALSE)
    /\ UNCHANGED history

-----------------------------------------------------------------------------
(* Receipts.                                                               *)

Ends(g) == gone' = gone \cup {g}
Accepts(r) == uses' = [uses EXCEPT ![r] = @ + 1]

(* consume_flat_receipt: the successor takes over.                         *)
ConsumeFlat(p, r, rb) ==
    /\ Locked /\ Advances
    /\ rb > sess[p].rb
    /\ r \notin cell.flat
    /\ Exact(p)
    /\ LET s == NextSession(rb)
       IN Persist(p, [cell EXCEPT !.rev = s.rev, !.next = @ + 1, !.active = s, !.prot = FALSE,
                                  !.flat = @ \cup {r}], s, TRUE)
    /\ Ends(cell.active.gen)
    /\ cleared' = cleared \cup {cell.active.gen}
    /\ Accepts(<<"flat", r>>)
    /\ UNCHANGED protected

(* Mutant: the receipt is not recorded.                                    *)
RetireFlatForgets(p, r, rb) ==
    /\ Locked /\ Advances
    /\ rb > sess[p].rb
    /\ r \notin cell.flat
    /\ Exact(p)
    /\ Persist(p, [cell EXCEPT !.rev = @ + 1, !.active = None, !.prot = FALSE], sess[p], entry[p])
    /\ Ends(cell.active.gen)
    /\ cleared' = cleared \cup {cell.active.gen}
    /\ Accepts(<<"flat", r>>)
    /\ UNCHANGED protected

RetireFlat(p, r, rb) ==
    /\ Locked /\ Advances
    /\ rb > sess[p].rb
    /\ r \notin cell.flat
    /\ Exact(p)
    /\ Persist(p, [cell EXCEPT !.rev = @ + 1, !.active = None, !.prot = FALSE,
                               !.flat = @ \cup {r}], sess[p], entry[p])
    /\ Ends(cell.active.gen)
    /\ cleared' = cleared \cup {cell.active.gen}
    /\ Accepts(<<"flat", r>>)
    /\ UNCHANGED protected

(* retain_protected_predecessor: the stored session moves on, the caller's *)
(* does not.                                                               *)
RetainProtected(p, rb) ==
    /\ Locked /\ Advances
    /\ rb > sess[p].rb
    /\ Exact(p)
    /\ Persist(p, [cell EXCEPT !.rev = @ + 1, !.prot = TRUE, !.active = Reread(rb)],
               sess[p], entry[p])
    /\ protected' = protected \cup {cell.active.gen}
    /\ UNCHANGED << gone, cleared, uses >>

(* fence_for_executable_handoff, by a successor that has validated an      *)
(* entry session (stage7_executable_handoff.rs).                           *)
FenceForHandoff(p, r, rb) ==
    /\ Locked /\ Advances
    /\ entry[p]
    /\ rb >= sess[p].rb
    /\ cell.pending = NoFence
    /\ r \notin cell.handoffs
    /\ Exact(p)
    /\ Persist(p, [cell EXCEPT !.rev = @ + 1, !.active = None, !.prot = FALSE,
                               !.pending = [open |-> TRUE, id |-> r, predecessor |-> cell.active,
                                            rb |-> rb, successor |-> p]], sess[p], entry[p])
    /\ Ends(cell.active.gen)
    /\ UNCHANGED << protected, cleared, uses >>

(* activate_executable_handoff_successor.                                  *)
ActivateSuccessor(p) ==
    /\ Locked /\ Advances
    /\ cell.pending # NoFence
    /\ cell.pending.successor = p
    /\ cell.pending.id \notin cell.handoffs
    /\ cell.active = None /\ ~ cell.prot
    /\ LET s == NextSession(cell.pending.rb)
       IN Persist(p, [cell EXCEPT !.rev = s.rev, !.next = @ + 1, !.active = s,
                                  !.pending = NoFence, !.handoffs = @ \cup {cell.pending.id}],
                  s, TRUE)
    /\ Accepts(<<"handoff", cell.pending.id>>)
    /\ UNCHANGED << gone, protected, cleared >>

-----------------------------------------------------------------------------
(* Sessions and guards.                                                    *)

(* active_session and active_entry_session read without the lock.          *)
LoadSession(p) ==
    /\ Valid(cell)
    /\ sess' = [sess EXCEPT ![p] = cell.active]
    /\ entry' = [entry EXCEPT ![p] = FALSE]
    /\ UNCHANGED << cell, guard, now, readback, history >>

(* Mutant: a protection-only writer is given out as an entry session.      *)
LoadEntrySessionAny(p) ==
    /\ Valid(cell)
    /\ sess' = [sess EXCEPT ![p] = cell.active]
    /\ entry' = [entry EXCEPT ![p] = TRUE]
    /\ UNCHANGED << cell, guard, now, readback, history >>

LoadEntrySession(p) ==
    /\ Valid(cell)
    /\ ~ cell.prot
    /\ sess' = [sess EXCEPT ![p] = cell.active]
    /\ entry' = [entry EXCEPT ![p] = TRUE]
    /\ UNCHANGED << cell, guard, now, readback, history >>

Holds(p, k) ==
    /\ guard' = [kind |-> k, by |-> p]
    /\ UNCHANGED << cell, sess, entry, now, readback, history >>

DispatchGuard(p) == Locked /\ ~ cell.prot /\ Live(p) /\ Holds(p, "entry")
PersistentDispatchGuard(p) == Locked /\ ~ cell.prot /\ Exact(p) /\ Holds(p, "entry")
ProtectionDispatchGuard(p) == Locked /\ cell.prot /\ Live(p) /\ Holds(p, "protection")

(* The gateway call is over and the guard is dropped.                      *)
Release(p) ==
    /\ guard # NoGuard /\ guard.by = p
    /\ guard' = NoGuard
    /\ UNCHANGED << cell, sess, entry, now, readback, history >>

(* The process ends: the system releases its lock.                         *)
Crash(p) ==
    /\ sess' = [sess EXCEPT ![p] = None]
    /\ entry' = [entry EXCEPT ![p] = FALSE]
    /\ guard' = IF guard # NoGuard /\ guard.by = p THEN NoGuard ELSE guard
    /\ UNCHANGED << cell, now, readback, history >>

Tick == now < MaxTime /\ now' = now + 1 /\ UNCHANGED << cell, sess, entry, guard, readback, history >>

Readback ==
    /\ readback < MaxReadback
    /\ readback' = readback + 1
    /\ UNCHANGED << cell, sess, entry, guard, now, history >>

LeaseNext ==
    \/ Tick
    \/ Readback
    \/ \E p \in Processes :
        \/ Renew(p) \/ RenewProtection(p) \/ ActivateSuccessor(p)
        \/ LoadSession(p) \/ LoadEntrySession(p) \/ Release(p) \/ Crash(p)
        \/ DispatchGuard(p) \/ PersistentDispatchGuard(p) \/ ProtectionDispatchGuard(p)
        \/ \E rb \in 1..readback :
            \/ RegisterInitial(p, rb) \/ Recover(p, rb) \/ RetainProtected(p, rb)
            \/ \E r \in FlatReceipts : ConsumeFlat(p, r, rb) \/ RetireFlat(p, r, rb)
            \/ \E r \in Handoffs : FenceForHandoff(p, r, rb)

LeaseSpec == LeaseInit /\ [][LeaseNext]_leaseVars

-----------------------------------------------------------------------------
(* Properties.                                                             *)

(* No sequence of operations stores a state that validate_state refuses:   *)
(* it would answer CorruptAuthority to everybody from then on.             *)
AlwaysValid == Valid(cell)

(* A guard stands for the stored writer as long as it is held: nobody has  *)
(* renewed, protected, retired or replaced it meanwhile.                   *)
GuardIsCurrent ==
    guard # NoGuard =>
        /\ cell.active # None
        /\ cell.active = sess[guard.by]
        /\ cell.prot <=> guard.kind = "protection"

(* "Permanently fences this exact predecessor": no guard of any kind for a *)
(* generation that was retired, replaced or fenced, by any process that    *)
(* still holds one of its sessions.                                        *)
FencedStaysFenced == guard # NoGuard => sess[guard.by].gen \notin gone

(* A writer that was made protection-only never sends entries again, and   *)
(* a successor does only after a flat receipt.                             *)
ProtectedUntilFlat ==
    (guard # NoGuard /\ guard.kind = "entry") =>
        \A g \in protected : sess[guard.by].gen # g /\ (g < sess[guard.by].gen => g \in cleared)

(* A receipt is accepted once.                                             *)
ReceiptsUsedOnce == \A r \in Receipts : uses[r] <= 1

-----------------------------------------------------------------------------
(* The inductive invariant behind them.                                    *)

(* No process knows a session from the future.                             *)
KnownPast == \A p \in Processes : sess[p].rev <= cell.rev

(* What was ended lies behind the generations in use.                      *)
GonePast ==
    /\ cleared \subseteq gone
    /\ \A g \in gone : g < cell.next /\ (cell.active # None => g # cell.active.gen)

(* A protected generation is cleared or still the stored one.              *)
ProtectedHeld ==
    \A g \in protected :
        g \in cleared \/ (cell.active # None /\ cell.prot /\ g = cell.active.gen)

(* An entry session that is still exact is not of a protected writer.      *)
EntryExact == \A p \in Processes : (entry[p] /\ Exact(p)) => ~ cell.prot

(* The stored sets remember what was accepted.                             *)
UsesStored ==
    /\ \A r \in FlatReceipts : uses[<<"flat", r>>] = (IF r \in cell.flat THEN 1 ELSE 0)
    /\ \A r \in Handoffs : uses[<<"handoff", r>>] = (IF r \in cell.handoffs THEN 1 ELSE 0)

LeaseInv ==
    /\ LeaseTypeOK /\ AlwaysValid /\ GuardIsCurrent
    /\ KnownPast /\ GonePast /\ ProtectedHeld /\ EntryExact /\ UsesStored

=============================================================================
