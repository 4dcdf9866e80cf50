---------------------------- MODULE CommandJournal ----------------------------
(***************************************************************************)
(* The command WAL of an account (venue-execution/src/journal.rs): an      *)
(* append-only file of receipts, and the handles that processes keep on    *)
(* it, each with receipts, query indexes and a WAL head of its own.        *)
(*                                                                         *)
(* A record is one unit of length.  An append may fail with any part of it *)
(* written; a part that ends inside a record leaves a torn tail.  Account  *)
(* hosts (Locked) hold the account's writer lock and rotate the file into  *)
(* segments; the older tools open the one file without a lock.  What has   *)
(* been written survives a crash of the process.                           *)
(***************************************************************************)
EXTENDS Naturals, Sequences, FiniteSets

CONSTANTS
    Handles,            \* processes that open the journal
    Places,             \* commands with a native client id
    Cancels,            \* cancel commands
    Client,             \* native_client_id of a place
    Target,             \* target_client_order_id of a cancel
    Entries,            \* the places that enter or reduce (not protections)
    Settings            \* who opens the journal and within which bounds

Commands == Places \cup Cancels
Clients == { Client[c] : c \in Places }

(* locked: hosts under the account's writer lock, or tools.  offered: the  *)
(* commands that are prepared, batched: also in batches.  rotateAt:        *)
(* COMMAND_JOURNAL_ROTATE_BYTES, in records.  The rest are bounds: orders  *)
(* that end, failing appends, failing rotations and processes that end.    *)
Setting ==
    [locked : BOOLEAN, offered : SUBSET Commands, batched : BOOLEAN, rotateAt : Nat \ {0},
     ending : SUBSET Places, failures : Nat, rotateFailures : Nat, crashes : Nat]

ASSUME JournalAssumption ==
    /\ Client \in [Places -> Clients] /\ Target \in [Cancels -> Clients]
    /\ Entries \subseteq Places /\ IsFiniteSet(Commands) /\ Places \cap Cancels = {}
    /\ \A s \in Settings : s \in Setting

VARIABLES
    setting,            \* never changes
    log,                \* the receipts in the segments and the active file
    base,               \* how many of them are in archived segments
    torn,               \* the file that ends inside a record, if one does
    hd,                 \* the handles
    calls,              \* commands a handle has Submitted and not yet sent
    answers,            \* commands sent, with the gateway's result
    ex,                 \* what the exchange made of a command, and of its order
    sent,               \* gateway calls for a command
    mark,               \* the WAL head an actor checkpoint is bound to
    failures, rotateFailures, crashes

vars == << setting, log, base, torn, hd, calls, answers, ex, sent, mark, failures, rotateFailures, crashes >>

States == {"prepared", "submitted", "accepted", "rejected", "unknown"}
Record == [seq : Nat, cmd : Commands, st : States]
Results == {"accepted", "rejected", "unknown"}

Closed == [phase |-> "closed"]
NoMark == [tail |-> 0, root |-> {}]

-----------------------------------------------------------------------------
(* States of a command.                                                    *)

Unresolved == {"prepared", "submitted", "unknown"}

AllowedTransition(s, t) ==
    << s, t >> \in { << "prepared", "submitted" >>, << "prepared", "rejected" >>,
                     << "submitted", "accepted" >>, << "submitted", "rejected" >>,
                     << "submitted", "unknown" >>,
                     << "unknown", "accepted" >>, << "unknown", "rejected" >> }

(* The last state a sequence of records gives a command.                   *)
LastState(s, c) ==
    LET of == { i \in DOMAIN s : s[i].cmd = c }
    IN IF of = {} THEN "none" ELSE s[CHOOSE i \in of : \A j \in of : j <= i].st

Firsts(s) == { i \in DOMAIN s : \A j \in 1..(i - 1) : s[j].cmd # s[i].cmd }

(* The native client ids among the commands that have a state.             *)
ClientsOf(st) == { Client[c] : c \in { p \in Places : st[p] # "none" } }

StatesOf(s) == [c \in Commands |-> LastState(s, c)]

(* The checks on the receipt of a command, given the states before it.     *)
Follows(st, c, s) ==
    IF st[c] # "none" THEN AllowedTransition(st[c], s)
    ELSE IF c \in Cancels THEN Target[c] \in ClientsOf(st)
    ELSE Client[c] \notin ClientsOf(st)

Accepted(s) ==
    \A i \in DOMAIN s :
        /\ s[i].seq = i
        /\ Follows(StatesOf(SubSeq(s, 1, i - 1)), s[i].cmd, s[i].st)

(* What open_segmented accepts: read_all, then the checks on each receipt. *)
Replays == torn = "none" /\ Accepted(log)

-----------------------------------------------------------------------------
(* What a handle keeps, and its query indexes.  The root of the WAL head   *)
(* is a hash chain over the commands and the numbers of their first        *)
(* receipts; the numbers only grow, so the set of the pairs tells it.      *)

Counts == [Clients -> Nat]

CountOf(st, states) ==
    [k \in Clients |-> Cardinality({ c \in Cancels : Target[c] = k /\ st[c] \in states })]

IndexOf(st) ==
    LET open == { c \in Commands : st[c] \in Unresolved }
    IN [unresolved |-> open, entries |-> Cardinality(open \cap Entries),
        cancelling |-> CountOf(st, Unresolved), cancelled |-> CountOf(st, {"accepted"})]

(* The WAL head of the first n receipts.                                   *)
Pairs(s, n) == { << i, s[i].cmd >> : i \in { j \in Firsts(s) : j <= n } }

(* open_segmented with rebuild_query_indexes: the handle of a fresh replay. *)
Rebuilt ==
    [phase |-> "fencing", st |-> StatesOf(log), next |-> Len(log) + 1, len |-> Len(log) - base,
     root |-> Pairs(log, Len(log)), index |-> IndexOf(StatesOf(log))]

Plus(f, c) == [f EXCEPT ![Target[c]] = @ + 1]
Minus(f, c) == [f EXCEPT ![Target[c]] = @ - 1]

(* Mutant: a command that stays unresolved is counted again.               *)
AddQueryIndexesTwice(x, c, s) ==
    LET new == s \in Unresolved
    IN [unresolved |-> IF new THEN x.unresolved \cup {c} ELSE x.unresolved,
        entries |-> IF new /\ c \in Entries THEN x.entries + 1 ELSE x.entries,
        cancelling |-> IF new /\ c \in Cancels THEN Plus(x.cancelling, c) ELSE x.cancelling,
        cancelled |-> IF s = "accepted" /\ c \in Cancels THEN Plus(x.cancelled, c) ELSE x.cancelled]

AddQueryIndexes(x, c, s) ==
    LET new == s \in Unresolved /\ c \notin x.unresolved
    IN [unresolved |-> IF new THEN x.unresolved \cup {c} ELSE x.unresolved,
        entries |-> IF new /\ c \in Entries THEN x.entries + 1 ELSE x.entries,
        cancelling |-> IF new /\ c \in Cancels THEN Plus(x.cancelling, c) ELSE x.cancelling,
        cancelled |-> IF s = "accepted" /\ c \in Cancels THEN Plus(x.cancelled, c) ELSE x.cancelled]

Without(x, c) ==
    [unresolved |-> x.unresolved \ {c},
     entries |-> IF c \in x.unresolved \cap Entries THEN x.entries - 1 ELSE x.entries,
     cancelling |-> IF c \in Cancels THEN Minus(x.cancelling, c) ELSE x.cancelling,
     cancelled |-> x.cancelled]

(* A command leaves the indexes when it is no longer unresolved.           *)
ReplaceQueryIndexes(x, old, c, s) ==
    AddQueryIndexes(IF old \in Unresolved /\ s \notin Unresolved THEN Without(x, c) ELSE x, c, s)

Indexed(h, c, s) ==
    IF h.st[c] = "none" THEN AddQueryIndexes(h.index, c, s)
    ELSE ReplaceQueryIndexes(h.index, h.st[c], c, s)

(* Mutant: every receipt extends the WAL head.                             *)
LearnsEach(h, c, s) ==
    [phase |-> h.phase, st |-> [h.st EXCEPT ![c] = s], next |-> h.next + 1, len |-> h.len + 1,
     root |-> h.root \cup {<< h.next, c >>}, index |-> Indexed(h, c, s)]

(* A handle after one more receipt of its own: the first of a command      *)
(* extends the WAL head, a later one replaces what was indexed.            *)
Learns(h, c, s) ==
    [phase |-> h.phase, st |-> [h.st EXCEPT ![c] = s], next |-> h.next + 1, len |-> h.len + 1,
     root |-> IF h.st[c] = "none" THEN h.root \cup {<< h.next, c >>} ELSE h.root,
     index |-> Indexed(h, c, s)]

(* One receipt after the other; two commands of a batch have four.         *)
LearnsAll(h, recs) ==
    LET Then(g, i) == IF i \in DOMAIN recs THEN Learns(g, recs[i].cmd, recs[i].st) ELSE g
    IN Then(Then(Then(Then(h, 1), 2), 3), 4)

-----------------------------------------------------------------------------
Init ==
    /\ setting \in Settings
    /\ log = << >> /\ base = 0 /\ torn = "none"
    /\ hd = [p \in Handles |-> Closed]
    /\ calls = [p \in Handles |-> {}]
    /\ answers = [p \in Handles |-> {}]
    /\ ex = [c \in Commands |-> "none"]
    /\ sent = [c \in Commands |-> 0]
    /\ mark = NoMark
    /\ failures = 0 /\ rotateFailures = 0 /\ crashes = 0

IsOpen(p) == hd[p].phase # "closed"
Ready(p) == hd[p].phase = "ready"
Idle(p) == Ready(p) /\ calls[p] = {} /\ answers[p] = {}

(* append_encoded finds the file as this handle left it.                   *)
Fresh(p) == torn # "active" /\ hd[p].len = Len(log) - base

Receipts(h, cs) == [i \in DOMAIN cs |-> [seq |-> h.next + i - 1, cmd |-> cs[i][1], st |-> cs[i][2]]]

(* append, append_batch: written, synced and learned.                      *)
Appends(p, cs) ==
    /\ Fresh(p)
    /\ log' = log \o Receipts(hd[p], cs)
    /\ hd' = [hd EXCEPT ![p] = LearnsAll(@, Receipts(hd[p], cs))]
    /\ UNCHANGED << base, torn, failures, rotateFailures >>

(* Or refused, or failed with whole records and perhaps a torn one behind. *)
AppendFails(p, cs) ==
    /\ \/ /\ ~ Fresh(p)
          /\ UNCHANGED << log, torn, failures >>
       \/ /\ Fresh(p)
          /\ failures < setting.failures
          /\ failures' = failures + 1
          /\ \E k \in 0..Len(cs) :
                /\ log' = log \o SubSeq(Receipts(hd[p], cs), 1, k)
                /\ torn' \in (IF k < Len(cs) THEN {torn, "active"} ELSE {torn})
    /\ UNCHANGED << base, rotateFailures >>

-----------------------------------------------------------------------------
(* Opening and recovery.                                                   *)

Free == ~ setting.locked \/ \A p \in Handles : ~ IsOpen(p)

Open(p) ==
    /\ ~ IsOpen(p)
    /\ Free
    /\ Replays
    /\ hd' = [hd EXCEPT ![p] = Rebuilt]
    /\ UNCHANGED << setting, log, base, torn, calls, answers, ex, sent, mark, failures, rotateFailures, crashes >>

(* fence_interrupted_dispatches, one transition after the other; a failing *)
(* one makes the caller give up.                                           *)
FenceInterrupted(p, c) ==
    /\ hd[p].phase = "fencing"
    /\ hd[p].st[c] \in {"prepared", "submitted"}
    /\ LET r == << << c, IF hd[p].st[c] = "prepared" THEN "rejected" ELSE "unknown" >> >>
       IN \/ Appends(p, r)
          \/ AppendFails(p, r) /\ hd' = [hd EXCEPT ![p] = Closed]
    /\ UNCHANGED << setting, calls, answers, ex, sent, mark, crashes >>

Fenced(p) ==
    /\ hd[p].phase = "fencing"
    /\ \A c \in Commands : hd[p].st[c] \notin {"prepared", "submitted"}
    /\ hd' = [hd EXCEPT ![p].phase = "ready"]
    /\ UNCHANGED << setting, log, base, torn, calls, answers, ex, sent, mark, failures, rotateFailures, crashes >>

(* The orders the exchange has taken, and those that are over.             *)
Taken == {"live", "cancelled", "ended"}
Terminal == {"cancelled", "ended", "refused"}

(* Mutant: a cancel is settled from its target before the target is over.  *)
SettledWhileWorking(c) ==
    { v \in {"accepted", "rejected"} :
        \/ c \in Places /\ ex[c] \in (IF v = "accepted" THEN Taken ELSE {"refused"})
        \/ c \in Cancels /\ \E q \in Places :
            Client[q] = Target[c] /\ ex[q] \in (IF v = "accepted" THEN Taken ELSE Terminal) }

(* What a readback by client id settles a command as: a place by its own   *)
(* order, a cancel by its target's, and only once that is over.  A target  *)
(* that filled, expired or was refused makes the cancel accepted with some *)
(* gateways and rejected with others (OKX and Hyperliquid: rejected).      *)
Settled(c) ==
    { v \in {"accepted", "rejected"} :
        \/ c \in Places /\ ex[c] \in (IF v = "accepted" THEN Taken ELSE {"refused"})
        \/ c \in Cancels /\ \E q \in Places :
            Client[q] = Target[c] /\ ex[q] \in (IF v = "accepted" THEN Terminal ELSE Terminal \ {"cancelled"}) }

(* A signed readback settles an unresolved command that is not under way,  *)
(* if the journal allows the transition: a cancel that was only Prepared   *)
(* can be rejected.                                                        *)
Reconcile(p, c) ==
    /\ Idle(p)
    /\ \E v \in Settled(c) :
        /\ AllowedTransition(hd[p].st[c], v)
        /\ \/ Appends(p, << << c, v >> >>)
           \/ AppendFails(p, << << c, v >> >>) /\ UNCHANGED hd
    /\ UNCHANGED << setting, calls, answers, ex, sent, mark, crashes >>

-----------------------------------------------------------------------------
(* Preparing.                                                              *)

(* Mutant: a native client id may be used twice.                           *)
AdmissibleAgain(h, c) ==
    /\ c \in setting.offered /\ h.st[c] = "none"
    /\ c \in Cancels => Target[c] \in ClientsOf(h.st)

(* The checks of prepare and of the batches on a command that is new.      *)
Admissible(h, c) ==
    /\ c \in setting.offered /\ h.st[c] = "none"
    /\ IF c \in Cancels THEN Target[c] \in ClientsOf(h.st) ELSE Client[c] \notin ClientsOf(h.st)

Prepare(p, c) ==
    /\ Idle(p)
    /\ Admissible(hd[p], c)
    /\ \/ Appends(p, << << c, "prepared" >> >>)
       \/ AppendFails(p, << << c, "prepared" >> >>) /\ UNCHANGED hd
    /\ UNCHANGED << setting, calls, answers, ex, sent, mark, crashes >>

(* Two commands of one batch: staged ids are checked among themselves, a   *)
(* cancel only against what was journaled before.                          *)
Batchable(p, c, d) ==
    /\ setting.batched
    /\ c # d
    /\ Admissible(hd[p], c) /\ Admissible(hd[p], d)
    /\ (c \in Places /\ d \in Places) => Client[c] # Client[d]

PrepareBatch(p, c, d) ==
    /\ Idle(p)
    /\ Batchable(p, c, d)
    /\ LET r == << << c, "prepared" >>, << d, "prepared" >> >>
       IN \/ Appends(p, r)
          \/ AppendFails(p, r) /\ UNCHANGED hd
    /\ UNCHANGED << setting, calls, answers, ex, sent, mark, crashes >>

(* Mutant: the batch goes out although it could not be written.            *)
PrepareSubmittedBatchUnwritten(p, c, d) ==
    /\ Idle(p)
    /\ Batchable(p, c, d)
    /\ LET r == << << c, "prepared" >>, << c, "submitted" >>,
                   << d, "prepared" >>, << d, "submitted" >> >>
       IN \/ Appends(p, r)
          \/ AppendFails(p, r) /\ UNCHANGED hd
    /\ calls' = [calls EXCEPT ![p] = {c, d}]
    /\ UNCHANGED << setting, answers, ex, sent, mark, crashes >>

PrepareSubmittedBatch(p, c, d) ==
    /\ Idle(p)
    /\ Batchable(p, c, d)
    /\ LET r == << << c, "prepared" >>, << c, "submitted" >>,
                   << d, "prepared" >>, << d, "submitted" >> >>
       IN \/ Appends(p, r) /\ calls' = [calls EXCEPT ![p] = {c, d}]
          \/ AppendFails(p, r) /\ UNCHANGED << hd, calls >>
    /\ UNCHANGED << setting, answers, ex, sent, mark, crashes >>

-----------------------------------------------------------------------------
(* Dispatch.                                                               *)

(* transition to Submitted, after which the gateway is called.             *)
Submit(p, c) ==
    /\ Idle(p)
    /\ hd[p].st[c] = "prepared"
    /\ \/ Appends(p, << << c, "submitted" >> >>) /\ calls' = [calls EXCEPT ![p] = {c}]
       \/ AppendFails(p, << << c, "submitted" >> >>) /\ UNCHANGED << hd, calls >>
    /\ UNCHANGED << setting, answers, ex, sent, mark, crashes >>

(* A Prepared command that is not to be sent.                              *)
Withdraw(p, c) ==
    /\ Idle(p)
    /\ hd[p].st[c] = "prepared"
    /\ \/ Appends(p, << << c, "rejected" >> >>)
       \/ AppendFails(p, << << c, "rejected" >> >>) /\ UNCHANGED hd
    /\ UNCHANGED << setting, calls, answers, ex, sent, mark, crashes >>

(* An order of a client id that works at the exchange.                     *)
Working(k) == \E q \in Places : Client[q] = k /\ ex[q] = "live"

(* The gateway: the exchange takes, refuses or never sees the request, and *)
(* its answer may be lost.  It takes a cancel of an order that works.      *)
Call(p, c) ==
    /\ c \in calls[p]
    /\ calls' = [calls EXCEPT ![p] = @ \ {c}]
    /\ sent' = [sent EXCEPT ![c] = @ + 1]
    /\ \E o \in {"none", "live", "refused"} :
        /\ (o = "live" /\ c \in Cancels) => Working(Target[c])
        /\ ex' = [ex EXCEPT ![c] = IF @ = "none" THEN o ELSE @]
        /\ \E r \in {"unknown"} \cup (IF o = "live" THEN {"accepted"} ELSE {})
                                \cup (IF o = "refused" THEN {"rejected"} ELSE {}) :
            answers' = [answers EXCEPT ![p] = @ \cup {<< c, r >>}]
    /\ UNCHANGED << setting, log, base, torn, hd, mark, failures, rotateFailures, crashes >>

(* An order is cancelled, whoever asked for it, or it fills or expires.    *)
OrderEnds(c) ==
    /\ c \in setting.ending /\ ex[c] = "live"
    /\ \E e \in {"cancelled", "ended"} : ex' = [ex EXCEPT ![c] = e]
    /\ UNCHANGED << setting, log, base, torn, hd, calls, answers, sent, mark, failures, rotateFailures, crashes >>

(* The result is recorded.                                                 *)
Verdict(p, a) ==
    /\ a \in answers[p]
    /\ answers' = [answers EXCEPT ![p] = @ \ {a}]
    /\ \/ Appends(p, << a >>)
       \/ AppendFails(p, << a >>) /\ UNCHANGED hd
    /\ UNCHANGED << setting, calls, ex, sent, mark, crashes >>

-----------------------------------------------------------------------------
(* Segments, checkpoints and the ends of processes.                        *)

(* rotate_if_clean_and_due, rotate_active.  A failure after the rename     *)
(* leaves a handle that no longer fits the file.                           *)
Rotate(p) ==
    /\ setting.locked /\ Idle(p)
    /\ Len(log) - base >= setting.rotateAt
    /\ hd[p].index.unresolved = {}
    /\ base' = Len(log)
    /\ torn' = IF torn = "active" THEN "archived" ELSE torn
    /\ \/ hd' = [hd EXCEPT ![p].len = 0] /\ UNCHANGED rotateFailures
       \/ /\ rotateFailures < setting.rotateFailures
          /\ rotateFailures' = rotateFailures + 1
          /\ UNCHANGED hd
    /\ UNCHANGED << setting, log, calls, answers, ex, sent, mark, failures, crashes >>

(* durable_wal_head, stored in an actor checkpoint.                        *)
Checkpoint(p) ==
    /\ Ready(p)
    /\ mark' = [tail |-> hd[p].next - 1, root |-> hd[p].root]
    /\ UNCHANGED << setting, log, base, torn, hd, calls, answers, ex, sent, failures, rotateFailures, crashes >>

(* The process ends, by itself or not.                                     *)
Close(p) ==
    /\ IsOpen(p)
    /\ crashes < setting.crashes
    /\ crashes' = crashes + 1
    /\ hd' = [hd EXCEPT ![p] = Closed]
    /\ calls' = [calls EXCEPT ![p] = {}]
    /\ answers' = [answers EXCEPT ![p] = {}]
    /\ UNCHANGED << setting, log, base, torn, ex, sent, mark, failures, rotateFailures >>

Next ==
    \/ \E c \in Commands : OrderEnds(c)
    \/ \E p \in Handles :
        \/ Open(p) \/ Fenced(p) \/ Rotate(p) \/ Checkpoint(p) \/ Close(p)
        \/ \E a \in answers[p] : Verdict(p, a)
        \/ \E c \in Commands :
            \/ FenceInterrupted(p, c) \/ Reconcile(p, c) \/ Prepare(p, c)
            \/ Submit(p, c) \/ Withdraw(p, c) \/ Call(p, c)
            \/ \E d \in Commands : PrepareBatch(p, c, d) \/ PrepareSubmittedBatch(p, c, d)

Spec == Init /\ [][Next]_vars

-----------------------------------------------------------------------------
(* Properties.                                                             *)

IndexType ==
    [unresolved : SUBSET Commands, entries : Nat, cancelling : Counts, cancelled : Counts]

HandleType ==
    [phase : {"fencing", "ready"}, st : [Commands -> States \cup {"none"}], next : Nat, len : Nat,
     root : SUBSET (Nat \X Commands), index : IndexType]

TypeOK ==
    /\ setting \in Settings
    /\ log \in Seq(Record) /\ base \in 0..Len(log) /\ torn \in {"none", "active", "archived"}
    /\ hd \in [Handles -> HandleType \cup {Closed}]
    /\ calls \in [Handles -> SUBSET Commands]
    /\ answers \in [Handles -> SUBSET (Commands \X Results)]
    /\ ex \in [Commands -> {"none", "refused"} \cup Taken]
    /\ sent \in [Commands -> Nat]
    /\ mark \in [tail : Nat, root : SUBSET (Nat \X Commands)]
    /\ failures \in Nat /\ rotateFailures \in Nat /\ crashes \in Nat

(* Whatever the handles do and whichever appends fail, the file stays one  *)
(* that open_segmented accepts, until a record is torn.                    *)
AlwaysReplays == torn = "none" => Replays

(* A handle that can still append knows exactly what a fresh replay would  *)
(* tell it: states, sequence, WAL head and every query index, which it has *)
(* kept by increments.                                                     *)
HandleExact ==
    \A p \in Handles : (IsOpen(p) /\ Fresh(p)) => [hd[p] EXCEPT !.phase = "fencing"] = Rebuilt

(* validates_historical_wal_head of a checkpoint's head by every handle    *)
(* that replays the file later: the history it was taken on has not been   *)
(* replaced.                                                               *)
MarkStaysValid ==
    \A p \in Handles : (IsOpen(p) /\ Fresh(p)) =>
        /\ mark.tail < hd[p].next
        /\ { e \in hd[p].root : e[1] <= mark.tail } = mark.root

(* A mutation leaves only after its Submitted record is in the file, and   *)
(* only once; so "recovery_proved_never_dispatched" is a proof, and no     *)
(* restart or second process sends again.                                  *)
WriteAhead ==
    \A c \in Commands :
        /\ sent[c] <= 1
        /\ sent[c] > 0 => \E i \in DOMAIN log : log[i].cmd = c /\ log[i].st = "submitted"

Over(k) == \E q \in Places : Client[q] = k /\ ex[q] \in Terminal

Backed(c, s) ==
    /\ s = "accepted" => ex[c] \in Taken \/ (c \in Cancels /\ Over(Target[c]))
    /\ s = "rejected" => ex[c] \notin Taken \/ (c \in Cancels /\ Over(Target[c]))

(* The journal never tells an outcome that the exchange did not produce: a *)
(* place was taken or was not; a cancel that is accepted was taken or its  *)
(* target is over, also when the cancel itself was lost or refused, and    *)
(* one that is rejected was not taken or its target is over.  So no target *)
(* works on behind a cancel that the exchange never took and that the      *)
(* journal calls accepted.                                                 *)
TellsTruth == \A c \in Commands : Backed(c, LastState(log, c))

-----------------------------------------------------------------------------
(* The inductive invariant.                                                *)

(* No file has been archived after a failing append: what a handle missed  *)
(* is then not hidden by a new length.                                     *)
Unforked == failures = 0 \/ base = 0

Written(c) == \E i \in DOMAIN log : log[i].cmd = c /\ log[i].st = "submitted"

(* The file has what a host could not finish writing and never sent.       *)
Missed(s, h, c) ==
    /\ setting.locked
    /\ h.st[c] = "none" /\ LastState(s, c) \in {"prepared", "submitted"}
    /\ sent[c] = 0

Near(s, h) == \A c \in Commands : h.st[c] = LastState(s, c) \/ Missed(s, h, c)

FilesSound ==
    /\ ~ setting.locked => base = 0
    /\ Unforked => Accepted(log)

(* What every handle keeps, whether or not it fits the file: indexes that  *)
(* agree with its states, and the head of a prefix of the file.            *)
HandlesSound ==
    \A p \in Handles : IsOpen(p) =>
        /\ hd[p].index = IndexOf(hd[p].st)
        /\ hd[p].next >= 1
        /\ setting.locked => \A q \in Handles : IsOpen(q) => q = p
        /\ ~ setting.locked => hd[p].len <= Len(log)
        /\ Unforked => /\ hd[p].next <= Len(log) + 1
                       /\ hd[p].root = Pairs(log, hd[p].next - 1)

(* What a handle knows of the file.  A host without a failed append fits   *)
(* it even when a rotation failed; after one, it may have missed commands  *)
(* it has not sent, and its own unresolved ones may have got further.      *)
KnowledgeSound ==
    \A p \in Handles : IsOpen(p) =>
        /\ (Unforked /\ (Fresh(p) \/ (setting.locked /\ failures = 0))) =>
            hd[p].st = StatesOf(log) /\ hd[p].next = Len(log) + 1
        /\ Fresh(p) => Near(log, hd[p])
        /\ setting.locked => \A c \in Commands :
            hd[p].st[c] = LastState(log, c) \/ Missed(log, hd[p], c) \/ hd[p].st[c] \in Unresolved

MarkSound == Unforked => mark.tail <= Len(log) /\ mark.root = Pairs(log, mark.tail)

SendsSound ==
    \A c \in Commands :
        /\ sent[c] = 0 => ex[c] = "none"
        /\ sent[c] > 0 => LastState(log, c) \notin {"none", "prepared"}

OnlyReadySend == \A p \in Handles : ~ Ready(p) => calls[p] = {} /\ answers[p] = {}

(* What other processes may have recorded of a command that is not yet     *)
(* sent: no outcome, unless it is a cancel whose target is over.           *)
Pending(c, s) ==
    \/ s \in {"submitted", "unknown"}
    \/ s \in {"accepted", "rejected"} /\ c \in Cancels /\ Over(Target[c])

(* Submitted and not yet sent, and nobody else is about to send it.        *)
CallsSound ==
    \A p \in Handles : \A c \in calls[p] :
        /\ hd[p].st[c] = "submitted" /\ Written(c)
        /\ Pending(c, LastState(log, c))
        /\ sent[c] = 0
        /\ \A q \in Handles : c \in calls[q] => q = p

AnswersSound ==
    \A p \in Handles : \A a \in answers[p] :
        /\ hd[p].st[a[1]] = "submitted" /\ sent[a[1]] = 1
        /\ a[1] \notin calls[p]
        /\ a[2] = "accepted" => ex[a[1]] \in Taken
        /\ a[2] = "rejected" => ex[a[1]] = "refused"
        /\ \A b \in answers[p] : b[1] = a[1] => b = a

JournalInv ==
    /\ TypeOK
    /\ FilesSound
    /\ HandlesSound
    /\ KnowledgeSound
    /\ MarkSound
    /\ SendsSound
    /\ OnlyReadySend
    /\ CallsSound
    /\ AnswersSound
    /\ WriteAhead
    /\ TellsTruth

=============================================================================
