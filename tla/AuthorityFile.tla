---------------------------- MODULE AuthorityFile ----------------------------
(***************************************************************************)
(* How the writer authority of WriterLease is kept on disk: persist_state  *)
(* writes a new state through three files (the authority itself, .backup   *)
(* and .next), one system call at a time, under the OS lock; read_recovered*)
(* takes the newest of them that decodes.  The process may die, or a call  *)
(* fail, between any two of these steps; a file that is being written is   *)
(* torn and does not decode.                                               *)
(*                                                                         *)
(* Of a state only its revision and the operation that made it are kept.   *)
(***************************************************************************)
EXTENDS Integers

CONSTANTS
    MaxOps,             \* bound: operations explored
    MaxFailures         \* bound: crashes and failing calls explored

ASSUME FileAssumption ==
    MaxOps \in Nat /\ MaxFailures \in Nat

VARIABLES
    main, backup, next, \* the files
    pc,                 \* the step of persist_state; the lock is held unless idle
    new,                \* the state that is being persisted
    acked,              \* the last revision whose persist_state returned Ok
    seen,               \* the newest revision an operation has worked on
    copied,             \* history: a rename has failed and was replaced by a copy
    ops, failures       \* bound counters

files == << main, backup, next >>
fileVars == << files, pc, new, acked, seen, copied, ops, failures >>

Absent == [kind |-> "absent", rev |-> 0, op |-> 0]
Torn == [kind |-> "torn", rev |-> 0, op |-> 0]
State(r, k) == [kind |-> "state", rev |-> r, op |-> k]

Files == [kind : {"absent", "torn", "state"}, rev : Nat, op : Nat]
Steps == {"idle", "next_torn", "next_done", "backup_torn", "backup_old", "main_torn",
          "main_copied", "main_done", "backup_last"}

FileTypeOK ==
    /\ main \in Files /\ backup \in Files /\ next \in Files /\ new \in Files
    /\ pc \in Steps
    /\ copied \in BOOLEAN
    /\ acked \in Nat /\ seen \in Nat /\ ops \in Nat /\ failures \in Nat

FileInit ==
    /\ main = Absent /\ backup = Absent /\ next = Absent
    /\ pc = "idle" /\ new = Absent
    /\ copied = FALSE /\ acked = 0 /\ seen = 0 /\ ops = 0 /\ failures = 0

-----------------------------------------------------------------------------
(* read_recovered: the candidates that decode, the newest of them.         *)
Decoded == { f \in {main, backup, next} : f.kind = "state" }
Newest == { f \in Decoded : \A g \in Decoded : g.rev <= f.rev }

(* CorruptAuthority: something is there, but nothing decodes or the newest *)
(* disagree.                                                               *)
NeverWritten == main = Absent /\ backup = Absent /\ next = Absent
Corrupt == ~ NeverWritten /\ (Newest = {} \/ \E f, g \in Newest : f # g)

Recovered == IF Newest = {} THEN Absent ELSE CHOOSE f \in Newest : TRUE

(* Mutant: the authority is written in place.                              *)
BeginInPlace ==
    /\ pc = "idle" /\ ~ Corrupt
    /\ ops < MaxOps
    /\ ops' = ops + 1
    /\ seen' = IF Recovered.rev > seen THEN Recovered.rev ELSE seen
    /\ new' = State(Recovered.rev + 1, ops + 1)
    /\ main' = Torn
    /\ pc' = "main_done"
    /\ UNCHANGED << backup, next, acked, copied, failures >>

(* An operation under the lock: it works on what it recovers and persists  *)
(* the next revision, beginning with the truncation of .next.              *)
Begin ==
    /\ pc = "idle" /\ ~ Corrupt
    /\ ops < MaxOps
    /\ ops' = ops + 1
    /\ seen' = IF Recovered.rev > seen THEN Recovered.rev ELSE seen
    /\ new' = State(Recovered.rev + 1, ops + 1)
    /\ next' = Torn
    /\ pc' = "next_torn"
    /\ UNCHANGED << main, backup, acked, copied, failures >>

(* A guard or a reader works on the recovered state and persists nothing.  *)
Use ==
    /\ pc = "idle" /\ ~ Corrupt
    /\ Recovered.rev > seen
    /\ seen' = Recovered.rev
    /\ UNCHANGED << files, pc, new, acked, copied, ops, failures >>

Goes(from, to) ==
    /\ pc = from /\ pc' = to
    /\ UNCHANGED << new, acked, seen, ops, failures >>

(* write_synced of .next.                                                  *)
WriteNext ==
    /\ Goes("next_torn", "next_done")
    /\ next' = new
    /\ UNCHANGED << main, backup, copied >>

(* Mutant: .next beside a backup is taken for durable.                     *)
CopyBackupReturns ==
    \/ /\ main # Absent
       /\ Goes("next_done", "backup_torn")
       /\ backup' = Torn
       /\ UNCHANGED << main, next, copied >>
    \/ /\ pc = "backup_torn" /\ pc' = "idle"
       /\ backup' = main
       /\ acked' = new.rev
       /\ seen' = IF new.rev > seen THEN new.rev ELSE seen
       /\ UNCHANGED << main, next, new, copied, ops, failures >>

(* fs::copy of the authority over .backup, if there is one.                *)
CopyBackup ==
    \/ /\ main # Absent
       /\ Goes("next_done", "backup_torn")
       /\ backup' = Torn
       /\ UNCHANGED << main, next, copied >>
    \/ /\ Goes("backup_torn", "backup_old")
       /\ backup' = main
       /\ UNCHANGED << main, next, copied >>

(* fs::rename, or the copy and the removal that replace it.                *)
Renames == pc = "backup_old" \/ (pc = "next_done" /\ main = Absent)

Rename ==
    /\ Renames
    /\ Goes(pc, "main_done")
    /\ main' = next
    /\ next' = Absent
    /\ UNCHANGED << backup, copied >>

CopyMain ==
    /\ copied' = TRUE
    /\ \/ Renames /\ Goes(pc, "main_torn") /\ main' = Torn /\ next' = next
       \/ Goes("main_torn", "main_copied") /\ main' = next /\ next' = next
       \/ Goes("main_copied", "main_done") /\ main' = main /\ next' = Absent
    /\ UNCHANGED backup

(* write_synced of .backup with the new state.                             *)
TearBackup ==
    /\ Goes("main_done", "backup_last")
    /\ backup' = Torn
    /\ UNCHANGED << main, next, copied >>

(* The last write, after which persist_state returns Ok.                   *)
WriteBackup ==
    /\ pc = "backup_last" /\ pc' = "idle"
    /\ backup' = new
    /\ acked' = new.rev
    /\ seen' = IF new.rev > seen THEN new.rev ELSE seen
    /\ UNCHANGED << main, next, new, copied, ops, failures >>

(* The process dies or a call fails: the files stay, the lock is free.     *)
Fail ==
    /\ pc # "idle"
    /\ failures < MaxFailures
    /\ failures' = failures + 1
    /\ pc' = "idle"
    /\ UNCHANGED << files, new, acked, seen, copied, ops >>

FileNext ==
    \/ Begin \/ Use
    \/ WriteNext \/ CopyBackup \/ Rename \/ CopyMain \/ TearBackup \/ WriteBackup
    \/ Fail

FileSpec == FileInit /\ [][FileNext]_fileVars

-----------------------------------------------------------------------------
(* Properties.                                                             *)

(* What persist_state has confirmed can be recovered ever after, it or a   *)
(* successor, whatever fails afterwards and however often, as long as no   *)
(* rename had to be replaced by a copy.                                    *)
AckedDurable == (~ copied /\ acked > 0) => (~ Corrupt /\ Recovered.rev >= acked)

(* writer_lease.rs 39 and 451: a receipt "may be consumed exactly once" and *)
(* a handoff "permanently fences" the predecessor.  Both rest on this: when *)
(* the lock is free, no state older than one that an operation or a guard  *)
(* has already worked on is recovered.  A single failure, also of a rename,*)
(* leaves it intact; a second one may truncate the only copy (in .next).   *)
NeverRollsBack ==
    (failures <= 1 /\ pc = "idle") => (Corrupt \/ Recovered.rev >= seen)

(* The files never disagree about a revision.                              *)
OneStatePerRevision ==
    ~ copied => \A f, g \in Decoded : f.rev = g.rev => f = g

-----------------------------------------------------------------------------
(* The inductive invariant behind AckedDurable until a rename has failed:   *)
(* the authority itself is never torn and holds what was confirmed, .backup*)
(* is not newer than it, .next is newer.                                   *)
Ordered ==
    /\ main = Absent \/ main.kind = "state"
    /\ main = Absent => backup = Absent
    /\ backup.kind = "state" => backup.rev <= main.rev /\ (backup.rev = main.rev => backup = main)
    /\ next.kind = "state" => next.rev > main.rev
    /\ acked > 0 => main.kind = "state" /\ main.rev >= acked

Underway ==
    /\ pc # "idle" => new.kind = "state"
    /\ pc \in {"next_torn", "next_done", "backup_torn", "backup_old"} => new.rev > main.rev
    /\ pc \in {"next_done", "backup_torn", "backup_old"} => next = new
    /\ pc \in {"backup_torn", "backup_old"} => main.kind = "state"
    /\ pc \in {"main_done", "backup_last"} => main = new
    /\ pc \notin {"main_torn", "main_copied"}

FileInv == copied = FALSE /\ FileTypeOK /\ Ordered /\ Underway

(* The inductive invariant behind NeverRollsBack.  Until the first failure  *)
(* what was worked on stays in the authority itself until the new state is  *)
(* in .next or in its place; after it, each operation that ends leaves its  *)
(* own state, which is newer, and one that does not end is a second failure.*)
HoldsSeen == seen = 0 \/ \E f \in Decoded : f.rev >= seen

Unfailed ==
    /\ pc \in {"idle", "main_done", "backup_last"} => next = Absent
    /\ pc = "idle" => backup = main
    /\ pc \in {"idle", "next_torn", "next_done", "backup_torn", "backup_old"} =>
        seen = 0 \/ (main.kind = "state" /\ main.rev >= seen)

OnceFailed ==
    /\ pc = "idle" => HoldsSeen
    /\ pc # "idle" => new.kind = "state" /\ new.rev > seen
    /\ pc \in {"next_done", "backup_torn", "backup_old", "main_torn", "main_copied"} => next = new
    /\ pc \in {"main_copied", "main_done", "backup_last"} => main = new
    /\ failures = 0 => Unfailed

SeenInv == FileTypeOK /\ (failures <= 1 => OnceFailed)

=============================================================================
