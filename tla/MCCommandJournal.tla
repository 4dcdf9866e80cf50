--------------------------- MODULE MCCommandJournal ---------------------------
(* The command journal on a few commands.                                  *)
EXTENDS CommandJournal, TLC

CONSTANTS p1, p2, e1, e2, s1, k1, c1, c2

(* An entry and a protection under one client id, another entry, a cancel. *)
MCClient == [x \in Places |-> IF x = e2 THEN c2 ELSE c1]
MCTarget == [x \in Cancels |-> c1]

(* Two processes without a lock on one file.                               *)
Tools == [locked |-> FALSE, offered |-> {e1, k1}, batched |-> FALSE, rotateAt |-> 20,
          ending |-> {}, failures |-> 1, rotateFailures |-> 0, crashes |-> 1]

(* The same while orders end: a process settles a cancel that another one  *)
(* has not sent yet.                                                       *)
Ending == [Tools EXCEPT !.ending = {e1}, !.failures = 0]

(* A host that fills segments.                                             *)
Segments == [locked |-> TRUE, offered |-> {e1, s1, k1}, batched |-> FALSE, rotateAt |-> 2,
             ending |-> {e1}, failures |-> 0, rotateFailures |-> 1, crashes |-> 2]

(* A host that writes batches and does not reach the end of a segment.     *)
Batching == [locked |-> TRUE, offered |-> {e1, e2}, batched |-> TRUE, rotateAt |-> 20,
             ending |-> {}, failures |-> 1, rotateFailures |-> 0, crashes |-> 1]

MCSettings == {Tools, Ending, Segments, Batching}

(* A host whose append fails after it has been written, and rotates later. *)
MCFailing == {[Segments EXCEPT !.offered = {e1, e2}, !.failures = 1, !.rotateFailures = 0]}

MCSymmetry == Permutations(Handles)

=============================================================================
