-------------------------- MODULE CommandJournalProofs --------------------------
(***************************************************************************)
(* Proofs about the command WAL.  JournalInv is inductive: what is in the  *)
(* file, what every handle keeps of it, what a handle may have missed, and *)
(* which commands are under way.  A write is proved receipt by receipt     *)
(* (Reached), then for the append that succeeds and the one that fails;    *)
(* every operation of a handle is one of those writes or leaves the file   *)
(* as it is.                                                               *)
(***************************************************************************)
EXTENDS CommandJournal, FiniteSetTheorems, WellFoundedInduction, TLAPS

-----------------------------------------------------------------------------
(* What a sequence of receipts says of a command.                          *)

(* A nonempty set of positions has a last one.                             *)
LEMMA Greatest ==
  ASSUME NEW n \in Nat, NEW T, T \subseteq 1..n, T # {}
  PROVE  \E i \in T : \A j \in T : j <= i
<1> DEFINE R == OpToRel(<, Nat)
           U == { m \in Nat : \A j \in T : j <= m }
<1>1. IsWellFoundedOn(R, Nat)
  BY NatLessThanWellFounded
<1>2. \A x, y \in Nat : y < x => << y, x >> \in R
  BY DEF OpToRel
<1>3. U \subseteq Nat /\ n \in U
  OBVIOUS
<1> HIDE DEF R
<1>4. PICK m \in U : \A y \in U : ~(<< y, m >> \in R)
  BY <1>1, <1>3, WFMin, Zenon
<1>5. m \in T
  <2> SUFFICES ASSUME m \notin T PROVE FALSE
    OBVIOUS
  <2>1. \A j \in T : j \in Nat /\ j >= 1 /\ j < m
    OBVIOUS
  <2>2. PICK k \in T : TRUE
    OBVIOUS
  <2>3. m \in Nat /\ m > k /\ k \in Nat /\ k >= 1
    BY <2>1, <2>2
  <2>4. m - 1 \in Nat /\ m - 1 < m
    BY <2>3
  <2>5. \A j \in T : j <= m - 1
    BY <2>1, <2>3
  <2> QED
    BY <1>2, <1>4, <2>3, <2>4, <2>5
<1> QED
  BY <1>5

(* The last state is that of the last receipt, or none.                    *)
LEMMA LastReceipt ==
  ASSUME NEW s \in Seq(Record), NEW c
  PROVE  \/ /\ LastState(s, c) = "none"
            /\ \A i \in DOMAIN s : s[i].cmd # c
         \/ /\ LastState(s, c) \in States
            /\ \E i \in DOMAIN s : /\ s[i].cmd = c /\ LastState(s, c) = s[i].st
                                   /\ \A j \in DOMAIN s : s[j].cmd = c => j <= i
<1> DEFINE of == { i \in DOMAIN s : s[i].cmd = c }
<1>1. LastState(s, c) = IF of = {} THEN "none"
                        ELSE s[CHOOSE i \in of : \A j \in of : j <= i].st
  BY DEF LastState
<1>2. CASE of = {}
  BY <1>1, <1>2
<1>3. CASE of # {}
  <2>1. Len(s) \in Nat /\ of \subseteq 1..Len(s)
    OBVIOUS
  <2>2. \E i \in of : \A j \in of : j <= i
    BY <1>3, <2>1, Greatest
  <2> DEFINE i == CHOOSE k \in of : \A j \in of : j <= k
  <2>3. i \in of /\ \A j \in of : j <= i
    BY <2>2
  <2>4. s[i] \in Record
    BY <2>3
  <2>5. s[i].st \in States
    BY <2>4 DEF Record
  <2> QED
    BY <1>1, <1>3, <2>3, <2>5
<1> QED
  BY <1>2, <1>3

(* One more receipt changes the state of its command and of no other.      *)
LEMMA LastOfAppend ==
  ASSUME NEW s \in Seq(Record), NEW r \in Record, NEW c
  PROVE  LastState(Append(s, r), c) = IF r.cmd = c THEN r.st ELSE LastState(s, c)
<1> DEFINE t == Append(s, r)
           n == Len(s) + 1
<1>1. /\ t \in Seq(Record) /\ Len(t) = n /\ t[n] = r
      /\ \A i \in DOMAIN s : i \in DOMAIN t /\ t[i] = s[i] /\ i < n
      /\ \A i \in DOMAIN t : i = n \/ (i \in DOMAIN s /\ i < n)
      /\ n \in DOMAIN t /\ n \notin DOMAIN s
  OBVIOUS
<1> HIDE DEF t, n
<1>2. "none" \notin States
  BY DEF States
<1>3. \A i, j \in DOMAIN s : i <= j /\ j <= i => i = j
  OBVIOUS
<1>4. DOMAIN s \subseteq Int /\ DOMAIN t \subseteq Int
  BY <1>1
<1>5. CASE r.cmd = c
  <2>1. PICK i \in DOMAIN t : /\ t[i].cmd = c /\ LastState(t, c) = t[i].st
                              /\ \A j \in DOMAIN t : t[j].cmd = c => j <= i
    BY <1>1, <1>5, LastReceipt
  <2>2. n <= i
    BY <1>1, <1>5, <2>1
  <2>3. i = n
    BY <1>1, <1>4, <2>2
  <2> QED
    BY <1>1, <1>5, <2>1, <2>3 DEF t
<1>6. CASE r.cmd # c
  <2>1. CASE LastState(s, c) = "none"
    <3>1. \A i \in DOMAIN s : s[i].cmd # c
      BY <1>2, <2>1, LastReceipt
    <3>2. \A i \in DOMAIN t : t[i].cmd # c
      BY <1>1, <1>6, <3>1
    <3>3. LastState(t, c) = "none"
      BY <1>1, <3>2, LastReceipt
    <3> QED
      BY <1>6, <2>1, <3>3 DEF t
  <2>2. CASE LastState(s, c) # "none"
    <3>1. PICK i \in DOMAIN s : /\ s[i].cmd = c /\ LastState(s, c) = s[i].st
                                /\ \A j \in DOMAIN s : s[j].cmd = c => j <= i
      BY <2>2, LastReceipt
    <3>5. ~(\A j \in DOMAIN t : t[j].cmd # c)
      BY <1>1, <3>1
    <3>2. PICK k \in DOMAIN t : /\ t[k].cmd = c /\ LastState(t, c) = t[k].st
                                /\ \A j \in DOMAIN t : t[j].cmd = c => j <= k
      BY <1>1, <3>5, LastReceipt
    <3>3. k \in DOMAIN s /\ s[k].cmd = c /\ i \in DOMAIN t /\ t[i].cmd = c
      BY <1>1, <1>6, <3>1, <3>2
    <3>4. i = k
      BY <1>3, <3>1, <3>2, <3>3
    <3> QED
      BY <1>1, <1>6, <3>1, <3>2, <3>4 DEF t
  <2> QED
    BY <2>1, <2>2
<1> QED
  BY <1>5, <1>6

(* The receipts before a position do not change when one is appended.      *)
LEMMA PrefixOfAppend ==
  ASSUME NEW s \in Seq(Record), NEW r \in Record, NEW k \in 0..Len(s)
  PROVE  /\ SubSeq(Append(s, r), 1, k) = SubSeq(s, 1, k)
         /\ SubSeq(s, 1, k) \in Seq(Record)
         /\ SubSeq(s, 1, Len(s)) = s
<1>1. \A i \in 1..k : Append(s, r)[i] = s[i]
  OBVIOUS
<1>2. SubSeq(Append(s, r), 1, k) = [i \in 1..k |-> Append(s, r)[i]]
  OBVIOUS
<1>3. SubSeq(s, 1, k) = [i \in 1..k |-> s[i]]
  OBVIOUS
<1>4. [i \in 1..k |-> Append(s, r)[i]] = [i \in 1..k |-> s[i]]
  BY <1>1
<1>5. SubSeq(s, 1, k) \in Seq(Record)
  OBVIOUS
<1>6. SubSeq(s, 1, Len(s)) = s
  OBVIOUS
<1> QED
  BY <1>2, <1>3, <1>4, <1>5, <1>6

(* read_all accepts one more receipt that has the next number and follows  *)
(* from the states before it.                                              *)
LEMMA AcceptedAppend ==
  ASSUME NEW s \in Seq(Record), NEW r \in Record,
         Accepted(s), r.seq = Len(s) + 1, Follows(StatesOf(s), r.cmd, r.st)
  PROVE  Accepted(Append(s, r))
<1> DEFINE t == Append(s, r)
           n == Len(s) + 1
<1>1. /\ t \in Seq(Record) /\ n \in Nat /\ t[n] = r /\ n - 1 = Len(s)
      /\ \A i \in DOMAIN s : t[i] = s[i] /\ i - 1 \in 0..Len(s)
      /\ \A i \in DOMAIN t : i = n \/ i \in DOMAIN s
      /\ Len(s) \in 0..Len(s)
  OBVIOUS
<1>2. \A k \in 0..Len(s) : SubSeq(t, 1, k) = SubSeq(s, 1, k)
  BY PrefixOfAppend
<1>3. SubSeq(s, 1, Len(s)) = s
  OBVIOUS
<1> HIDE DEF t, n
<1>4. ASSUME NEW i \in DOMAIN t
      PROVE  t[i].seq = i /\ Follows(StatesOf(SubSeq(t, 1, i - 1)), t[i].cmd, t[i].st)
  <2>1. CASE i = n
    <3>1. SubSeq(t, 1, i - 1) = s
      BY <1>1, <1>2, <1>3, <2>1
    <3>2. t[i].seq = i
      BY <1>1, <2>1 DEF n
    <3>3. t[i] = r
      BY <1>1, <2>1
    <3> QED
      BY <3>1, <3>2, <3>3
  <2>2. CASE i \in DOMAIN s
    <3>1. SubSeq(t, 1, i - 1) = SubSeq(s, 1, i - 1)
      BY <1>1, <1>2, <2>2
    <3>2. t[i] = s[i]
      BY <1>1, <2>2
    <3>3. s[i].seq = i /\ Follows(StatesOf(SubSeq(s, 1, i - 1)), s[i].cmd, s[i].st)
      BY <2>2 DEF Accepted
    <3> QED
      BY <3>1, <3>2, <3>3
  <2> QED
    BY <1>1, <2>1, <2>2
<1> QED
  BY <1>4 DEF Accepted, t

(* A head that was taken stays the head of its receipts, and the head of   *)
(* all receipts grows by the first receipt of a command.                   *)
LEMMA PairsAppend ==
  ASSUME NEW s \in Seq(Record), NEW r \in Record
  PROVE  /\ \A n \in Nat : n <= Len(s) => Pairs(Append(s, r), n) = Pairs(s, n)
         /\ Pairs(Append(s, r), Len(s) + 1) =
              IF LastState(s, r.cmd) = "none"
              THEN Pairs(s, Len(s)) \cup {<< Len(s) + 1, r.cmd >>}
              ELSE Pairs(s, Len(s))
<1> DEFINE t == Append(s, r)
           n == Len(s) + 1
<1>1. /\ t \in Seq(Record) /\ n \in Nat /\ t[n] = r
      /\ \A i \in DOMAIN s : i \in DOMAIN t /\ t[i] = s[i] /\ i < n
      /\ \A i \in DOMAIN t : i = n \/ i \in DOMAIN s
      /\ n \in DOMAIN t /\ n \notin DOMAIN s
      /\ \A i \in 1..(n - 1) : i \in DOMAIN s
      /\ \A i \in DOMAIN s : \A j \in 1..(i - 1) : j \in DOMAIN s
      /\ \A i \in DOMAIN s : i \in 1..(n - 1)
  OBVIOUS
<1> HIDE DEF t, n
<1>2. \A i \in DOMAIN s : i \in Firsts(t) <=> i \in Firsts(s)
  BY <1>1 DEF Firsts
<1>3. "none" \notin States
  BY DEF States
<1>4. n \in Firsts(t) <=> LastState(s, r.cmd) = "none"
  <2>1. n \in Firsts(t) <=> \A i \in DOMAIN s : s[i].cmd # r.cmd
    BY <1>1 DEF Firsts
  <2>2. LastState(s, r.cmd) = "none" <=> \A i \in DOMAIN s : s[i].cmd # r.cmd
    BY <1>3, LastReceipt
  <2> QED
    BY <2>1, <2>2
<1>5. Firsts(s) \subseteq DOMAIN s /\ Firsts(t) \subseteq DOMAIN t
  BY DEF Firsts
<1>6. ASSUME NEW m \in Nat, m <= Len(s) PROVE Pairs(t, m) = Pairs(s, m)
  <2>1. ~(n <= m)
    BY <1>6 DEF n
  <2>2. { j \in Firsts(t) : j <= m } = { j \in Firsts(s) : j <= m }
    BY <1>1, <1>2, <1>5, <2>1
  <2>3. \A i \in { j \in Firsts(s) : j <= m } : t[i].cmd = s[i].cmd
    BY <1>1, <1>5
  <2> QED
    BY <2>2, <2>3 DEF Pairs
<1>7. Pairs(t, n) = IF LastState(s, r.cmd) = "none"
                    THEN Pairs(s, Len(s)) \cup {<< n, r.cmd >>} ELSE Pairs(s, Len(s))
  <2>1. \A i \in DOMAIN t : i <= n
    BY DEF t, n
  <2>2. \A i \in DOMAIN s : i <= Len(s)
    OBVIOUS
  <2>3. { j \in Firsts(t) : j <= n } = Firsts(t)
    BY <1>5, <2>1
  <2>4. { j \in Firsts(s) : j <= Len(s) } = Firsts(s)
    BY <1>5, <2>2
  <2>5. Firsts(t) = IF LastState(s, r.cmd) = "none" THEN Firsts(s) \cup {n} ELSE Firsts(s)
    <3>1. \A i : i \in Firsts(t) <=> i \in Firsts(s) \/ (i = n /\ n \in Firsts(t))
      BY <1>1, <1>2, <1>5
    <3>2. Firsts(t) = IF n \in Firsts(t) THEN Firsts(s) \cup {n} ELSE Firsts(s)
      BY <3>1
    <3> QED
      BY <1>4, <3>2
  <2>6. \A i \in Firsts(s) : t[i].cmd = s[i].cmd
    BY <1>1, <1>5
  <2>7. t[n].cmd = r.cmd
    BY <1>1
  <2>8. Pairs(t, n) = { << i, t[i].cmd >> : i \in Firsts(t) }
    BY <2>3 DEF Pairs
  <2>9. Pairs(s, Len(s)) = { << i, s[i].cmd >> : i \in Firsts(s) }
    BY <2>4 DEF Pairs
  <2> QED
    BY <2>5, <2>6, <2>7, <2>8, <2>9
<1> QED
  BY <1>6, <1>7 DEF t, n

-----------------------------------------------------------------------------
(* The query indexes.                                                      *)

(* Every set of commands is finite.                                        *)
LEMMA CancelsFinite ==
  ASSUME NEW T, T \subseteq Commands
  PROVE  IsFiniteSet(T) /\ Cardinality(T) \in Nat
BY JournalAssumption, FS_Subset, FS_CardinalityType

(* The cancels of a client in some states, by increments.                  *)
LEMMA CountMoves ==
  ASSUME NEW st \in [Commands -> States \cup {"none"}],
         NEW c \in Commands, NEW t \in States, NEW S
  PROVE  /\ CountOf(st, S) \in Counts
         /\ ~(c \in Cancels) => CountOf([st EXCEPT ![c] = t], S) = CountOf(st, S)
         /\ (st[c] \in S <=> t \in S) => CountOf([st EXCEPT ![c] = t], S) = CountOf(st, S)
         /\ c \in Cancels /\ st[c] \notin S /\ t \in S =>
              CountOf([st EXCEPT ![c] = t], S) = [CountOf(st, S) EXCEPT ![Target[c]] = @ + 1]
         /\ c \in Cancels /\ st[c] \in S /\ t \notin S =>
              CountOf([st EXCEPT ![c] = t], S) = [CountOf(st, S) EXCEPT ![Target[c]] = @ - 1]
<1> DEFINE In(f, k) == { x \in Cancels : Target[x] = k /\ f[x] \in S }
           new == [st EXCEPT ![c] = t]
<1>1. \A k \in Clients : IsFiniteSet(In(st, k)) /\ Cardinality(In(st, k)) \in Nat
  BY CancelsFinite DEF Commands
<1>2. new[c] = t /\ \A x \in Commands : x # c => new[x] = st[x]
  OBVIOUS
<1>3. Cancels \subseteq Commands
  BY DEF Commands
<1>4. CountOf(st, S) = [k \in Clients |-> Cardinality(In(st, k))]
  BY DEF CountOf
<1>5. CountOf(new, S) = [k \in Clients |-> Cardinality(In(new, k))]
  BY DEF CountOf
<1>6. CountOf(st, S) \in Counts
  BY <1>1, <1>4 DEF Counts
<1> HIDE DEF new
<1>7. ASSUME c \notin Cancels \/ (st[c] \in S <=> t \in S) PROVE CountOf(new, S) = CountOf(st, S)
  <2>1. \A k \in Clients : In(new, k) = In(st, k)
    BY <1>2, <1>3, <1>7
  <2> QED
    BY <1>4, <1>5, <2>1
<1>8. ASSUME c \in Cancels, st[c] \notin S, t \in S
      PROVE  CountOf(new, S) = [CountOf(st, S) EXCEPT ![Target[c]] = @ + 1]
  <2>1. \A k \in Clients : In(new, k) = IF k = Target[c] THEN In(st, k) \cup {c} ELSE In(st, k)
    BY <1>2, <1>3, <1>8
  <2>2. \A k \in Clients : c \notin In(st, k)
    BY <1>8
  <2> HIDE DEF In
  <2>3. \A k \in Clients : Cardinality(In(st, k) \cup {c}) = Cardinality(In(st, k)) + 1
    BY <1>1, <2>2, FS_AddElement, Zenon
  <2>4. \A k \in Clients : Cardinality(In(new, k)) =
          IF k = Target[c] THEN Cardinality(In(st, k)) + 1 ELSE Cardinality(In(st, k))
    BY <2>1, <2>3
  <2> QED
    BY <1>4, <1>5, <2>4
<1>9. ASSUME c \in Cancels, st[c] \in S, t \notin S
      PROVE  CountOf(new, S) = [CountOf(st, S) EXCEPT ![Target[c]] = @ - 1]
  <2>1. \A k \in Clients : In(new, k) = IF k = Target[c] THEN In(st, k) \ {c} ELSE In(st, k)
    BY <1>2, <1>3, <1>9
  <2>2. c \in In(st, Target[c])
    BY <1>9
  <2> HIDE DEF In
  <2>3. Target[c] \in Clients
    BY <1>9, JournalAssumption
  <2>4. Cardinality(In(st, Target[c]) \ {c}) = Cardinality(In(st, Target[c])) - 1
    BY <1>1, <2>2, <2>3, FS_RemoveElement, Zenon
  <2>5. \A k \in Clients : Cardinality(In(new, k)) =
          IF k = Target[c] THEN Cardinality(In(st, k)) - 1 ELSE Cardinality(In(st, k))
    BY <2>1, <2>4
  <2> QED
    BY <1>4, <1>5, <2>5
<1> QED
  BY <1>6, <1>7, <1>8, <1>9 DEF new

(* The entries and reductions among the unresolved commands.               *)
LEMMA EntriesMove ==
  ASSUME NEW U, U \subseteq Commands, NEW c \in Commands
  PROVE  /\ Cardinality(U \cap Entries) \in Nat
         /\ c \notin U /\ c \in Entries =>
              Cardinality((U \cup {c}) \cap Entries) = Cardinality(U \cap Entries) + 1
         /\ c \in U /\ c \in Entries =>
              Cardinality((U \ {c}) \cap Entries) = Cardinality(U \cap Entries) - 1
         /\ c \notin Entries => /\ Cardinality((U \cup {c}) \cap Entries) = Cardinality(U \cap Entries)
                                /\ Cardinality((U \ {c}) \cap Entries) = Cardinality(U \cap Entries)
<1> DEFINE T == U \cap Entries
<1>1. IsFiniteSet(T) /\ Cardinality(T) \in Nat
  BY CancelsFinite
<1>2. ASSUME c \notin U, c \in Entries
      PROVE  Cardinality((U \cup {c}) \cap Entries) = Cardinality(T) + 1
  <2>1. (U \cup {c}) \cap Entries = T \cup {c} /\ c \notin T
    BY <1>2
  <2> HIDE DEF T
  <2> QED
    BY <1>1, <2>1, FS_AddElement
<1>3. ASSUME c \in U, c \in Entries
      PROVE  Cardinality((U \ {c}) \cap Entries) = Cardinality(T) - 1
  <2>1. (U \ {c}) \cap Entries = T \ {c} /\ c \in T
    BY <1>3
  <2> HIDE DEF T
  <2> QED
    BY <1>1, <2>1, FS_RemoveElement
<1>4. ASSUME c \notin Entries
      PROVE  (U \cup {c}) \cap Entries = T /\ (U \ {c}) \cap Entries = T
  BY <1>4
<1> QED
  BY <1>1, <1>2, <1>3, <1>4

(* A command that a handle writes: Prepared first, then along the allowed  *)
(* transitions, and new only with a client id or a target that validates.  *)
Writable(h, c, t) == (h.st[c] = "none" => t = "prepared") /\ Follows(h.st, c, t)

(* The indexes that are kept by increments are those that a replay builds. *)
LEMMA IndexKept ==
  ASSUME NEW h \in HandleType, h.index = IndexOf(h.st),
         NEW c \in Commands, NEW t \in States, Writable(h, c, t)
  PROVE  /\ Indexed(h, c, t) = IndexOf([h.st EXCEPT ![c] = t])
         /\ Indexed(h, c, t) \in IndexType
<1> DEFINE st == h.st
           new == [st EXCEPT ![c] = t]
           U == { x \in Commands : st[x] \in Unresolved }
           V == { x \in Commands : new[x] \in Unresolved }
<1>1. st \in [Commands -> States \cup {"none"}] /\ new \in [Commands -> States \cup {"none"}]
  BY DEF HandleType
<1>2. h.index = [unresolved |-> U, entries |-> Cardinality(U \cap Entries),
                 cancelling |-> CountOf(st, Unresolved), cancelled |-> CountOf(st, {"accepted"})]
  BY DEF IndexOf
<1>3. IndexOf(new) = [unresolved |-> V, entries |-> Cardinality(V \cap Entries),
                      cancelling |-> CountOf(new, Unresolved), cancelled |-> CountOf(new, {"accepted"})]
  BY DEF IndexOf
<1>4. new[c] = t /\ \A x \in Commands : x # c => new[x] = st[x]
  BY <1>1
<1>5. U \subseteq Commands /\ V \subseteq Commands /\ (c \in U <=> st[c] \in Unresolved)
  OBVIOUS
<1>6. V = IF t \in Unresolved THEN U \cup {c} ELSE U \ {c}
  BY <1>4
<1>7. CountOf(new, Unresolved) \in Counts /\ CountOf(new, {"accepted"}) \in Counts
  BY <1>1, CountMoves
<1>8. IndexOf(new) \in IndexType
  <2>1. Cardinality(V \cap Entries) \in Nat
    BY <1>5, EntriesMove
  <2> HIDE DEF U, V, new
  <2> QED
    BY <1>3, <1>5, <1>7, <2>1 DEF IndexType
<1> HIDE DEF U, V
<1>9. ASSUME NEW S
      PROVE  /\ c \notin Cancels => CountOf(new, S) = CountOf(st, S)
             /\ (st[c] \in S <=> t \in S) => CountOf(new, S) = CountOf(st, S)
             /\ c \in Cancels /\ st[c] \notin S /\ t \in S =>
                  CountOf(new, S) = Plus(CountOf(st, S), c)
             /\ c \in Cancels /\ st[c] \in S /\ t \notin S =>
                  CountOf(new, S) = Minus(CountOf(st, S), c)
  BY <1>1, CountMoves DEF Plus, Minus
<1> HIDE DEF new, st
<1>10. /\ c \notin Cancels => CountOf(new, {"accepted"}) = CountOf(st, {"accepted"})
       /\ (st[c] = "accepted" <=> t = "accepted") =>
            CountOf(new, {"accepted"}) = CountOf(st, {"accepted"})
       /\ c \in Cancels /\ st[c] # "accepted" /\ t = "accepted" =>
            CountOf(new, {"accepted"}) = Plus(CountOf(st, {"accepted"}), c)
  <2>1. \A x : x \in {"accepted"} <=> x = "accepted"
    OBVIOUS
  <2> DEFINE A == {"accepted"}
  <2> HIDE DEF A
  <2>2. /\ c \notin Cancels => CountOf(new, A) = CountOf(st, A)
        /\ (st[c] \in A <=> t \in A) => CountOf(new, A) = CountOf(st, A)
        /\ c \in Cancels /\ st[c] \notin A /\ t \in A => CountOf(new, A) = Plus(CountOf(st, A), c)
    BY <1>9
  <2> QED
    BY <2>1, <2>2 DEF A
<1>11. st[c] = "none" => t = "prepared"
  BY DEF Writable, st
<1>12. st[c] # "none" => AllowedTransition(st[c], t)
  BY DEF Writable, Follows, st
<1>13. /\ c \notin U /\ c \in Entries =>
            Cardinality((U \cup {c}) \cap Entries) = Cardinality(U \cap Entries) + 1
       /\ c \in U /\ c \in Entries =>
            Cardinality((U \ {c}) \cap Entries) = Cardinality(U \cap Entries) - 1
       /\ c \notin Entries =>
            /\ Cardinality((U \cup {c}) \cap Entries) = Cardinality(U \cap Entries)
            /\ Cardinality((U \ {c}) \cap Entries) = Cardinality(U \cap Entries)
  BY <1>5, EntriesMove
<1>14. Indexed(h, c, t) = IF st[c] = "none" THEN AddQueryIndexes(h.index, c, t)
                          ELSE ReplaceQueryIndexes(h.index, st[c], c, t)
  BY DEF Indexed, st
<1>18. Indexed(h, c, t) = IndexOf(new) => /\ Indexed(h, c, t) = IndexOf([h.st EXCEPT ![c] = t])
                                          /\ Indexed(h, c, t) \in IndexType
  BY <1>8 DEF new, st
<1>15. CASE st[c] = "none"
  <2>1. /\ t = "prepared" /\ t \in Unresolved /\ t # "accepted"
        /\ st[c] \notin Unresolved /\ st[c] # "accepted" /\ c \notin U
    BY <1>5, <1>11, <1>15 DEF Unresolved
  <2>2. AddQueryIndexes(h.index, c, t) =
          [unresolved |-> U \cup {c},
           entries |-> IF c \in Entries THEN Cardinality(U \cap Entries) + 1
                       ELSE Cardinality(U \cap Entries),
           cancelling |-> IF c \in Cancels THEN Plus(CountOf(st, Unresolved), c)
                          ELSE CountOf(st, Unresolved),
           cancelled |-> CountOf(st, {"accepted"})]
    BY <1>2, <2>1 DEF AddQueryIndexes
  <2> QED
    <3>1. Cardinality(V \cap Entries) = IF c \in Entries THEN Cardinality(U \cap Entries) + 1
                                        ELSE Cardinality(U \cap Entries)
      BY <1>6, <1>13, <2>1
    <3>2. CountOf(new, Unresolved) = IF c \in Cancels THEN Plus(CountOf(st, Unresolved), c)
                                     ELSE CountOf(st, Unresolved)
      BY <1>9, <2>1
    <3>3. CountOf(new, {"accepted"}) = CountOf(st, {"accepted"})
      BY <1>10, <2>1
    <3>4. IndexOf(new) = AddQueryIndexes(h.index, c, t)
      BY <1>3, <1>6, <2>1, <2>2, <3>1, <3>2, <3>3
    <3> QED
      BY <1>14, <1>15, <1>18, <3>4
<1>16. CASE st[c] # "none" /\ t \in Unresolved
  <2>1. st[c] \in Unresolved /\ st[c] # "accepted" /\ t # "accepted" /\ c \in U
    BY <1>5, <1>12, <1>16 DEF Unresolved, AllowedTransition
  <2>2. ReplaceQueryIndexes(h.index, st[c], c, t) = h.index
    BY <1>2, <1>16, <2>1 DEF AddQueryIndexes, ReplaceQueryIndexes
  <2>3. V = U
    BY <1>6, <1>16, <2>1
  <2> QED
    <3>1. CountOf(new, Unresolved) = CountOf(st, Unresolved)
      BY <1>9, <1>16, <2>1
    <3>2. CountOf(new, {"accepted"}) = CountOf(st, {"accepted"})
      BY <1>10, <2>1
    <3>3. IndexOf(new) = h.index
      BY <1>2, <1>3, <2>3, <3>1, <3>2
    <3> QED
      BY <1>14, <1>16, <1>18, <2>2, <3>3
<1>17. CASE st[c] # "none" /\ t \notin Unresolved
  <2>1. st[c] \in Unresolved /\ st[c] # "accepted" /\ c \in U
    BY <1>5, <1>12, <1>17 DEF Unresolved, AllowedTransition
  <2>2. Without(h.index, c) =
          [unresolved |-> U \ {c},
           entries |-> IF c \in Entries THEN Cardinality(U \cap Entries) - 1
                       ELSE Cardinality(U \cap Entries),
           cancelling |-> IF c \in Cancels THEN Minus(CountOf(st, Unresolved), c)
                          ELSE CountOf(st, Unresolved),
           cancelled |-> CountOf(st, {"accepted"})]
    BY <1>2, <2>1 DEF Without
  <2>3. ReplaceQueryIndexes(h.index, st[c], c, t) = AddQueryIndexes(Without(h.index, c), c, t)
    BY <1>17, <2>1 DEF ReplaceQueryIndexes
  <2>4. AddQueryIndexes(Without(h.index, c), c, t) =
          [unresolved |-> U \ {c},
           entries |-> IF c \in Entries THEN Cardinality(U \cap Entries) - 1
                       ELSE Cardinality(U \cap Entries),
           cancelling |-> IF c \in Cancels THEN Minus(CountOf(st, Unresolved), c)
                          ELSE CountOf(st, Unresolved),
           cancelled |-> IF t = "accepted" /\ c \in Cancels
                         THEN Plus(CountOf(st, {"accepted"}), c) ELSE CountOf(st, {"accepted"})]
    BY <1>17, <2>2 DEF AddQueryIndexes
  <2> QED
    <3>1. Cardinality(V \cap Entries) = IF c \in Entries THEN Cardinality(U \cap Entries) - 1
                                        ELSE Cardinality(U \cap Entries)
      BY <1>6, <1>13, <1>17, <2>1
    <3>2. CountOf(new, Unresolved) = IF c \in Cancels THEN Minus(CountOf(st, Unresolved), c)
                                     ELSE CountOf(st, Unresolved)
      BY <1>9, <1>17, <2>1
    <3>3. CountOf(new, {"accepted"}) = IF t = "accepted" /\ c \in Cancels
                                       THEN Plus(CountOf(st, {"accepted"}), c)
                                       ELSE CountOf(st, {"accepted"})
      BY <1>10, <2>1
    <3>4. IndexOf(new) = AddQueryIndexes(Without(h.index, c), c, t)
      BY <1>3, <1>6, <1>17, <2>4, <3>1, <3>2, <3>3
    <3> QED
      BY <1>14, <1>17, <1>18, <2>3, <3>4
<1> QED
  BY <1>15, <1>16, <1>17

-----------------------------------------------------------------------------
(* A handle and its file, receipt by receipt.                              *)

(* A handle that holds what a replay of the file gives: open_segmented.    *)
Exact(s, h) ==
    /\ h.st = StatesOf(s) /\ h.next = Len(s) + 1
    /\ h.root = Pairs(s, Len(s))
    /\ Accepted(s)

(* A handle that may append to the file s.                                 *)
Synced(s, h) ==
    /\ s \in Seq(Record) /\ h \in HandleType /\ h.next >= 1
    /\ h.index = IndexOf(h.st)
    /\ Near(s, h)
    /\ Unforked => Exact(s, h)

(* The file only grew: append_encoded never rewrites a receipt.            *)
Extends(s, t) ==
    /\ t \in Seq(Record) /\ Len(s) <= Len(t)
    /\ \A i \in DOMAIN s : i \in DOMAIN t /\ t[i] = s[i]
    /\ \A n \in Nat : n <= Len(s) => Pairs(t, n) = Pairs(s, n)

(* One receipt with its number.                                            *)
Receipt(n, c, t) == [seq |-> n, cmd |-> c, st |-> t]

(* Writing one receipt that is writable keeps the handle in step with the  *)
(* file: append_encoded and what the handle then learns.                   *)
LEMMA OneReceipt ==
  ASSUME NEW s, NEW h, Synced(s, h), NEW c \in Commands, NEW t \in States, Writable(h, c, t)
  PROVE  /\ Receipt(h.next, c, t) \in Record
         /\ Synced(Append(s, Receipt(h.next, c, t)), Learns(h, c, t))
         /\ Extends(s, Append(s, Receipt(h.next, c, t)))
         /\ Len(Append(s, Receipt(h.next, c, t))) = Len(s) + 1
         /\ Learns(h, c, t).st = [h.st EXCEPT ![c] = t]
         /\ Learns(h, c, t).next = h.next + 1
         /\ Learns(h, c, t).len = h.len + 1
         /\ Learns(h, c, t).phase = h.phase
         /\ \A x \in Commands : LastState(Append(s, Receipt(h.next, c, t)), x) =
                                  IF x = c THEN t ELSE LastState(s, x)
<1> DEFINE r == Receipt(h.next, c, t)
           u == Append(s, r)
           g == Learns(h, c, t)
<1>1. /\ s \in Seq(Record) /\ h \in HandleType /\ h.next >= 1
      /\ h.index = IndexOf(h.st) /\ Near(s, h)
      /\ Unforked => Exact(s, h)
  BY DEF Synced
<1>2. /\ h.next \in Nat /\ h.len \in Nat /\ h.st \in [Commands -> States \cup {"none"}]
      /\ h.phase \in {"fencing", "ready"} /\ h.root \in SUBSET (Nat \X Commands)
  BY <1>1 DEF HandleType
<1>3. r \in Record /\ r.seq = h.next /\ r.cmd = c /\ r.st = t
  BY <1>2 DEF Record, Receipt
<1>4. u \in Seq(Record) /\ Len(u) = Len(s) + 1 /\ Len(s) \in Nat
      /\ \A i \in DOMAIN s : i \in DOMAIN u /\ u[i] = s[i]
  BY <1>1, <1>3
<1>5. \A x : LastState(u, x) = IF x = c THEN t ELSE LastState(s, x)
  BY <1>1, <1>3, LastOfAppend
<1>6. /\ \A n \in Nat : n <= Len(s) => Pairs(u, n) = Pairs(s, n)
      /\ Pairs(u, Len(s) + 1) = IF LastState(s, c) = "none"
                                THEN Pairs(s, Len(s)) \cup {<< Len(s) + 1, c >>}
                                ELSE Pairs(s, Len(s))
  BY <1>1, <1>3, PairsAppend
<1>7. Indexed(h, c, t) = IndexOf([h.st EXCEPT ![c] = t]) /\ Indexed(h, c, t) \in IndexType
  BY <1>1, IndexKept
<1>8. /\ g.phase = h.phase /\ g.st = [h.st EXCEPT ![c] = t] /\ g.next = h.next + 1
      /\ g.len = h.len + 1 /\ g.index = Indexed(h, c, t)
      /\ g.root = IF h.st[c] = "none" THEN h.root \cup {<< h.next, c >>} ELSE h.root
      /\ g = [phase |-> g.phase, st |-> g.st, next |-> g.next, len |-> g.len, root |-> g.root,
              index |-> g.index]
  BY DEF Learns
<1> HIDE DEF r, u, g
<1>9. g \in HandleType
  <2>1. g.st \in [Commands -> States \cup {"none"}]
    BY <1>2, <1>8
  <2>2. g.root \in SUBSET (Nat \X Commands)
    BY <1>2, <1>8
  <2>3. g.next \in Nat /\ g.len \in Nat /\ g.phase \in {"fencing", "ready"} /\ g.index \in IndexType
    BY <1>2, <1>7, <1>8
  <2> QED
    BY <1>8, <2>1, <2>2, <2>3 DEF HandleType
<1>10. g.index = IndexOf(g.st) /\ g.next >= 1
  BY <1>1, <1>2, <1>7, <1>8
<1>11. \A x \in Commands : g.st[x] = IF x = c THEN t ELSE h.st[x]
  BY <1>2, <1>8
<1>12. Near(u, g)
  <2> SUFFICES ASSUME NEW x \in Commands PROVE g.st[x] = LastState(u, x) \/ Missed(u, g, x)
    BY DEF Near
  <2>1. h.st[x] = LastState(s, x) \/ Missed(s, h, x)
    BY <1>1 DEF Near
  <2> QED
    BY <1>5, <1>11, <2>1 DEF Missed
<1>13. ASSUME Unforked PROVE Exact(u, g)
  <2>1. h.st = StatesOf(s) /\ h.next = Len(s) + 1 /\ h.root = Pairs(s, Len(s)) /\ Accepted(s)
    BY <1>1, <1>13 DEF Exact
  <2>2. StatesOf(u) = [x \in Commands |-> IF x = c THEN t ELSE LastState(s, x)]
    BY <1>5 DEF StatesOf
  <2>3. \A x \in Commands : h.st[x] = LastState(s, x)
    BY <2>1 DEF StatesOf
  <2>4. g.st = StatesOf(u)
    BY <1>2, <1>8, <1>11, <2>2, <2>3
  <2>5. g.next = Len(u) + 1
    BY <1>4, <1>8, <2>1
  <2>6. g.root = Pairs(u, Len(u))
    BY <1>4, <1>6, <1>8, <2>1, <2>3
  <2>7. Accepted(u)
    <3>1. r.seq = Len(s) + 1 /\ Follows(StatesOf(s), r.cmd, r.st)
      BY <1>3, <2>1 DEF Writable
    <3> QED
      BY <1>1, <1>3, <2>1, <3>1, AcceptedAppend DEF u
  <2> QED
    BY <2>4, <2>5, <2>6, <2>7 DEF Exact
<1>14. Synced(u, g)
  BY <1>4, <1>9, <1>10, <1>12, <1>13 DEF Synced
<1>15. Extends(s, u)
  BY <1>4, <1>6 DEF Extends
<1> QED
  BY <1>3, <1>4, <1>5, <1>8, <1>14, <1>15 DEF r, u, g

(* The exchange has produced an outcome of a command.                      *)
Produced(x, t) ==
    \/ t = "accepted" /\ ex[x] \in Taken
    \/ t = "rejected" /\ ex[x] = "refused"
    \/ x \in Cancels /\ Over(Target[x])

(* What one process may make of a command: it prepares and submits what it *)
(* has not seen, submits or withdraws what it has prepared, fences what    *)
(* was interrupted, and records an outcome that the exchange produced.     *)
Moves(h, x, t) ==
    \/ h.st[x] = "none" /\ t \in {"prepared", "submitted"}
    \/ h.st[x] = "prepared" /\ t \in {"submitted", "rejected"}
    \/ h.st[x] = "submitted" /\ t = "unknown"
    \/ /\ h.st[x] \in {"submitted", "unknown"}
       /\ t \in {"accepted", "rejected"}
       /\ Produced(x, t)

(* After k receipts about the commands T.                                  *)
Reached(h, s, g, k, T) ==
    /\ Synced(s, g) /\ Extends(log, s) /\ Len(s) = Len(log) + k
    /\ g.next = h.next + k /\ g.len = h.len + k /\ g.phase = h.phase
    /\ \A x \in Commands :
        \/ LastState(s, x) = LastState(log, x) /\ g.st[x] = h.st[x]
        \/ x \in T /\ g.st[x] = LastState(s, x) /\ Moves(h, x, LastState(s, x))

(* The next receipt of a batch, after k of them.                           *)
LEMMA NextReceipt ==
  ASSUME NEW h, NEW s, NEW g, NEW k \in Nat, NEW T, Reached(h, s, g, k, T), log \in Seq(Record),
         h \in HandleType, NEW c \in Commands, NEW t \in States,
         c \in T, Writable(g, c, t), Moves(h, c, t)
  PROVE  Reached(h, Append(s, Receipt(h.next + k, c, t)), Learns(g, c, t), k + 1, T)
<1> DEFINE r == Receipt(h.next + k, c, t)
           u == Append(s, r)
           f == Learns(g, c, t)
<1>1. /\ Synced(s, g) /\ Extends(log, s) /\ Len(s) = Len(log) + k
      /\ g.next = h.next + k /\ g.len = h.len + k /\ g.phase = h.phase
      /\ \A x \in Commands :
           \/ LastState(s, x) = LastState(log, x) /\ g.st[x] = h.st[x]
           \/ x \in T /\ g.st[x] = LastState(s, x) /\ Moves(h, x, LastState(s, x))
  BY DEF Reached
<1>2. r = Receipt(g.next, c, t)
  BY <1>1
<1> HIDE DEF r
<1>3. /\ r \in Record /\ Synced(u, f) /\ Extends(s, u) /\ Len(u) = Len(s) + 1
      /\ f.st = [g.st EXCEPT ![c] = t] /\ f.next = g.next + 1 /\ f.len = g.len + 1
      /\ f.phase = g.phase
      /\ \A x \in Commands : LastState(u, x) = IF x = c THEN t ELSE LastState(s, x)
  BY <1>1, <1>2, OneReceipt
<1> HIDE DEF u, f
<1>4. Len(log) \in Nat /\ h.next \in Nat /\ h.len \in Nat /\ g.st \in [Commands -> States \cup {"none"}]
  BY <1>1 DEF HandleType, Synced
<1>5. Extends(log, u)
  <2>1. /\ s \in Seq(Record) /\ u \in Seq(Record) /\ Len(log) <= Len(s)
        /\ Len(log) <= Len(u)
    BY <1>1, <1>3, <1>4 DEF Extends
  <2>2. \A i \in DOMAIN log : i \in DOMAIN u /\ u[i] = log[i]
    BY <1>1, <1>3 DEF Extends
  <2>3. ASSUME NEW n \in Nat, n <= Len(log) PROVE Pairs(u, n) = Pairs(log, n)
    <3>1. n <= Len(s)
      BY <1>1, <1>4, <2>3
    <3> QED
      BY <1>1, <1>3, <2>3, <3>1 DEF Extends
  <2> QED
    BY <2>1, <2>2, <2>3 DEF Extends
<1>6. /\ Len(u) = Len(log) + (k + 1)
      /\ f.next = h.next + (k + 1) /\ f.len = h.len + (k + 1) /\ f.phase = h.phase
  BY <1>1, <1>3, <1>4
<1>7. ASSUME NEW x \in Commands
      PROVE  \/ LastState(u, x) = LastState(log, x) /\ f.st[x] = h.st[x]
             \/ x \in T /\ f.st[x] = LastState(u, x) /\ Moves(h, x, LastState(u, x))
  <2>1. f.st[x] = IF x = c THEN t ELSE g.st[x]
    BY <1>3, <1>4
  <2> QED
    BY <1>1, <1>3, <2>1
<1>8. Reached(h, u, f, k + 1, T)
  BY <1>3, <1>5, <1>6, <1>7 DEF Reached
<1> QED
  BY <1>8 DEF r, u, f

(* What a receipt holds.                                                   *)
LEMMA ReceiptIs ==
  ASSUME NEW n \in Nat, NEW c \in Commands, NEW t \in States
  PROVE  /\ Receipt(n, c, t) \in Record
         /\ Receipt(n, c, t).cmd = c /\ Receipt(n, c, t).st = t
BY DEF Receipt, Record

(* A receipt gives its command its state.                                  *)
LEMMA LearnsState ==
  ASSUME NEW h, NEW c, NEW t
  PROVE  Learns(h, c, t).st = [h.st EXCEPT ![c] = t]
BY DEF Learns

(* A prefix of what is appended grows by one receipt.                      *)
LEMMA PrefixGrows ==
  ASSUME NEW s \in Seq(Record), NEW R \in Seq(Record)
  PROVE  /\ s \o SubSeq(R, 1, 0) = s
         /\ SubSeq(R, 1, Len(R)) = R
         /\ \A k \in 0..(Len(R) - 1) :
              s \o SubSeq(R, 1, k + 1) = Append(s \o SubSeq(R, 1, k), R[k + 1])
<1>1. s \o SubSeq(R, 1, 0) = s
  <2>1. SubSeq(R, 1, 0) = << >>
    OBVIOUS
  <2> QED
    BY <2>1
<1>2. SubSeq(R, 1, Len(R)) = R
  OBVIOUS
<1>3. ASSUME NEW k \in 0..(Len(R) - 1)
      PROVE  s \o SubSeq(R, 1, k + 1) = Append(s \o SubSeq(R, 1, k), R[k + 1])
  <2> DEFINE A == SubSeq(R, 1, k + 1)
             B == SubSeq(R, 1, k)
  <2>1. /\ A \in Seq(Record) /\ B \in Seq(Record) /\ Len(A) = k + 1 /\ Len(B) = k
        /\ \A i \in 1..(k + 1) : A[i] = R[i]
        /\ \A i \in 1..k : B[i] = R[i]
        /\ R[k + 1] \in Record
    OBVIOUS
  <2> HIDE DEF A, B
  <2>2. A = Append(B, R[k + 1])
    <3>1. Len(A) = Len(Append(B, R[k + 1])) /\ Append(B, R[k + 1]) \in Seq(Record)
      BY <2>1
    <3>2. \A i \in 1..Len(A) : A[i] = Append(B, R[k + 1])[i]
      BY <2>1
    <3> QED
      BY <2>1, <3>1, <3>2
  <2>3. s \o Append(B, R[k + 1]) = Append(s \o B, R[k + 1])
    BY <2>1
  <2> QED
    BY <2>2, <2>3 DEF A, B
<1> QED
  BY <1>1, <1>2, <1>3

(* Before the first receipt.                                               *)
LEMMA ReachedNow ==
  ASSUME NEW h, NEW T, Synced(log, h)
  PROVE  Reached(h, log, h, 0, T)
<1>1. log \in Seq(Record) /\ h \in HandleType
  BY DEF Synced
<1>2. Extends(log, log)
  BY <1>1 DEF Extends
<1>3. Len(log) \in Nat /\ h.next \in Nat /\ h.len \in Nat
  BY <1>1 DEF HandleType
<1> QED
  BY <1>2, <1>3 DEF Reached

(* What appending cs does to the file and, if it succeeds, to the handle.  *)
Outcome(h, cs, T) ==
    /\ Reached(h, log \o Receipts(h, cs), LearnsAll(h, Receipts(h, cs)), Len(cs), T)
    /\ \A k \in 0..Len(cs) : \E g : Reached(h, log \o SubSeq(Receipts(h, cs), 1, k), g, k, T)

(* An append of one receipt.                                               *)
LEMMA WritesOne ==
  ASSUME NEW h, Synced(log, h), NEW c \in Commands, NEW t \in States,
         Writable(h, c, t), Moves(h, c, t)
  PROVE  /\ Outcome(h, << << c, t >> >>, {c})
         /\ LearnsAll(h, Receipts(h, << << c, t >> >>)).st = [h.st EXCEPT ![c] = t]
<1> DEFINE cs == << << c, t >> >>
           R == Receipts(h, cs)
           r == Receipt(h.next, c, t)
<1>1. log \in Seq(Record) /\ h \in HandleType /\ h.next \in Nat /\ h.next + 0 = h.next
  BY DEF Synced, HandleType
<1>2. Reached(h, log, h, 0, {c})
  BY ReachedNow
<1>3. /\ r \in Record /\ Reached(h, Append(log, r), Learns(h, c, t), 1, {c})
      /\ Learns(h, c, t).st = [h.st EXCEPT ![c] = t]
  <2> DEFINE T == {c}
  <2>2. c \in T /\ 0 \in Nat
    OBVIOUS
  <2>3. Reached(h, log, h, 0, T)
    BY <1>2
  <2> HIDE DEF T
  <2>1. Reached(h, Append(log, Receipt(h.next + 0, c, t)), Learns(h, c, t), 0 + 1, T)
    BY <1>1, <2>2, <2>3, NextReceipt
  <2>4. r \in Record
    BY <1>1, ReceiptIs
  <2>5. Learns(h, c, t).st = [h.st EXCEPT ![c] = t]
    BY LearnsState
  <2> QED
    BY <1>1, <2>1, <2>4, <2>5 DEF T
<1>4. DOMAIN R = {1} /\ R[1] = r
  BY <1>1 DEF Receipts, Receipt
<1>5. R \in Seq(Record) /\ Len(R) = 1
  <2>1. R = << r >>
    BY <1>1 DEF Receipts, Receipt
  <2> QED
    BY <1>3, <2>1
<1>6. R[1].cmd = c /\ R[1].st = t
  BY <1>4 DEF Receipt
<1>7. Len(cs) = 1
  OBVIOUS
<1>11. \A i \in {2, 3, 4} : i \notin DOMAIN R
  BY <1>4
<1> HIDE DEF R, r, cs
<1>8. LearnsAll(h, R) = Learns(h, c, t)
  BY <1>4, <1>6, <1>11 DEF LearnsAll
<1>9. log \o SubSeq(R, 1, 0) = log /\ SubSeq(R, 1, 1) = R /\ log \o SubSeq(R, 1, 1) = Append(log, r)
  <2>1. 0 \in 0..(Len(R) - 1) /\ 0 + 1 = 1
    BY <1>5
  <2> QED
    BY <1>1, <1>4, <1>5, <2>1, PrefixGrows
<1>10. Outcome(h, cs, {c})
  <2>1. Reached(h, log \o R, LearnsAll(h, R), Len(cs), {c})
    BY <1>3, <1>7, <1>8, <1>9
  <2>2. ASSUME NEW k \in 0..Len(cs) PROVE \E g : Reached(h, log \o SubSeq(R, 1, k), g, k, {c})
    <3>1. k = 0 \/ k = 1
      BY <1>7
    <3> QED
      BY <1>2, <1>3, <1>9, <3>1
  <2> QED
    BY <2>1, <2>2 DEF Outcome, R
<1> QED
  BY <1>3, <1>8, <1>10 DEF R, cs

(* The checks of prepare on both commands of a batch let the second one    *)
(* follow the first.                                                       *)
LEMMA AlsoAdmissible ==
  ASSUME NEW h \in HandleType, NEW f \in HandleType, NEW c \in Commands, NEW d \in Commands,
         c # d, Admissible(h, d), f.st[c] # "none",
         (c \in Places /\ d \in Places) => Client[c] # Client[d],
         \A x \in Commands : x # c => f.st[x] = h.st[x]
  PROVE  Writable(f, d, "prepared")
<1>1. h.st[d] = "none" /\ f.st[d] = "none"
  BY DEF Admissible
<1>2. Places \subseteq Commands
  BY DEF Commands
<1>3. ClientsOf(h.st) \subseteq ClientsOf(f.st)
  BY <1>2 DEF ClientsOf
<1>4. CASE d \in Cancels
  BY <1>1, <1>3, <1>4 DEF Admissible, Writable, Follows
<1>5. CASE d \notin Cancels
  <2>1. Client[d] \notin ClientsOf(h.st) /\ d \in Places
    BY <1>5 DEF Admissible, Commands
  <2>2. Client[d] \notin ClientsOf(f.st)
    BY <1>2, <2>1 DEF ClientsOf
  <2> QED
    BY <1>1, <1>5, <2>2 DEF Writable, Follows
<1> QED
  BY <1>4, <1>5

(* prepare's checks allow the first receipts of a new command.             *)
LEMMA AdmissibleWrites ==
  ASSUME NEW h, NEW c, Admissible(h, c)
  PROVE  /\ Writable(h, c, "prepared")
         /\ Moves(h, c, "prepared") /\ Moves(h, c, "submitted")
         /\ h.st[c] = "none"
BY DEF Admissible, Writable, Follows, Moves

(* The receipts of prepare_batch for two commands.                         *)
LEMMA WritesTwo ==
  ASSUME NEW h, Synced(log, h), NEW c \in Commands, NEW d \in Commands, c # d,
         Admissible(h, c), Admissible(h, d), (c \in Places /\ d \in Places) => Client[c] # Client[d]
  PROVE  Outcome(h, << << c, "prepared" >>, << d, "prepared" >> >>, {c, d})
<1> DEFINE cs == << << c, "prepared" >>, << d, "prepared" >> >>
           R == Receipts(h, cs)
           T == {c, d}
           g1 == Learns(h, c, "prepared")
           g2 == Learns(g1, d, "prepared")
           r1 == Receipt(h.next + 0, c, "prepared")
           r2 == Receipt(h.next + 1, d, "prepared")
           s1 == Append(log, r1)
           s2 == Append(s1, r2)
<1>1. log \in Seq(Record) /\ h \in HandleType /\ h.next \in Nat
  BY DEF Synced, HandleType
<1>2. c \in T /\ d \in T /\ "prepared" \in States
  BY DEF States
<1>3. /\ Writable(h, c, "prepared") /\ Moves(h, c, "prepared")
      /\ Moves(h, d, "prepared")
  BY AdmissibleWrites
<1>4. /\ r1 \in Record /\ r1.cmd = c /\ r1.st = "prepared"
      /\ r2 \in Record /\ r2.cmd = d /\ r2.st = "prepared"
      /\ g1.st = [h.st EXCEPT ![c] = "prepared"]
  <2>1. h.next + 0 \in Nat /\ h.next + 1 \in Nat
    BY <1>1
  <2>2. r1 \in Record /\ r1.cmd = c /\ r1.st = "prepared"
    BY <1>2, <2>1, ReceiptIs
  <2>3. r2 \in Record /\ r2.cmd = d /\ r2.st = "prepared"
    BY <1>2, <2>1, ReceiptIs
  <2>4. g1.st = [h.st EXCEPT ![c] = "prepared"]
    BY LearnsState
  <2> QED
    BY <2>2, <2>3, <2>4
<1>5. DOMAIN R = {1, 2} /\ R[1] = r1 /\ R[2] = r2 /\ R = << r1, r2 >>
  BY <1>1 DEF Receipts, Receipt
<1>6. R \in Seq(Record) /\ Len(R) = 2
  <2> HIDE DEF R, r1, r2
  <2> QED
    BY <1>4, <1>5
<1>7. Len(cs) = 2
  OBVIOUS
<1>8. Reached(h, log, h, 0, T)
  BY ReachedNow
<1> HIDE DEF R, T, cs
<1>9. Reached(h, s1, g1, 1, T)
  <2>1. Reached(h, s1, g1, 0 + 1, T)
    <3>1. 0 \in Nat
      OBVIOUS
    <3> QED
      BY <1>1, <1>2, <1>3, <1>8, <3>1, NextReceipt
  <2> QED
    BY <2>1
<1>10. g1 \in HandleType
  BY <1>9 DEF Reached, Synced
<1>11. Writable(g1, d, "prepared")
  <2>1. h.st \in [Commands -> States \cup {"none"}]
    BY <1>1 DEF HandleType
  <2>2. g1.st[c] # "none" /\ \A x \in Commands : x # c => g1.st[x] = h.st[x]
    BY <1>4, <2>1
  <2> HIDE DEF g1
  <2> QED
    BY <1>1, <1>10, <2>2, AlsoAdmissible
<1> HIDE DEF g1, s1, r1
<1>12. Reached(h, s2, g2, 2, T)
  <2>1. Reached(h, s2, g2, 1 + 1, T)
    <3>1. 1 \in Nat
      OBVIOUS
    <3> QED
      BY <1>1, <1>2, <1>3, <1>9, <1>11, <3>1, NextReceipt
  <2> QED
    BY <2>1
<1> HIDE DEF r2
<1>13. LearnsAll(h, R) = g2
  <2>1. 1 \in DOMAIN R /\ 2 \in DOMAIN R /\ 3 \notin DOMAIN R /\ 4 \notin DOMAIN R
    BY <1>5
  <2> QED
    BY <1>4, <1>5, <2>1 DEF LearnsAll, g1
<1> HIDE DEF g2
<1>14. /\ log \o SubSeq(R, 1, 0) = log /\ log \o SubSeq(R, 1, 1) = s1
       /\ log \o SubSeq(R, 1, 2) = s2 /\ log \o R = s2
  <2>1. 0 \in 0..(Len(R) - 1) /\ 1 \in 0..(Len(R) - 1) /\ 0 + 1 = 1 /\ 1 + 1 = 2
    BY <1>6
  <2>2. log \o SubSeq(R, 1, 0) = log /\ SubSeq(R, 1, 2) = R
    BY <1>1, <1>6, PrefixGrows
  <2>3. log \o SubSeq(R, 1, 1) = Append(log \o SubSeq(R, 1, 0), R[1])
    BY <1>1, <1>6, <2>1, PrefixGrows
  <2>4. log \o SubSeq(R, 1, 2) = Append(log \o SubSeq(R, 1, 1), R[2])
    <3>1. log \o SubSeq(R, 1, 1 + 1) = Append(log \o SubSeq(R, 1, 1), R[1 + 1])
      BY <1>1, <1>6, <2>1, PrefixGrows
    <3> QED
      BY <2>1, <3>1
  <2> QED
    BY <1>5, <2>2, <2>3, <2>4 DEF s1
<1> HIDE DEF s2
<1>15. Outcome(h, cs, T)
  <2>1. Reached(h, log \o R, LearnsAll(h, R), Len(cs), T)
    BY <1>7, <1>12, <1>13, <1>14
  <2>2. ASSUME NEW k \in 0..Len(cs) PROVE \E g : Reached(h, log \o SubSeq(R, 1, k), g, k, T)
    <3>1. k = 0 \/ k = 1 \/ k = 2
      BY <1>7
    <3> QED
      BY <1>8, <1>9, <1>12, <1>14, <3>1
  <2> QED
    BY <2>1, <2>2 DEF Outcome, R
<1> QED
  BY <1>15 DEF cs, T

(* The receipts of prepare_submitted_batch for two commands.               *)
LEMMA WritesFour ==
  ASSUME NEW h, Synced(log, h), NEW c \in Commands, NEW d \in Commands, c # d,
         Admissible(h, c), Admissible(h, d), (c \in Places /\ d \in Places) => Client[c] # Client[d]
  PROVE  LET cs == << << c, "prepared" >>, << c, "submitted" >>,
                      << d, "prepared" >>, << d, "submitted" >> >>
             g == LearnsAll(h, Receipts(h, cs))
         IN /\ Outcome(h, cs, {c, d})
            /\ g.st[c] = "submitted" /\ g.st[d] = "submitted"
<1> DEFINE cs == << << c, "prepared" >>, << c, "submitted" >>,
                    << d, "prepared" >>, << d, "submitted" >> >>
           R == Receipts(h, cs)
           T == {c, d}
           g1 == Learns(h, c, "prepared")
           g2 == Learns(g1, c, "submitted")
           g3 == Learns(g2, d, "prepared")
           g4 == Learns(g3, d, "submitted")
           r1 == Receipt(h.next + 0, c, "prepared")
           r2 == Receipt(h.next + 1, c, "submitted")
           r3 == Receipt(h.next + 2, d, "prepared")
           r4 == Receipt(h.next + 3, d, "submitted")
           s1 == Append(log, r1)
           s2 == Append(s1, r2)
           s3 == Append(s2, r3)
           s4 == Append(s3, r4)
<1>1. log \in Seq(Record) /\ h \in HandleType /\ h.next \in Nat
  BY DEF Synced, HandleType
<1>2. c \in T /\ d \in T /\ "prepared" \in States /\ "submitted" \in States
  BY DEF States
<1>3. /\ Writable(h, c, "prepared") /\ Moves(h, c, "prepared") /\ Moves(h, c, "submitted")
      /\ Moves(h, d, "prepared") /\ Moves(h, d, "submitted")
  BY AdmissibleWrites
<1>4. /\ r1 \in Record /\ r1.cmd = c /\ r1.st = "prepared"
      /\ r2 \in Record /\ r2.cmd = c /\ r2.st = "submitted"
      /\ r3 \in Record /\ r3.cmd = d /\ r3.st = "prepared"
      /\ r4 \in Record /\ r4.cmd = d /\ r4.st = "submitted"
  <2>1. /\ h.next + 0 \in Nat /\ h.next + 1 \in Nat /\ h.next + 2 \in Nat /\ h.next + 3 \in Nat
    BY <1>1
  <2>2. r1 \in Record /\ r1.cmd = c /\ r1.st = "prepared"
    BY <1>2, <2>1, ReceiptIs
  <2>3. r2 \in Record /\ r2.cmd = c /\ r2.st = "submitted"
    BY <1>2, <2>1, ReceiptIs
  <2>4. r3 \in Record /\ r3.cmd = d /\ r3.st = "prepared"
    BY <1>2, <2>1, ReceiptIs
  <2>5. r4 \in Record /\ r4.cmd = d /\ r4.st = "submitted"
    BY <1>2, <2>1, ReceiptIs
  <2> QED
    BY <2>2, <2>3, <2>4, <2>5
<1>5. DOMAIN R = {1, 2, 3, 4} /\ R[1] = r1 /\ R[2] = r2 /\ R[3] = r3 /\ R[4] = r4
      /\ R = << r1, r2, r3, r4 >>
  BY <1>1 DEF Receipts, Receipt
<1>6. R \in Seq(Record) /\ Len(R) = 4
  <2> HIDE DEF R, r1, r2, r3, r4
  <2> QED
    BY <1>4, <1>5
<1>7. Len(cs) = 4
  OBVIOUS
<1>8. Reached(h, log, h, 0, T)
  BY ReachedNow
<1>16. /\ g1.st = [h.st EXCEPT ![c] = "prepared"] /\ g2.st = [g1.st EXCEPT ![c] = "submitted"]
       /\ g3.st = [g2.st EXCEPT ![d] = "prepared"] /\ g4.st = [g3.st EXCEPT ![d] = "submitted"]
  <2> HIDE DEF g1, g2, g3, g4
  <2>1. g1.st = [h.st EXCEPT ![c] = "prepared"]
    BY LearnsState DEF g1
  <2>2. g2.st = [g1.st EXCEPT ![c] = "submitted"]
    BY LearnsState DEF g2
  <2>3. g3.st = [g2.st EXCEPT ![d] = "prepared"]
    BY LearnsState DEF g3
  <2>5. g4 = Learns(g3, d, "submitted")
    BY DEF g4
  <2>4. g4.st = [g3.st EXCEPT ![d] = "submitted"]
    BY <2>5, LearnsState
  <2> QED
    BY <2>1, <2>2, <2>3, <2>4
<1> HIDE DEF R, T, cs, r1, r2, r3, r4, g1, g2, g3, g4
<1>9. Reached(h, s1, g1, 1, T)
  <2>1. Reached(h, s1, g1, 0 + 1, T)
    <3>1. 0 \in Nat
      OBVIOUS
    <3> QED
      BY <1>1, <1>2, <1>3, <1>8, <3>1, NextReceipt DEF g1, r1
  <2> QED
    BY <2>1
<1>17. /\ h.st \in [Commands -> States \cup {"none"}]
       /\ g1.st[c] = "prepared" /\ \A x \in Commands : x # c => g1.st[x] = h.st[x]
  <2>1. h.st \in [Commands -> States \cup {"none"}]
    BY <1>1 DEF HandleType
  <2> QED
    BY <1>16, <2>1
<1>18. Writable(g1, c, "submitted")
  BY <1>17 DEF Writable, Follows, AllowedTransition
<1> HIDE DEF s1
<1>10. Reached(h, s2, g2, 2, T)
  <2>1. Reached(h, s2, g2, 1 + 1, T)
    <3>1. 1 \in Nat
      OBVIOUS
    <3> QED
      BY <1>1, <1>2, <1>3, <1>9, <1>18, <3>1, NextReceipt DEF g2, r2
  <2> QED
    BY <2>1
<1>19. /\ g2 \in HandleType
       /\ g2.st[c] = "submitted" /\ \A x \in Commands : x # c => g2.st[x] = h.st[x]
  <2>1. g1 \in HandleType /\ g2 \in HandleType
    BY <1>9, <1>10 DEF Reached, Synced
  <2>2. g1.st \in [Commands -> States \cup {"none"}]
    BY <2>1 DEF HandleType
  <2> QED
    BY <1>16, <1>17, <2>1, <2>2
<1>20. Writable(g2, d, "prepared")
  <2>1. g2.st[c] # "none"
    BY <1>19
  <2> QED
    BY <1>1, <1>19, <2>1, AlsoAdmissible
<1> HIDE DEF s2
<1>11. Reached(h, s3, g3, 3, T)
  <2>1. Reached(h, s3, g3, 2 + 1, T)
    <3>1. 2 \in Nat
      OBVIOUS
    <3> QED
      BY <1>1, <1>2, <1>3, <1>10, <1>20, <3>1, NextReceipt DEF g3, r3
  <2> QED
    BY <2>1
<1>21. g3.st[d] = "prepared" /\ g3.st[c] = "submitted"
       /\ g3.st \in [Commands -> States \cup {"none"}]
  <2>1. g3 \in HandleType /\ g2.st \in [Commands -> States \cup {"none"}]
    BY <1>11, <1>19 DEF Reached, Synced, HandleType
  <2>2. g3.st \in [Commands -> States \cup {"none"}]
    BY <2>1 DEF HandleType
  <2> QED
    BY <1>16, <1>19, <2>1, <2>2
<1>22. Writable(g3, d, "submitted")
  BY <1>21 DEF Writable, Follows, AllowedTransition
<1> HIDE DEF s3
<1>12. Reached(h, s4, g4, 4, T)
  <2>1. Reached(h, s4, g4, 3 + 1, T)
    <3>1. 3 \in Nat
      OBVIOUS
    <3> QED
      BY <1>1, <1>2, <1>3, <1>11, <1>22, <3>1, NextReceipt DEF g4, r4
  <2> QED
    BY <2>1
<1>13. LearnsAll(h, R) = g4
  <2>1. 1 \in DOMAIN R /\ 2 \in DOMAIN R /\ 3 \in DOMAIN R /\ 4 \in DOMAIN R
    BY <1>5
  <2> QED
    BY <1>4, <1>5, <2>1 DEF LearnsAll, g1, g2, g3, g4
<1>14. /\ log \o SubSeq(R, 1, 0) = log /\ log \o SubSeq(R, 1, 1) = s1
       /\ log \o SubSeq(R, 1, 2) = s2 /\ log \o SubSeq(R, 1, 3) = s3
       /\ log \o SubSeq(R, 1, 4) = s4 /\ log \o R = s4
  <2>1. /\ 0 \in 0..(Len(R) - 1) /\ 1 \in 0..(Len(R) - 1) /\ 0 + 1 = 1 /\ 1 + 1 = 2
        /\ 2 \in 0..(Len(R) - 1) /\ 3 \in 0..(Len(R) - 1) /\ 2 + 1 = 3 /\ 3 + 1 = 4
    BY <1>6
  <2>2. log \o SubSeq(R, 1, 0) = log /\ SubSeq(R, 1, 4) = R
    BY <1>1, <1>6, PrefixGrows
  <2>7. \A k \in 0..(Len(R) - 1) :
          log \o SubSeq(R, 1, k + 1) = Append(log \o SubSeq(R, 1, k), R[k + 1])
    BY <1>1, <1>6, PrefixGrows
  <2>3. log \o SubSeq(R, 1, 1) = Append(log \o SubSeq(R, 1, 0), R[1])
    BY <2>1, <2>7
  <2>4. log \o SubSeq(R, 1, 2) = Append(log \o SubSeq(R, 1, 1), R[2])
    BY <2>1, <2>7
  <2>5. log \o SubSeq(R, 1, 3) = Append(log \o SubSeq(R, 1, 2), R[3])
    BY <2>1, <2>7
  <2>6. log \o SubSeq(R, 1, 4) = Append(log \o SubSeq(R, 1, 3), R[4])
    BY <2>1, <2>7
  <2> QED
    BY <1>5, <2>2, <2>3, <2>4, <2>5, <2>6 DEF s1, s2, s3
<1> HIDE DEF s4
<1>15. Outcome(h, cs, T)
  <2>1. Reached(h, log \o R, LearnsAll(h, R), Len(cs), T)
    BY <1>7, <1>12, <1>13, <1>14
  <2>2. ASSUME NEW k \in 0..Len(cs) PROVE \E g : Reached(h, log \o SubSeq(R, 1, k), g, k, T)
    <3>1. k = 0 \/ k = 1 \/ k = 2 \/ k = 3 \/ k = 4
      BY <1>7
    <3> QED
      BY <1>8, <1>9, <1>10, <1>11, <1>12, <1>14, <3>1
  <2> QED
    BY <2>1, <2>2 DEF Outcome, R
<1>23. LearnsAll(h, R).st[c] = "submitted" /\ LearnsAll(h, R).st[d] = "submitted"
  BY <1>13, <1>16, <1>21
<1> QED
  BY <1>15, <1>23 DEF cs, T, R

-----------------------------------------------------------------------------
(* What a write keeps, whoever it is by and however much of it is written. *)

(* An open handle has its fields.                                          *)
LEMMA HandleIs ==
  ASSUME TypeOK, NEW p \in Handles, IsOpen(p)
  PROVE  hd[p] \in HandleType
BY DEF TypeOK, IsOpen, Closed

(* A handle that fits the file knows it.                                   *)
LEMMA FreshIsSynced ==
  ASSUME JournalInv, NEW p \in Handles, IsOpen(p), Fresh(p)
  PROVE  Synced(log, hd[p])
<1>1. log \in Seq(Record) /\ hd[p] \in HandleType
  BY HandleIs DEF JournalInv, TypeOK
<1>2. hd[p].next >= 1 /\ hd[p].index = IndexOf(hd[p].st)
  BY DEF JournalInv, HandlesSound
<1>3. Near(log, hd[p])
  BY DEF JournalInv, KnowledgeSound
<1>4. ASSUME Unforked PROVE Exact(log, hd[p])
  <2>1. hd[p].st = StatesOf(log) /\ hd[p].next = Len(log) + 1
    BY <1>4 DEF JournalInv, KnowledgeSound
  <2>2. hd[p].root = Pairs(log, hd[p].next - 1)
    BY <1>4 DEF JournalInv, HandlesSound
  <2>3. hd[p].next - 1 = Len(log)
    BY <1>1, <2>1
  <2>4. Accepted(log)
    BY <1>4 DEF JournalInv, FilesSound
  <2> QED
    BY <2>1, <2>2, <2>3, <2>4 DEF Exact
<1> QED
  BY <1>1, <1>2, <1>3, <1>4 DEF Synced

(* What a handle has not seen or not submitted was not sent, and nobody is *)
(* about to send it.                                                       *)
LEMMA NotYetSent ==
  ASSUME JournalInv, NEW p \in Handles, IsOpen(p), Fresh(p), NEW x \in Commands,
         hd[p].st[x] \in {"none", "prepared"}
  PROVE  /\ sent[x] = 0 /\ ex[x] = "none"
         /\ \A q \in Handles : x \in calls[q] => q = p
<1>1. hd[p].st[x] = LastState(log, x) \/ Missed(log, hd[p], x)
  BY DEF JournalInv, KnowledgeSound, Near
<1>2. sent[x] \in Nat /\ ~(sent[x] > 0) => sent[x] = 0
  BY DEF JournalInv, TypeOK
<1>3. sent[x] = 0
  <2>1. CASE hd[p].st[x] = LastState(log, x)
    BY <1>2, <2>1 DEF JournalInv, SendsSound, TypeOK
  <2>2. CASE Missed(log, hd[p], x)
    BY <2>2 DEF Missed
  <2> QED
    BY <1>1, <2>1, <2>2
<1>4. ex[x] = "none"
  BY <1>3 DEF JournalInv, SendsSound
<1>5. ASSUME NEW q \in Handles, x \in calls[q] PROVE q = p
  <2>1. LastState(log, x) \in {"submitted", "unknown", "accepted", "rejected"}
    BY <1>5 DEF JournalInv, CallsSound, Pending
  <2>2. Missed(log, hd[p], x)
    BY <1>1, <2>1
  <2>3. setting.locked
    BY <2>2 DEF Missed
  <2>4. IsOpen(q)
    BY <1>5 DEF JournalInv, OnlyReadySend, Ready, IsOpen
  <2> QED
    BY <2>3, <2>4 DEF JournalInv, HandlesSound
<1> QED
  BY <1>3, <1>4, <1>5

(* The file after some receipts of a handle, as the others see it.         *)
Grown(p, T) ==
    /\ Extends(log, log')
    /\ Unforked => Accepted(log')
    /\ \A x \in Commands :
        \/ LastState(log', x) = LastState(log, x)
        \/ x \in T /\ Moves(hd[p], x, LastState(log', x))

(* A file that grew keeps what it says of sends and outcomes.              *)
LEMMA FileKeeps ==
  ASSUME JournalInv, NEW p \in Handles, IsOpen(p), Fresh(p), NEW T, Grown(p, T),
         ex' = ex, sent' = sent
  PROVE  /\ SendsSound' /\ WriteAhead' /\ TellsTruth'
         /\ \A q \in Handles : \A x \in calls[q] :
              Written(x)' /\ Pending(x, LastState(log, x))'
<1>1. \A x \in Commands : \/ LastState(log', x) = LastState(log, x)
                          \/ Moves(hd[p], x, LastState(log', x))
  BY DEF Grown
<1>2. \A x \in Commands : hd[p].st[x] = LastState(log, x) \/ Missed(log, hd[p], x)
  BY DEF JournalInv, KnowledgeSound, Near
<1>3. \A i \in DOMAIN log : i \in DOMAIN log' /\ log'[i] = log[i]
  BY DEF Grown, Extends
<1>4. \A x : Written(x) => Written(x)'
  BY <1>3 DEF Written
<1>5. SendsSound'
  <2> SUFFICES ASSUME NEW x \in Commands
               PROVE  /\ sent[x] = 0 => ex[x] = "none"
                      /\ sent[x] > 0 => LastState(log', x) \notin {"none", "prepared"}
    BY DEF SendsSound
  <2>1. sent[x] = 0 => ex[x] = "none"
    BY DEF JournalInv, SendsSound
  <2>2. ASSUME sent[x] > 0 PROVE LastState(log', x) \notin {"none", "prepared"}
    <3>1. LastState(log, x) \notin {"none", "prepared"}
      BY <2>2 DEF JournalInv, SendsSound
    <3>2. hd[p].st[x] \notin {"none", "prepared"}
      <4> SUFFICES ASSUME hd[p].st[x] \in {"none", "prepared"} PROVE FALSE
        OBVIOUS
      <4>1. sent[x] = 0
        BY NotYetSent
      <4> QED
        BY <2>2, <4>1
    <3> QED
      BY <1>1, <3>1, <3>2 DEF Moves
  <2> QED
    BY <2>1, <2>2
<1>6. WriteAhead'
  <2>1. \A x \in Commands : sent[x] <= 1 /\ (sent[x] > 0 => Written(x))
    BY DEF JournalInv, WriteAhead, Written
  <2>2. \A x \in Commands : sent'[x] <= 1 /\ (sent'[x] > 0 => Written(x)')
    BY <1>4, <2>1
  <2> QED
    BY <2>2 DEF WriteAhead, Written
<1>7. TellsTruth'
  <2> SUFFICES ASSUME NEW x \in Commands PROVE Backed(x, LastState(log', x))
    BY DEF TellsTruth, Backed, Over
  <2>1. CASE LastState(log', x) = LastState(log, x)
    BY <2>1 DEF JournalInv, TellsTruth
  <2>2. CASE Moves(hd[p], x, LastState(log', x))
    <3>1. hd[p].st[x] = "prepared" => ex[x] = "none"
      BY NotYetSent
    <3>2. Produced(x, LastState(log', x)) => Backed(x, LastState(log', x))
      BY DEF Produced, Backed, Taken
    <3> QED
      BY <2>2, <3>1, <3>2 DEF Moves, Backed, Taken
  <2> QED
    BY <1>1, <2>1, <2>2
<1>8. ASSUME NEW q \in Handles, NEW x \in calls[q]
      PROVE  Written(x)' /\ Pending(x, LastState(log, x))'
  <2>1. /\ Written(x) /\ Pending(x, LastState(log, x)) /\ sent[x] = 0
        /\ hd[q].st[x] = "submitted"
    BY DEF JournalInv, CallsSound
  <2>2. x \in Commands
    BY DEF JournalInv, TypeOK
  <2>3. ex[x] = "none"
    BY <2>1, <2>2 DEF JournalInv, SendsSound
  <2>4. hd[p].st[x] \notin {"none", "prepared"}
    <3> SUFFICES ASSUME hd[p].st[x] \in {"none", "prepared"} PROVE FALSE
      OBVIOUS
    <3>1. q = p
      BY <2>2, NotYetSent
    <3> QED
      BY <2>1, <3>1
  <2>5. Pending(x, LastState(log', x))
    <3>1. CASE LastState(log', x) = LastState(log, x)
      BY <2>1, <3>1
    <3>2. CASE Moves(hd[p], x, LastState(log', x))
      <4>1. Produced(x, LastState(log', x)) => x \in Cancels /\ Over(Target[x])
        BY <2>3 DEF Produced, Taken
      <4> QED
        BY <2>4, <3>2, <4>1 DEF Moves, Pending
    <3> QED
      BY <1>1, <2>2, <3>1, <3>2
  <2> QED
    BY <1>4, <2>1, <2>5 DEF Pending, Over
<1> QED
  BY <1>5, <1>6, <1>7, <1>8

(* What holds after a write about the commands T, failed or not.           *)
Kept(p, T) ==
    /\ FilesSound' /\ HandlesSound' /\ KnowledgeSound' /\ MarkSound'
    /\ SendsSound' /\ WriteAhead' /\ TellsTruth'
    /\ log' \in Seq(Record) /\ base' \in 0..Len(log') /\ torn' \in {"none", "active", "archived"}
    /\ hd' \in [Handles -> HandleType \cup {Closed}]
    /\ failures' \in Nat /\ rotateFailures' \in Nat
    /\ \A q \in Handles : \A x \in calls[q] :
         Written(x)' /\ Pending(x, LastState(log, x))'
    /\ \A q \in Handles : q # p => hd'[q] = hd[q]
    /\ hd'[p] = Closed \/ hd'[p].phase = hd[p].phase
    /\ \A x \in Commands : x \notin T /\ hd'[p] # Closed => hd'[p].st[x] = hd[p].st[x]

(* A file that did not get longer is the same.                             *)
LEMMA SameFile ==
  ASSUME NEW s \in Seq(Record), NEW t, Extends(s, t), Len(t) = Len(s)
  PROVE  t = s
BY DEF Extends

(* The file only grows, so what others have taken from it stays true.      *)
LEMMA OthersKeep ==
  ASSUME JournalInv, NEW p \in Handles, IsOpen(p), Extends(log, log'),
         NEW q \in Handles, q # p, hd'[q] = hd[q], IsOpen(q)',
         base' = base, setting' = setting, sent' = sent, torn' \in {torn, "active"},
         failures' >= failures
  PROVE  /\ IsOpen(q) /\ ~ setting.locked
         /\ hd'[q].index = IndexOf(hd'[q].st) /\ hd'[q].next >= 1
         /\ hd'[q].len <= Len(log')
         /\ Unforked' => /\ hd'[q].next <= Len(log') + 1
                         /\ hd'[q].root = Pairs(log', hd'[q].next - 1)
         /\ (Unforked' /\ (Fresh(q)' \/ (setting'.locked /\ failures' = 0))) =>
              hd'[q].st = StatesOf(log') /\ hd'[q].next = Len(log') + 1
         /\ Fresh(q)' => Near(log, hd[q])'
<1>1. IsOpen(q)
  BY DEF IsOpen
<1>2. ~ setting.locked
  BY <1>1 DEF JournalInv, HandlesSound
<1>3. hd[q] \in HandleType
  BY <1>1, HandleIs DEF JournalInv
<1>4. /\ base = 0 /\ Unforked /\ hd[q].len <= Len(log)
      /\ hd[q].index = IndexOf(hd[q].st) /\ hd[q].next >= 1
      /\ hd[q].next <= Len(log) + 1 /\ hd[q].root = Pairs(log, hd[q].next - 1)
  <2>1. base = 0
    BY <1>2 DEF JournalInv, FilesSound
  <2>2. Unforked
    BY <2>1 DEF Unforked
  <2> QED
    BY <1>1, <1>2, <2>1, <2>2 DEF JournalInv, HandlesSound
<1>5. log \in Seq(Record) /\ log' \in Seq(Record) /\ Len(log) <= Len(log')
      /\ Len(log) \in Nat /\ Len(log') \in Nat /\ hd[q].len \in Nat /\ hd[q].next \in Nat
  BY <1>3 DEF JournalInv, TypeOK, Extends, HandleType
<1>6. hd[q].next - 1 \in Nat /\ hd[q].next - 1 <= Len(log)
  BY <1>4, <1>5
<1>7. Pairs(log', hd[q].next - 1) = Pairs(log, hd[q].next - 1)
  BY <1>6 DEF Extends
<1>8. ASSUME Fresh(q)'
      PROVE  hd[q].st = StatesOf(log') /\ hd[q].next = Len(log') + 1 /\ Near(log, hd[q])'
  <2>1. torn' # "active" /\ hd[q].len = Len(log')
    BY <1>4, <1>5, <1>8 DEF Fresh
  <2>2. Len(log') = Len(log)
    BY <1>4, <1>5, <2>1
  <2>3. log' = log
    BY <1>5, <2>2, SameFile
  <2>4. Fresh(q)
    BY <1>4, <2>1, <2>2, <1>5 DEF Fresh
  <2>5. hd[q].st = StatesOf(log) /\ hd[q].next = Len(log) + 1 /\ Near(log, hd[q])
    BY <1>1, <1>4, <2>4 DEF JournalInv, KnowledgeSound
  <2> QED
    BY <2>3, <2>5 DEF Near, Missed
<1> QED
  BY <1>1, <1>2, <1>4, <1>5, <1>7, <1>8

(* append_encoded and append_batch that succeed.                           *)
LEMMA WriteSucceeds ==
  ASSUME JournalInv, NEW p \in Handles, IsOpen(p), NEW cs, NEW T, Len(cs) \in Nat,
         Fresh(p) => Outcome(hd[p], cs, T), Appends(p, cs),
         setting' = setting, ex' = ex, sent' = sent, mark' = mark
  PROVE  /\ Kept(p, T) /\ Fresh(p)
         /\ hd'[p] = LearnsAll(hd[p], Receipts(hd[p], cs))
         /\ hd'[p] # Closed
         /\ \A x \in Commands : x \in T => hd'[p].st[x] = LastState(log', x) \/ hd'[p].st[x] = hd[p].st[x]
<1> DEFINE R == Receipts(hd[p], cs)
           g == LearnsAll(hd[p], R)
<1>1. /\ Fresh(p) /\ log' = log \o R /\ hd' = [hd EXCEPT ![p] = g]
      /\ base' = base /\ torn' = torn /\ failures' = failures /\ rotateFailures' = rotateFailures
  BY DEF Appends
<1>2. Reached(hd[p], log', g, Len(cs), T)
  BY <1>1 DEF Outcome
<1> HIDE DEF R, g
<1>3. /\ log \in Seq(Record) /\ base \in 0..Len(log) /\ hd \in [Handles -> HandleType \cup {Closed}]
      /\ torn \in {"none", "active", "archived"} /\ failures \in Nat /\ rotateFailures \in Nat
      /\ hd[p] \in HandleType /\ hd[p].len \in Nat
  <2>1. hd[p] \in HandleType
    BY HandleIs DEF JournalInv
  <2> QED
    BY <2>1 DEF JournalInv, TypeOK, HandleType
<1>4. hd'[p] = g /\ \A q \in Handles : q # p => hd'[q] = hd[q]
  BY <1>1, <1>3
<1>5. /\ Synced(log', g) /\ Extends(log, log') /\ Len(log') = Len(log) + Len(cs)
      /\ g.len = hd[p].len + Len(cs) /\ g.phase = hd[p].phase
      /\ \A x \in Commands :
           \/ LastState(log', x) = LastState(log, x) /\ g.st[x] = hd[p].st[x]
           \/ x \in T /\ g.st[x] = LastState(log', x) /\ Moves(hd[p], x, LastState(log', x))
  BY <1>2 DEF Reached
<1>6. /\ log' \in Seq(Record) /\ g \in HandleType /\ g.next >= 1 /\ g.index = IndexOf(g.st)
      /\ Near(log', g) /\ (Unforked => Exact(log', g))
  BY <1>5 DEF Synced
<1>7. g # Closed /\ g.len \in Nat
  BY <1>6 DEF HandleType, Closed
<1>8. hd' \in [Handles -> HandleType \cup {Closed}] /\ base' \in 0..Len(log')
  BY <1>1, <1>3, <1>5, <1>6
<1>9. Unforked' <=> Unforked
  BY <1>1 DEF Unforked
<1>10. ASSUME Unforked PROVE Accepted(log')
  BY <1>6, <1>10 DEF Exact
<1>11. Grown(p, T)
  BY <1>5, <1>10 DEF Grown
<1>12. /\ SendsSound' /\ WriteAhead' /\ TellsTruth'
       /\ \A q \in Handles : \A x \in calls[q] :
            Written(x)' /\ Pending(x, LastState(log, x))'
  BY <1>1, <1>11, FileKeeps
<1>13. FilesSound'
  BY <1>1, <1>9, <1>10 DEF JournalInv, FilesSound
<1>14. MarkSound'
  <2> SUFFICES ASSUME Unforked
               PROVE  mark.tail <= Len(log') /\ mark.root = Pairs(log', mark.tail)
    BY <1>9 DEF MarkSound
  <2>1. mark.tail \in Nat /\ mark.tail <= Len(log) /\ mark.root = Pairs(log, mark.tail)
    BY DEF JournalInv, MarkSound, TypeOK
  <2>2. Pairs(log', mark.tail) = Pairs(log, mark.tail)
    BY <1>5, <2>1 DEF Extends
  <2>3. Len(log) <= Len(log') /\ Len(log) \in Nat /\ Len(log') \in Nat
    BY <1>3, <1>5, <1>6 DEF Extends
  <2> QED
    BY <2>1, <2>2, <2>3
<1>15. ASSUME NEW q \in Handles, IsOpen(q)', q # p
       PROVE  /\ IsOpen(q) /\ ~ setting.locked
              /\ hd'[q].index = IndexOf(hd'[q].st) /\ hd'[q].next >= 1
              /\ hd'[q].len <= Len(log')
              /\ Unforked' => /\ hd'[q].next <= Len(log') + 1
                              /\ hd'[q].root = Pairs(log', hd'[q].next - 1)
              /\ (Unforked' /\ (Fresh(q)' \/ (setting'.locked /\ failures' = 0))) =>
                   hd'[q].st = StatesOf(log') /\ hd'[q].next = Len(log') + 1
              /\ Fresh(q)' => Near(log, hd[q])'
  <2>1. /\ hd'[q] = hd[q] /\ torn' \in {torn, "active"} /\ failures' >= failures
        /\ Extends(log, log')
    BY <1>1, <1>3, <1>4, <1>5, <1>15
  <2> QED
    BY <1>1, <1>15, <2>1, OthersKeep
<1>16. \A q \in Handles : IsOpen(q)' => IsOpen(q)
  BY <1>15
<1>17. HandlesSound'
  <2> SUFFICES ASSUME NEW q \in Handles, IsOpen(q)'
               PROVE  /\ hd'[q].index = IndexOf(hd'[q].st) /\ hd'[q].next >= 1
                      /\ setting.locked => \A o \in Handles : IsOpen(o)' => o = q
                      /\ ~ setting.locked => hd'[q].len <= Len(log')
                      /\ Unforked' => /\ hd'[q].next <= Len(log') + 1
                                      /\ hd'[q].root = Pairs(log', hd'[q].next - 1)
    BY DEF HandlesSound
  <2>1. setting.locked => \A o \in Handles : IsOpen(o)' => o = q
    BY <1>16 DEF JournalInv, HandlesSound
  <2>2. CASE q # p
    BY <1>15, <2>1, <2>2
  <2>3. CASE q = p
    <3>1. ~ setting.locked => g.len <= Len(log')
      <4>1. ~ setting.locked => base = 0
        BY DEF JournalInv, FilesSound
      <4>2. hd[p].len = Len(log) - base
        BY <1>1 DEF Fresh
      <4> QED
        BY <1>3, <1>5, <4>1, <4>2
    <3>2. Unforked => g.next <= Len(log') + 1 /\ g.root = Pairs(log', g.next - 1)
      <4> SUFFICES ASSUME Unforked PROVE g.next <= Len(log') + 1 /\ g.root = Pairs(log', g.next - 1)
        OBVIOUS
      <4>1. g.next = Len(log') + 1 /\ g.root = Pairs(log', Len(log')) /\ Len(log') \in Nat
        BY <1>6 DEF Exact
      <4>2. g.next - 1 = Len(log') /\ g.next <= Len(log') + 1
        BY <4>1
      <4> QED
        BY <4>1, <4>2
    <3> QED
      BY <1>4, <1>6, <1>9, <2>1, <2>3, <3>1, <3>2
  <2> QED
    BY <2>2, <2>3
<1>18. KnowledgeSound'
  <2> SUFFICES ASSUME NEW q \in Handles, IsOpen(q)'
               PROVE  /\ (Unforked' /\ (Fresh(q)' \/ (setting'.locked /\ failures' = 0))) =>
                           hd'[q].st = StatesOf(log') /\ hd'[q].next = Len(log') + 1
                      /\ Fresh(q)' => Near(log, hd[q])'
                      /\ setting'.locked => \A c \in Commands :
                           \/ hd'[q].st[c] = LastState(log', c) \/ Missed(log, hd[q], c)'
                           \/ hd'[q].st[c] \in Unresolved
    BY DEF KnowledgeSound
  <2>1. CASE q # p
    BY <1>15, <2>1
  <2>2. CASE q = p
    <3>1. Unforked' => g.st = StatesOf(log') /\ g.next = Len(log') + 1
      BY <1>6, <1>9 DEF Exact
    <3>3. \A c \in Commands : g.st[c] = LastState(log', c) \/ Missed(log', g, c)
      BY <1>6 DEF Near
    <3>4. \A c \in Commands : hd'[p].st[c] = LastState(log', c) \/ Missed(log, hd[p], c)'
      BY <1>4, <3>3 DEF Missed
    <3>2. Near(log, hd[p])'
      BY <3>4 DEF Near
    <3> QED
      BY <1>4, <2>2, <3>1, <3>2, <3>4
  <2> QED
    BY <2>1, <2>2
<1>20. Kept(p, T)
  BY <1>1, <1>3, <1>4, <1>5, <1>6, <1>8, <1>12, <1>13, <1>14, <1>17, <1>18 DEF Kept
<1> QED
  BY <1>1, <1>4, <1>5, <1>7, <1>20 DEF g, R

(* An append that is refused or fails leaves a handle that no longer fits  *)
(* what was written, or that is closed.                                    *)
LEMMA WriteFails ==
  ASSUME JournalInv, NEW p \in Handles, IsOpen(p), NEW cs, NEW T, Len(cs) \in Nat,
         Fresh(p) => Outcome(hd[p], cs, T), AppendFails(p, cs),
         hd' = hd \/ hd' = [hd EXCEPT ![p] = Closed],
         setting' = setting, ex' = ex, sent' = sent, mark' = mark
  PROVE  Kept(p, T)
<1>1. base' = base /\ rotateFailures' = rotateFailures
  BY DEF AppendFails
<1>2. /\ log \in Seq(Record) /\ base \in 0..Len(log) /\ hd \in [Handles -> HandleType \cup {Closed}]
      /\ torn \in {"none", "active", "archived"} /\ failures \in Nat /\ rotateFailures \in Nat
      /\ hd[p] \in HandleType /\ hd[p].len \in Nat /\ hd[p].next \in Nat /\ Len(log) \in Nat
      /\ sent \in [Commands -> Nat]
  <2>1. hd[p] \in HandleType
    BY HandleIs DEF JournalInv
  <2> QED
    BY <2>1 DEF JournalInv, TypeOK, HandleType
<1>3. /\ \A q \in Handles : q # p => hd'[q] = hd[q]
      /\ hd'[p] = hd[p] \/ hd'[p] = Closed
      /\ hd' \in [Handles -> HandleType \cup {Closed}]
  BY <1>2
<1>4. ~ IsOpen(p)' \/ hd'[p] = hd[p]
  BY <1>3 DEF IsOpen, Closed
<1>5. /\ Extends(log, log') /\ (Unforked => Accepted(log')) /\ torn' \in {torn, "active"}
      /\ \/ log' = log /\ torn' = torn /\ failures' = failures
         \/ Fresh(p) /\ failures' = failures + 1
      /\ \A x \in Commands :
           \/ LastState(log', x) = LastState(log, x)
           \/ x \in T /\ Fresh(p) /\ Moves(hd[p], x, LastState(log', x))
  <2>1. CASE ~ Fresh(p)
    <3>1. log' = log /\ torn' = torn /\ failures' = failures
      BY <2>1 DEF AppendFails
    <3>2. Extends(log, log')
      BY <1>2, <3>1 DEF Extends
    <3>3. Unforked => Accepted(log')
      BY <3>1 DEF JournalInv, FilesSound
    <3> QED
      BY <3>1, <3>2, <3>3
  <2>2. CASE Fresh(p)
    <3>1. PICK k \in 0..Len(cs) :
            /\ failures' = failures + 1
            /\ log' = log \o SubSeq(Receipts(hd[p], cs), 1, k)
            /\ torn' \in (IF k < Len(cs) THEN {torn, "active"} ELSE {torn})
      BY <2>2 DEF AppendFails
    <3>2. PICK g : Reached(hd[p], log', g, k, T)
      BY <2>2, <3>1 DEF Outcome
    <3>3. /\ Synced(log', g) /\ Extends(log, log')
          /\ \A x \in Commands :
               \/ LastState(log', x) = LastState(log, x)
               \/ x \in T /\ Moves(hd[p], x, LastState(log', x))
      BY <3>2 DEF Reached
    <3>4. Unforked => Accepted(log')
      BY <3>3 DEF Synced, Exact
    <3> QED
      BY <2>2, <3>1, <3>3, <3>4
  <2> QED
    BY <2>1, <2>2
<1>6. /\ log' \in Seq(Record) /\ Len(log') \in Nat /\ Len(log) <= Len(log')
      /\ base' \in 0..Len(log') /\ failures' \in Nat /\ failures' >= failures
      /\ torn' \in {"none", "active", "archived"} /\ rotateFailures' \in Nat
  <2>1. log' \in Seq(Record) /\ Len(log) <= Len(log')
    BY <1>5 DEF Extends
  <2> QED
    BY <1>1, <1>2, <1>5, <2>1
<1>7. Unforked' => Unforked
  BY <1>1, <1>2, <1>5 DEF Unforked
<1>8. Fresh(p) => Grown(p, T)
  BY <1>5 DEF Grown
<1>9. /\ SendsSound' /\ WriteAhead' /\ TellsTruth'
      /\ \A q \in Handles : \A x \in calls[q] :
           Written(x)' /\ Pending(x, LastState(log, x))'
  <2>1. CASE Fresh(p)
    BY <1>8, <2>1, FileKeeps
  <2>2. CASE ~ Fresh(p)
    <3>1. log' = log
      BY <1>5, <2>2
    <3>2. SendsSound /\ WriteAhead /\ TellsTruth /\ CallsSound
      BY DEF JournalInv
    <3>3. SendsSound'
      BY <3>1, <3>2 DEF SendsSound
    <3>4. WriteAhead'
      BY <3>1, <3>2 DEF WriteAhead
    <3>5. TellsTruth'
      BY <3>1, <3>2 DEF TellsTruth, Backed, Over
    <3> QED
      BY <3>1, <3>2, <3>3, <3>4, <3>5 DEF CallsSound, Written, Pending, Over
  <2> QED
    BY <2>1, <2>2
<1>10. FilesSound'
  BY <1>1, <1>5, <1>7 DEF JournalInv, FilesSound
<1>11. MarkSound'
  <2> SUFFICES ASSUME Unforked
               PROVE  mark.tail <= Len(log') /\ mark.root = Pairs(log', mark.tail)
    BY <1>7 DEF MarkSound
  <2>1. mark.tail \in Nat /\ mark.tail <= Len(log) /\ mark.root = Pairs(log, mark.tail)
    BY DEF JournalInv, MarkSound, TypeOK
  <2>2. Pairs(log', mark.tail) = Pairs(log, mark.tail)
    BY <1>5, <2>1 DEF Extends
  <2> QED
    BY <1>2, <1>6, <2>1, <2>2
<1>12. ASSUME NEW q \in Handles, IsOpen(q)', q # p
       PROVE  /\ IsOpen(q) /\ ~ setting.locked
              /\ hd'[q].index = IndexOf(hd'[q].st) /\ hd'[q].next >= 1
              /\ hd'[q].len <= Len(log')
              /\ Unforked' => /\ hd'[q].next <= Len(log') + 1
                              /\ hd'[q].root = Pairs(log', hd'[q].next - 1)
              /\ (Unforked' /\ (Fresh(q)' \/ (setting'.locked /\ failures' = 0))) =>
                   hd'[q].st = StatesOf(log') /\ hd'[q].next = Len(log') + 1
              /\ Fresh(q)' => Near(log, hd[q])'
  <2>1. hd'[q] = hd[q]
    BY <1>3, <1>12
  <2> QED
    BY <1>1, <1>5, <1>6, <1>12, <2>1, OthersKeep
<1>13. \A q \in Handles : IsOpen(q)' => IsOpen(q)
  BY <1>12
<1>14. HandlesSound'
  <2> SUFFICES ASSUME NEW q \in Handles, IsOpen(q)'
               PROVE  /\ hd'[q].index = IndexOf(hd'[q].st) /\ hd'[q].next >= 1
                      /\ setting.locked => \A o \in Handles : IsOpen(o)' => o = q
                      /\ ~ setting.locked => hd'[q].len <= Len(log')
                      /\ Unforked' => /\ hd'[q].next <= Len(log') + 1
                                      /\ hd'[q].root = Pairs(log', hd'[q].next - 1)
    BY DEF HandlesSound
  <2>1. setting.locked => \A o \in Handles : IsOpen(o)' => o = q
    BY <1>13 DEF JournalInv, HandlesSound
  <2>2. CASE q # p
    BY <1>12, <2>1, <2>2
  <2>3. CASE q = p
    <3>1. hd'[p] = hd[p]
      BY <1>4, <2>3
    <3>2. /\ hd[p].index = IndexOf(hd[p].st) /\ hd[p].next >= 1
          /\ ~ setting.locked => hd[p].len <= Len(log)
          /\ Unforked => hd[p].next <= Len(log) + 1 /\ hd[p].root = Pairs(log, hd[p].next - 1)
      BY DEF JournalInv, HandlesSound
    <3>3. ~ setting.locked => hd[p].len <= Len(log')
      BY <1>2, <1>6, <3>2
    <3>4. ASSUME Unforked
          PROVE  hd[p].next <= Len(log') + 1 /\ hd[p].root = Pairs(log', hd[p].next - 1)
      <4>1. hd[p].next - 1 \in Nat /\ hd[p].next - 1 <= Len(log)
        BY <1>2, <3>2, <3>4
      <4>2. Pairs(log', hd[p].next - 1) = Pairs(log, hd[p].next - 1)
        BY <1>5, <4>1 DEF Extends
      <4>3. hd[p].next <= Len(log') + 1
        BY <1>2, <1>6, <3>2, <3>4
      <4> QED
        BY <3>2, <3>4, <4>2, <4>3
    <3> QED
      BY <1>7, <2>1, <2>3, <3>1, <3>2, <3>3, <3>4
  <2> QED
    BY <2>2, <2>3
<1>15. KnowledgeSound'
  <2> SUFFICES ASSUME NEW q \in Handles, IsOpen(q)'
               PROVE  /\ (Unforked' /\ (Fresh(q)' \/ (setting'.locked /\ failures' = 0))) =>
                           hd'[q].st = StatesOf(log') /\ hd'[q].next = Len(log') + 1
                      /\ Fresh(q)' => Near(log, hd[q])'
                      /\ setting'.locked => \A c \in Commands :
                           \/ hd'[q].st[c] = LastState(log', c) \/ Missed(log, hd[q], c)'
                           \/ hd'[q].st[c] \in Unresolved
    BY DEF KnowledgeSound
  <2>1. CASE q # p
    BY <1>12, <2>1
  <2>2. CASE q = p
    <3>1. hd'[p] = hd[p]
      BY <1>4, <2>2
    <3>2. /\ (Unforked /\ (Fresh(p) \/ (setting.locked /\ failures = 0))) =>
               hd[p].st = StatesOf(log) /\ hd[p].next = Len(log) + 1
          /\ Fresh(p) => Near(log, hd[p])
          /\ setting.locked => \A c \in Commands :
               hd[p].st[c] = LastState(log, c) \/ Missed(log, hd[p], c) \/ hd[p].st[c] \in Unresolved
      BY DEF JournalInv, KnowledgeSound
    <3>3. CASE log' = log /\ torn' = torn /\ failures' = failures
      <4>1. /\ Fresh(p)' <=> Fresh(p)
            /\ Near(log, hd[p])' <=> Near(log, hd[p])
            /\ \A c \in Commands : Missed(log, hd[p], c)' <=> Missed(log, hd[p], c)
        BY <1>1, <3>1, <3>3 DEF Fresh, Near, Missed
      <4> QED
        BY <1>7, <2>2, <3>1, <3>2, <3>3, <4>1
    <3>4. CASE Fresh(p) /\ failures' = failures + 1
      <4>1. ~(failures' = 0)
        BY <1>2, <3>4
      <4>2. ASSUME Fresh(p)'
            PROVE  hd'[p].st = hd[p].st /\ log' = log /\ (Near(log, hd[p])' <=> Near(log, hd[p]))
        <5>1. Len(log') = Len(log)
          BY <1>1, <1>2, <1>6, <3>1, <3>4, <4>2 DEF Fresh
        <5>2. log' = log
          BY <1>2, <1>5, <5>1, SameFile
        <5> QED
          BY <3>1, <5>2 DEF Near, Missed
      <4>3. ASSUME setting.locked, NEW c \in Commands
            PROVE  \/ hd'[p].st[c] = LastState(log', c) \/ Missed(log, hd[p], c)'
                   \/ hd'[p].st[c] \in Unresolved
        <5>1. CASE LastState(log', c) = LastState(log, c)
          BY <3>1, <3>2, <4>3, <5>1 DEF Missed
        <5>2. CASE Moves(hd[p], c, LastState(log', c))
          <6>1. CASE hd[p].st[c] = "none"
            <7>1. LastState(log', c) \in {"prepared", "submitted"}
              BY <5>2, <6>1 DEF Moves
            <7>2. sent[c] = 0
              BY <3>4, <6>1, NotYetSent
            <7> QED
              BY <3>1, <4>3, <6>1, <7>1, <7>2 DEF Missed
          <6>2. CASE hd[p].st[c] # "none"
            BY <3>1, <5>2, <6>2 DEF Moves, Unresolved
          <6> QED
            BY <6>1, <6>2
        <5> QED
          BY <1>5, <5>1, <5>2
      <4> QED
        BY <1>7, <2>2, <3>1, <3>2, <3>4, <4>1, <4>2, <4>3
    <3> QED
      BY <1>5, <3>3, <3>4
  <2> QED
    BY <2>1, <2>2
<1>16. /\ hd'[p] = Closed \/ hd'[p].phase = hd[p].phase
       /\ \A x \in Commands : x \notin T /\ hd'[p] # Closed => hd'[p].st[x] = hd[p].st[x]
  BY <1>3
<1> QED
  BY <1>3, <1>6, <1>9, <1>10, <1>11, <1>14, <1>15, <1>16 DEF Kept

(* The calls and answers under way when a write does not touch them.       *)
LEMMA UnderWay ==
  ASSUME JournalInv, NEW p \in Handles, NEW T, Kept(p, T),
         setting' = setting, ex' = ex, sent' = sent, mark' = mark, crashes' = crashes,
         calls' = calls, hd'[p] # Closed \/ calls[p] = {},
         calls[p] \cap T = {},
         answers' \in [Handles -> SUBSET (Commands \X Results)],
         \A q \in Handles : answers'[q] \subseteq answers[q],
         \A a \in answers'[p] : a[1] \notin T /\ hd'[p] # Closed
  PROVE  JournalInv'
<1>1. /\ FilesSound' /\ HandlesSound' /\ KnowledgeSound' /\ MarkSound'
      /\ SendsSound' /\ WriteAhead' /\ TellsTruth'
      /\ log' \in Seq(Record) /\ base' \in 0..Len(log') /\ torn' \in {"none", "active", "archived"}
      /\ hd' \in [Handles -> HandleType \cup {Closed}]
      /\ failures' \in Nat /\ rotateFailures' \in Nat
      /\ \A q \in Handles : \A x \in calls[q] :
           Written(x)' /\ Pending(x, LastState(log, x))'
      /\ \A q \in Handles : q # p => hd'[q] = hd[q]
      /\ hd'[p] = Closed \/ hd'[p].phase = hd[p].phase
      /\ \A x \in Commands : x \notin T /\ hd'[p] # Closed => hd'[p].st[x] = hd[p].st[x]
  BY DEF Kept
<1>2. TypeOK'
  BY <1>1 DEF JournalInv, TypeOK
<1>3. OnlyReadySend'
  <2> SUFFICES ASSUME NEW q \in Handles, ~ Ready(q)' PROVE calls'[q] = {} /\ answers'[q] = {}
    BY DEF OnlyReadySend
  <2>1. CASE ~ Ready(q)
    BY <2>1 DEF JournalInv, OnlyReadySend
  <2>2. CASE Ready(q)
    <3>1. q = p /\ hd'[p] = Closed
      BY <1>1, <2>2 DEF Ready
    <3> QED
      BY <3>1
  <2> QED
    BY <2>1, <2>2
<1>4. CallsSound'
  <2> SUFFICES ASSUME NEW q \in Handles, NEW x \in calls[q]
               PROVE  /\ hd'[q].st[x] = "submitted" /\ Written(x)'
                      /\ Pending(x, LastState(log, x))' /\ sent[x] = 0
                      /\ \A o \in Handles : x \in calls[o] => o = q
    BY DEF CallsSound
  <2>1. /\ hd[q].st[x] = "submitted" /\ sent[x] = 0
        /\ \A o \in Handles : x \in calls[o] => o = q
        /\ x \in Commands
    BY DEF JournalInv, CallsSound, TypeOK
  <2>2. hd'[q].st[x] = hd[q].st[x]
    BY <1>1, <2>1
  <2> QED
    BY <1>1, <2>1, <2>2
<1>5. AnswersSound'
  <2> SUFFICES ASSUME NEW q \in Handles, NEW a \in answers'[q]
               PROVE  /\ hd'[q].st[a[1]] = "submitted" /\ sent[a[1]] = 1
                      /\ a[1] \notin calls[q]
                      /\ a[2] = "accepted" => ex[a[1]] \in Taken
                      /\ a[2] = "rejected" => ex[a[1]] = "refused"
                      /\ \A b \in answers'[q] : b[1] = a[1] => b = a
    BY DEF AnswersSound
  <2>1. a \in answers[q] /\ a[1] \in Commands
    BY DEF JournalInv, TypeOK
  <2>2. /\ hd[q].st[a[1]] = "submitted" /\ sent[a[1]] = 1
        /\ a[1] \notin calls[q]
        /\ a[2] = "accepted" => ex[a[1]] \in Taken
        /\ a[2] = "rejected" => ex[a[1]] = "refused"
        /\ \A b \in answers[q] : b[1] = a[1] => b = a
    BY <2>1 DEF JournalInv, AnswersSound
  <2>3. hd'[q].st[a[1]] = hd[q].st[a[1]]
    BY <1>1, <2>1
  <2> QED
    BY <2>2, <2>3
<1> QED
  BY <1>1, <1>2, <1>3, <1>4, <1>5 DEF JournalInv

-----------------------------------------------------------------------------
(* The operations of a handle that write.                                  *)

(* One receipt, whether the append succeeds or not.                        *)
LEMMA OneWrite ==
  ASSUME JournalInv, NEW p \in Handles, IsOpen(p), NEW c \in Commands, NEW t \in States,
         Writable(hd[p], c, t), Moves(hd[p], c, t),
         \/ Appends(p, << << c, t >> >>)
         \/ AppendFails(p, << << c, t >> >>) /\ (hd' = hd \/ hd' = [hd EXCEPT ![p] = Closed]),
         setting' = setting, ex' = ex, sent' = sent, mark' = mark
  PROVE  Kept(p, {c})
<1> DEFINE cs == << << c, t >> >>
<1>1. Len(cs) \in Nat
  OBVIOUS
<1>2. Fresh(p) => Outcome(hd[p], cs, {c})
  BY FreshIsSynced, WritesOne
<1> HIDE DEF cs
<1>3. CASE Appends(p, cs)
  BY <1>1, <1>2, <1>3, WriteSucceeds
<1>4. CASE AppendFails(p, cs) /\ (hd' = hd \/ hd' = [hd EXCEPT ![p] = Closed])
  BY <1>1, <1>2, <1>4, WriteFails
<1> QED
  BY <1>3, <1>4 DEF cs

(* A write of a process that has nothing under way.                        *)
LEMMA QuietWrite ==
  ASSUME JournalInv, NEW p \in Handles, NEW T, Kept(p, T),
         calls[p] = {}, answers[p] = {},
         UNCHANGED << setting, calls, answers, ex, sent, mark, crashes >>
  PROVE  JournalInv'
<1>1. /\ setting' = setting /\ ex' = ex /\ sent' = sent /\ mark' = mark /\ crashes' = crashes
      /\ calls' = calls /\ answers' = answers
  OBVIOUS
<1>2. answers' \in [Handles -> SUBSET (Commands \X Results)]
  BY <1>1 DEF JournalInv, TypeOK
<1>3. \A q \in Handles : answers'[q] \subseteq answers[q]
  BY <1>1
<1>4. \A a \in answers'[p] : a[1] \notin T /\ hd'[p] # Closed
  BY <1>1
<1>5. calls[p] \cap T = {}
  OBVIOUS
<1> QED
  BY <1>1, <1>2, <1>3, <1>4, <1>5, UnderWay

(* A process that is idle, and one that has not finished fencing, has no   *)
(* call under way.                                                         *)
LEMMA NothingUnderWay ==
  ASSUME JournalInv, NEW p \in Handles, Idle(p) \/ hd[p].phase = "fencing"
  PROVE  IsOpen(p) /\ calls[p] = {} /\ answers[p] = {} /\ hd[p] \in HandleType
<1>1. IsOpen(p) /\ calls[p] = {} /\ answers[p] = {}
  BY DEF JournalInv, OnlyReadySend, Idle, Ready, IsOpen
<1> QED
  BY <1>1, HandleIs DEF JournalInv

(* fence_interrupted_dispatches: what was Prepared is rejected, what was   *)
(* Submitted becomes unknown.                                              *)
LEMMA FenceInterruptedKeeps ==
  ASSUME JournalInv, NEW p \in Handles, NEW c \in Commands, FenceInterrupted(p, c)
  PROVE  JournalInv'
<1> DEFINE t == IF hd[p].st[c] = "prepared" THEN "rejected" ELSE "unknown"
<1>1. IsOpen(p) /\ calls[p] = {} /\ answers[p] = {}
  BY NothingUnderWay DEF FenceInterrupted
<1>2. hd[p].st[c] \in {"prepared", "submitted"}
  BY DEF FenceInterrupted
<1>3. t \in States /\ Writable(hd[p], c, t) /\ Moves(hd[p], c, t)
  BY <1>2 DEF States, Writable, Follows, Moves, AllowedTransition
<1>4. \/ Appends(p, << << c, t >> >>)
      \/ AppendFails(p, << << c, t >> >>) /\ (hd' = hd \/ hd' = [hd EXCEPT ![p] = Closed])
  BY DEF FenceInterrupted
<1>5. UNCHANGED << setting, calls, answers, ex, sent, mark, crashes >>
  BY DEF FenceInterrupted
<1> HIDE DEF t
<1>6. Kept(p, {c})
  BY <1>1, <1>3, <1>4, <1>5, OneWrite
<1> QED
  BY <1>1, <1>5, <1>6, QuietWrite

(* apply_recovery: what the exchange shows of a command's order, or of the *)
(* target of a cancel, settles an unresolved command.                      *)
LEMMA ReconcileKeeps ==
  ASSUME JournalInv, NEW p \in Handles, NEW c \in Commands, Reconcile(p, c)
  PROVE  JournalInv'
<1>1. IsOpen(p) /\ calls[p] = {} /\ answers[p] = {}
  BY NothingUnderWay DEF Reconcile
<1>2. PICK t \in Settled(c) :
        /\ AllowedTransition(hd[p].st[c], t)
        /\ \/ Appends(p, << << c, t >> >>)
           \/ AppendFails(p, << << c, t >> >>) /\ UNCHANGED hd
  BY DEF Reconcile
<1>7. t \in {"accepted", "rejected"} /\ Produced(c, t)
  BY DEF Settled, Produced, Over, Terminal
<1>3. t \in States /\ Writable(hd[p], c, t) /\ Moves(hd[p], c, t)
  BY <1>2, <1>7 DEF States, Writable, Follows, Moves, AllowedTransition
<1>4. \/ Appends(p, << << c, t >> >>)
      \/ AppendFails(p, << << c, t >> >>) /\ (hd' = hd \/ hd' = [hd EXCEPT ![p] = Closed])
  BY <1>2
<1>5. UNCHANGED << setting, calls, answers, ex, sent, mark, crashes >>
  BY DEF Reconcile
<1>6. Kept(p, {c})
  BY <1>1, <1>3, <1>4, <1>5, OneWrite
<1> QED
  BY <1>1, <1>5, <1>6, QuietWrite

(* prepare: a new command with a client id that is free, or a cancel whose *)
(* target is known.                                                        *)
LEMMA PrepareKeeps ==
  ASSUME JournalInv, NEW p \in Handles, NEW c \in Commands, Prepare(p, c)
  PROVE  JournalInv'
<1>1. IsOpen(p) /\ calls[p] = {} /\ answers[p] = {}
  BY NothingUnderWay DEF Prepare
<1>2. Writable(hd[p], c, "prepared") /\ Moves(hd[p], c, "prepared") /\ "prepared" \in States
  BY AdmissibleWrites DEF Prepare, States
<1>3. \/ Appends(p, << << c, "prepared" >> >>)
      \/ AppendFails(p, << << c, "prepared" >> >>) /\ (hd' = hd \/ hd' = [hd EXCEPT ![p] = Closed])
  BY DEF Prepare
<1>4. UNCHANGED << setting, calls, answers, ex, sent, mark, crashes >>
  BY DEF Prepare
<1>5. Kept(p, {c})
  BY <1>1, <1>2, <1>3, <1>4, OneWrite
<1> QED
  BY <1>1, <1>4, <1>5, QuietWrite

(* reject_prepared_without_dispatch.                                       *)
LEMMA WithdrawKeeps ==
  ASSUME JournalInv, NEW p \in Handles, NEW c \in Commands, Withdraw(p, c)
  PROVE  JournalInv'
<1>1. IsOpen(p) /\ calls[p] = {} /\ answers[p] = {}
  BY NothingUnderWay DEF Withdraw
<1>2. hd[p].st[c] = "prepared"
  BY DEF Withdraw
<1>3. Writable(hd[p], c, "rejected") /\ Moves(hd[p], c, "rejected") /\ "rejected" \in States
  BY <1>2 DEF States, Writable, Follows, Moves, AllowedTransition
<1>4. \/ Appends(p, << << c, "rejected" >> >>)
      \/ AppendFails(p, << << c, "rejected" >> >>) /\ (hd' = hd \/ hd' = [hd EXCEPT ![p] = Closed])
  BY DEF Withdraw
<1>5. UNCHANGED << setting, calls, answers, ex, sent, mark, crashes >>
  BY DEF Withdraw
<1>6. Kept(p, {c})
  BY <1>1, <1>3, <1>4, <1>5, OneWrite
<1> QED
  BY <1>1, <1>5, <1>6, QuietWrite

(* prepare_batch of two commands.                                          *)
LEMMA PrepareBatchKeeps ==
  ASSUME JournalInv, NEW p \in Handles, NEW c \in Commands, NEW d \in Commands,
         PrepareBatch(p, c, d)
  PROVE  JournalInv'
<1> DEFINE cs == << << c, "prepared" >>, << d, "prepared" >> >>
<1>1. IsOpen(p) /\ calls[p] = {} /\ answers[p] = {}
  BY NothingUnderWay DEF PrepareBatch
<1>2. /\ c # d /\ Admissible(hd[p], c) /\ Admissible(hd[p], d)
      /\ (c \in Places /\ d \in Places) => Client[c] # Client[d]
  BY DEF PrepareBatch, Batchable
<1>3. Fresh(p) => Outcome(hd[p], cs, {c, d})
  BY <1>1, <1>2, FreshIsSynced, WritesTwo
<1>4. Appends(p, cs) \/ (AppendFails(p, cs) /\ hd' = hd)
  BY DEF PrepareBatch
<1>5. /\ UNCHANGED << setting, calls, answers, ex, sent, mark, crashes >>
      /\ setting' = setting /\ ex' = ex /\ sent' = sent /\ mark' = mark
  BY DEF PrepareBatch
<1>6. Len(cs) \in Nat
  OBVIOUS
<1> HIDE DEF cs
<1>7. Kept(p, {c, d})
  <2>1. CASE Appends(p, cs)
    BY <1>1, <1>3, <1>5, <1>6, <2>1, WriteSucceeds
  <2>2. CASE AppendFails(p, cs) /\ hd' = hd
    BY <1>1, <1>3, <1>5, <1>6, <2>2, WriteFails
  <2> QED
    BY <1>4, <2>1, <2>2
<1> QED
  BY <1>1, <1>5, <1>7, QuietWrite


(* The result of a call is recorded: Submitted to what the gateway said.   *)
LEMMA VerdictKeeps ==
  ASSUME JournalInv, NEW p \in Handles, NEW a \in answers[p], Verdict(p, a)
  PROVE  JournalInv'
<1> DEFINE c == a[1]
           t == a[2]
<1>1. c \in Commands /\ t \in Results /\ a = << c, t >> /\ answers \in [Handles -> SUBSET (Commands \X Results)]
  BY DEF JournalInv, TypeOK
<1>2. /\ hd[p].st[c] = "submitted" /\ c \notin calls[p]
      /\ t = "accepted" => ex[c] \in Taken
      /\ t = "rejected" => ex[c] = "refused"
      /\ \A b \in answers[p] : b[1] = c => b = a
  BY DEF JournalInv, AnswersSound
<1>3. IsOpen(p)
  BY DEF JournalInv, OnlyReadySend, Ready, IsOpen
<1>4. answers' = [answers EXCEPT ![p] = @ \ {a}]
  BY DEF Verdict
<1>5. Appends(p, << a >>) \/ (AppendFails(p, << a >>) /\ hd' = hd)
  BY DEF Verdict
<1>6. /\ setting' = setting /\ ex' = ex /\ sent' = sent /\ mark' = mark /\ crashes' = crashes
      /\ calls' = calls
  BY DEF Verdict
<1> HIDE DEF c, t
<1>7. t \in States /\ Writable(hd[p], c, t) /\ Moves(hd[p], c, t)
  BY <1>1, <1>2 DEF States, Results, Writable, Follows, Moves, Produced, AllowedTransition
<1>8. \/ Appends(p, << << c, t >> >>)
      \/ AppendFails(p, << << c, t >> >>) /\ (hd' = hd \/ hd' = [hd EXCEPT ![p] = Closed])
  BY <1>1, <1>5
<1>9. Kept(p, {c})
  BY <1>1, <1>3, <1>6, <1>7, <1>8, OneWrite
<1>10. hd'[p] # Closed
  <2>1. CASE Appends(p, << << c, t >> >>)
    <3> DEFINE cs == << << c, t >> >>
    <3>1. Len(cs) \in Nat
      OBVIOUS
    <3>2. Fresh(p) => Outcome(hd[p], cs, {c})
      BY <1>1, <1>3, <1>7, FreshIsSynced, WritesOne
    <3> HIDE DEF cs
    <3>3. Appends(p, cs)
      BY <2>1 DEF cs
    <3> QED
      BY <1>3, <1>6, <3>1, <3>2, <3>3, WriteSucceeds
  <2>2. CASE hd' = hd
    BY <1>3, <2>2 DEF IsOpen, Closed
  <2> QED
    BY <1>1, <1>5, <2>1, <2>2
<1>11. /\ answers' \in [Handles -> SUBSET (Commands \X Results)]
       /\ \A q \in Handles : answers'[q] \subseteq answers[q]
       /\ answers'[p] = answers[p] \ {a}
  BY <1>1, <1>4
<1>12. \A b \in answers'[p] : b[1] \notin {c} /\ hd'[p] # Closed
  BY <1>2, <1>10, <1>11
<1>13. calls[p] \cap {c} = {}
  BY <1>2
<1> QED
  BY <1>6, <1>9, <1>10, <1>11, <1>12, <1>13, UnderWay

(* The last receipt says that a command is Submitted: so it is written.    *)
LEMMA LastIsWritten ==
  ASSUME NEW s \in Seq(Record), NEW x, LastState(s, x) = "submitted"
  PROVE  \E i \in DOMAIN s : s[i].cmd = x /\ s[i].st = "submitted"
<1>1. LastState(s, x) # "none"
  OBVIOUS
<1> QED
  BY <1>1, LastReceipt

(* Submitted receipts are in the file and the calls are under way.         *)
LEMMA NowUnderWay ==
  ASSUME JournalInv, NEW p \in Handles, NEW T \in SUBSET Commands, Kept(p, T), Idle(p),
         hd'[p] # Closed, calls' = [calls EXCEPT ![p] = T],
         UNCHANGED << setting, answers, ex, sent, mark, crashes >>,
         \A x \in T : /\ hd'[p].st[x] = "submitted" /\ LastState(log', x) = "submitted"
                      /\ sent[x] = 0
                      /\ \A q \in Handles : x \in calls[q] => q = p
  PROVE  JournalInv'
<1>1. /\ FilesSound' /\ HandlesSound' /\ KnowledgeSound' /\ MarkSound'
      /\ SendsSound' /\ WriteAhead' /\ TellsTruth'
      /\ log' \in Seq(Record) /\ base' \in 0..Len(log') /\ torn' \in {"none", "active", "archived"}
      /\ hd' \in [Handles -> HandleType \cup {Closed}]
      /\ failures' \in Nat /\ rotateFailures' \in Nat
      /\ \A q \in Handles : \A x \in calls[q] :
           Written(x)' /\ Pending(x, LastState(log, x))'
      /\ \A q \in Handles : q # p => hd'[q] = hd[q]
      /\ hd'[p].phase = hd[p].phase
  BY DEF Kept
<1>2. /\ setting' = setting /\ answers' = answers /\ ex' = ex /\ sent' = sent /\ mark' = mark
      /\ crashes' = crashes
  OBVIOUS
<1>3. /\ calls \in [Handles -> SUBSET Commands] /\ calls' \in [Handles -> SUBSET Commands]
      /\ calls'[p] = T /\ \A q \in Handles : q # p => calls'[q] = calls[q]
  BY DEF JournalInv, TypeOK
<1>4. TypeOK'
  BY <1>1, <1>2, <1>3 DEF JournalInv, TypeOK
<1>5. answers[p] = {} /\ calls[p] = {} /\ Ready(p)
  BY DEF Idle
<1>6. OnlyReadySend'
  <2> SUFFICES ASSUME NEW q \in Handles, ~ Ready(q)' PROVE calls'[q] = {} /\ answers'[q] = {}
    BY DEF OnlyReadySend
  <2>1. q # p
    BY <1>1, <1>5 DEF Ready
  <2>2. ~ Ready(q)
    BY <1>1, <2>1 DEF Ready
  <2> QED
    BY <1>2, <1>3, <2>1, <2>2 DEF JournalInv, OnlyReadySend
<1>7. CallsSound'
  <2> SUFFICES ASSUME NEW q \in Handles, NEW x \in calls'[q]
               PROVE  /\ hd'[q].st[x] = "submitted" /\ Written(x)'
                      /\ Pending(x, LastState(log, x))' /\ sent[x] = 0
                      /\ \A o \in Handles : x \in calls'[o] => o = q
    BY <1>2 DEF CallsSound
  <2>1. CASE q = p
    <3>1. x \in T
      BY <1>3, <2>1
    <3>2. Written(x)'
      BY <1>1, <3>1, LastIsWritten DEF Written
    <3>3. \A o \in Handles : x \in calls'[o] => o = q
      BY <1>3, <2>1, <3>1
    <3>4. Pending(x, LastState(log, x))'
      BY <3>1 DEF Pending
    <3> QED
      BY <2>1, <3>1, <3>2, <3>3, <3>4
  <2>2. CASE q # p
    <3>1. x \in calls[q] /\ hd'[q] = hd[q]
      BY <1>1, <1>3, <2>2
    <3>2. hd[q].st[x] = "submitted" /\ sent[x] = 0 /\ \A o \in Handles : x \in calls[o] => o = q
      BY <3>1 DEF JournalInv, CallsSound
    <3>3. x \notin T
      BY <2>2, <3>1
    <3>4. \A o \in Handles : x \in calls'[o] => o = q
      BY <1>3, <3>2, <3>3
    <3> QED
      BY <1>1, <3>1, <3>2, <3>4
  <2> QED
    BY <2>1, <2>2
<1>8. AnswersSound'
  <2> SUFFICES ASSUME NEW q \in Handles, NEW a \in answers[q]
               PROVE  /\ hd'[q].st[a[1]] = "submitted" /\ sent[a[1]] = 1
                      /\ a[1] \notin calls'[q]
                      /\ a[2] = "accepted" => ex[a[1]] \in Taken
                      /\ a[2] = "rejected" => ex[a[1]] = "refused"
                      /\ \A b \in answers[q] : b[1] = a[1] => b = a
    BY <1>2 DEF AnswersSound
  <2>1. q # p
    BY <1>5
  <2> QED
    BY <1>1, <1>3, <2>1 DEF JournalInv, AnswersSound
<1> QED
  BY <1>1, <1>4, <1>6, <1>7, <1>8 DEF JournalInv

(* transition to Submitted: the gateway is called only when the receipt is *)
(* in the file.                                                            *)
LEMMA SubmitKeeps ==
  ASSUME JournalInv, NEW p \in Handles, NEW c \in Commands, Submit(p, c)
  PROVE  JournalInv'
<1> DEFINE cs == << << c, "submitted" >> >>
<1>1. IsOpen(p) /\ calls[p] = {} /\ answers[p] = {} /\ Idle(p) /\ hd[p] \in HandleType
  BY NothingUnderWay DEF Submit
<1>2. hd[p].st[c] = "prepared"
  BY DEF Submit
<1>3. Writable(hd[p], c, "submitted") /\ Moves(hd[p], c, "submitted") /\ "submitted" \in States
  BY <1>2 DEF States, Writable, Follows, Moves, AllowedTransition
<1>4. /\ UNCHANGED << setting, answers, ex, sent, mark, crashes >>
      /\ setting' = setting /\ ex' = ex /\ sent' = sent /\ mark' = mark
  BY DEF Submit
<1>5. Len(cs) \in Nat
  OBVIOUS
<1>6. \/ Appends(p, cs) /\ calls' = [calls EXCEPT ![p] = {c}]
      \/ AppendFails(p, cs) /\ hd' = hd /\ calls' = calls
  BY DEF Submit
<1>7. Appends(p, cs) \/ (AppendFails(p, cs) /\ (hd' = hd \/ hd' = [hd EXCEPT ![p] = Closed]))
  BY <1>6
<1>8. Kept(p, {c})
  BY <1>1, <1>3, <1>4, <1>7, OneWrite
<1>9. CASE AppendFails(p, cs) /\ hd' = hd /\ calls' = calls
  <2>1. UNCHANGED << setting, calls, answers, ex, sent, mark, crashes >>
    BY <1>4, <1>9
  <2> QED
    BY <1>1, <1>8, <2>1, QuietWrite
<1>10. CASE Appends(p, cs) /\ calls' = [calls EXCEPT ![p] = {c}]
  <2>1. Fresh(p)
    BY <1>10 DEF Appends
  <2>2. /\ Outcome(hd[p], cs, {c})
        /\ LearnsAll(hd[p], Receipts(hd[p], cs)).st = [hd[p].st EXCEPT ![c] = "submitted"]
    BY <1>1, <1>3, <2>1, FreshIsSynced, WritesOne
  <2> HIDE DEF cs
  <2> DEFINE T == {c}
  <2>9. c \in T /\ Outcome(hd[p], cs, T)
    BY <2>2
  <2> HIDE DEF T
  <2>10. /\ hd'[p] = LearnsAll(hd[p], Receipts(hd[p], cs)) /\ hd'[p] # Closed
         /\ \A x \in Commands : x \in T => hd'[p].st[x] = LastState(log', x) \/ hd'[p].st[x] = hd[p].st[x]
    BY <1>1, <1>4, <1>5, <1>10, <2>9, WriteSucceeds
  <2>3. /\ hd'[p] = LearnsAll(hd[p], Receipts(hd[p], cs)) /\ hd'[p] # Closed
        /\ hd'[p].st[c] = LastState(log', c) \/ hd'[p].st[c] = hd[p].st[c]
    BY <2>9, <2>10
  <2>4. hd[p].st \in [Commands -> States \cup {"none"}]
    BY <1>1 DEF HandleType
  <2>5. hd'[p].st[c] = "submitted"
    BY <2>2, <2>3, <2>4
  <2>6. LastState(log', c) = "submitted"
    BY <1>2, <2>3, <2>5
  <2>7. sent[c] = 0 /\ \A q \in Handles : c \in calls[q] => q = p
    BY <1>1, <1>2, <2>1, NotYetSent
  <2>8. {c} \in SUBSET Commands
    OBVIOUS
  <2> QED
    BY <1>1, <1>4, <1>8, <1>10, <2>3, <2>5, <2>6, <2>7, <2>8, NowUnderWay
<1> QED
  BY <1>6, <1>9, <1>10

(* prepare_submitted_batch: four receipts, then two calls.                 *)
LEMMA PrepareSubmittedBatchKeeps ==
  ASSUME JournalInv, NEW p \in Handles, NEW c \in Commands, NEW d \in Commands,
         PrepareSubmittedBatch(p, c, d)
  PROVE  JournalInv'
<1> DEFINE cs == << << c, "prepared" >>, << c, "submitted" >>,
                    << d, "prepared" >>, << d, "submitted" >> >>
           g == LearnsAll(hd[p], Receipts(hd[p], cs))
<1>1. IsOpen(p) /\ calls[p] = {} /\ answers[p] = {} /\ Idle(p) /\ hd[p] \in HandleType
  BY NothingUnderWay DEF PrepareSubmittedBatch
<1>2. /\ c # d /\ Admissible(hd[p], c) /\ Admissible(hd[p], d)
      /\ (c \in Places /\ d \in Places) => Client[c] # Client[d]
      /\ hd[p].st[c] = "none" /\ hd[p].st[d] = "none"
  BY DEF PrepareSubmittedBatch, Batchable, Admissible
<1>3. Fresh(p) => /\ Outcome(hd[p], cs, {c, d})
                  /\ g.st[c] = "submitted" /\ g.st[d] = "submitted"
  BY <1>1, <1>2, FreshIsSynced, WritesFour
<1>4. /\ UNCHANGED << setting, answers, ex, sent, mark, crashes >>
      /\ setting' = setting /\ ex' = ex /\ sent' = sent /\ mark' = mark
  BY DEF PrepareSubmittedBatch
<1>5. Len(cs) \in Nat
  OBVIOUS
<1>6. \/ Appends(p, cs) /\ calls' = [calls EXCEPT ![p] = {c, d}]
      \/ AppendFails(p, cs) /\ hd' = hd /\ calls' = calls
  BY DEF PrepareSubmittedBatch
<1> HIDE DEF cs
<1>9. CASE AppendFails(p, cs) /\ hd' = hd /\ calls' = calls
  <2>1. UNCHANGED << setting, calls, answers, ex, sent, mark, crashes >>
    BY <1>4, <1>9
  <2>2. Kept(p, {c, d})
    BY <1>1, <1>3, <1>4, <1>5, <1>9, WriteFails
  <2> QED
    BY <1>1, <2>1, <2>2, QuietWrite
<1>10. CASE Appends(p, cs) /\ calls' = [calls EXCEPT ![p] = {c, d}]
  <2>1. Fresh(p)
    BY <1>10 DEF Appends
  <2>2. /\ Kept(p, {c, d}) /\ hd'[p] = g /\ hd'[p] # Closed
        /\ \A x \in Commands : x \in {c, d} =>
             hd'[p].st[x] = LastState(log', x) \/ hd'[p].st[x] = hd[p].st[x]
    BY <1>1, <1>3, <1>4, <1>5, <1>10, WriteSucceeds
  <2>3. \A x \in {c, d} : /\ hd'[p].st[x] = "submitted" /\ LastState(log', x) = "submitted"
                          /\ sent[x] = 0
                          /\ \A q \in Handles : x \in calls[q] => q = p
    <3> SUFFICES ASSUME NEW x \in {c, d}
                 PROVE  /\ hd'[p].st[x] = "submitted" /\ LastState(log', x) = "submitted"
                        /\ sent[x] = 0
                        /\ \A q \in Handles : x \in calls[q] => q = p
      OBVIOUS
    <3>1. x \in Commands /\ hd[p].st[x] = "none" /\ hd'[p].st[x] = "submitted"
      BY <1>2, <1>3, <2>1, <2>2
    <3>2. LastState(log', x) = "submitted"
      BY <2>2, <3>1
    <3> QED
      BY <1>1, <2>1, <3>1, <3>2, NotYetSent
  <2>4. {c, d} \in SUBSET Commands
    OBVIOUS
  <2> QED
    BY <1>1, <1>4, <1>10, <2>2, <2>3, <2>4, NowUnderWay
<1> QED
  BY <1>6, <1>9, <1>10


-----------------------------------------------------------------------------
(* Opening, checkpoints, segments and the ends of processes.               *)

(* The indexes that rebuild_query_indexes builds.                          *)
LEMMA IndexTyped ==
  ASSUME NEW st \in [Commands -> States \cup {"none"}]
  PROVE  IndexOf(st) \in IndexType
<1> DEFINE open == { c \in Commands : st[c] \in Unresolved }
           In(k, S) == { c \in Cancels : Target[c] = k /\ st[c] \in S }
<1>1. open \in SUBSET Commands /\ open \cap Entries \subseteq Commands
  OBVIOUS
<1>2. Cardinality(open \cap Entries) \in Nat
  BY <1>1, CancelsFinite
<1>3. \A S : CountOf(st, S) \in Counts
  <2> TAKE S
  <2>1. \A k \in Clients : In(k, S) \subseteq Commands
    BY DEF Commands
  <2>2. CountOf(st, S) = [k \in Clients |-> Cardinality(In(k, S))]
    BY DEF CountOf
  <2> HIDE DEF In
  <2>3. \A k \in Clients : Cardinality(In(k, S)) \in Nat
    BY <2>1, CancelsFinite
  <2> QED
    BY <2>2, <2>3 DEF Counts
<1>4. CountOf(st, Unresolved) \in Counts /\ CountOf(st, {"accepted"}) \in Counts
  BY <1>3
<1>5. IndexOf(st) = [unresolved |-> open, entries |-> Cardinality(open \cap Entries),
                     cancelling |-> CountOf(st, Unresolved), cancelled |-> CountOf(st, {"accepted"})]
  BY DEF IndexOf
<1> HIDE DEF open
<1> QED
  BY <1>1, <1>2, <1>4, <1>5 DEF IndexType

(* The handle that open_segmented returns.                                 *)
LEMMA RebuiltTyped ==
  ASSUME log \in Seq(Record), base \in 0..Len(log)
  PROVE  /\ Rebuilt \in HandleType
         /\ Rebuilt.phase = "fencing" /\ Rebuilt.st = StatesOf(log) /\ Rebuilt.next = Len(log) + 1
         /\ Rebuilt.len = Len(log) - base /\ Rebuilt.root = Pairs(log, Len(log))
         /\ Rebuilt.index = IndexOf(StatesOf(log))
<1>1. \A c \in Commands : LastState(log, c) \in States \cup {"none"}
  BY LastReceipt
<1>2. StatesOf(log) \in [Commands -> States \cup {"none"}]
  BY <1>1 DEF StatesOf
<1>3. IndexOf(StatesOf(log)) \in IndexType
  BY <1>2, IndexTyped
<1>4. \A i \in DOMAIN log : i \in Nat /\ log[i].cmd \in Commands
  <2>1. \A i \in DOMAIN log : i \in Nat /\ log[i] \in Record
    OBVIOUS
  <2> QED
    BY <2>1 DEF Record
<1>5. Pairs(log, Len(log)) \subseteq Nat \X Commands
  BY <1>4 DEF Pairs, Firsts
<1>6. Len(log) + 1 \in Nat /\ Len(log) - base \in Nat
  OBVIOUS
<1> QED
  BY <1>2, <1>3, <1>5, <1>6 DEF Rebuilt, HandleType

(* open_segmented: the handle knows what it has replayed.                  *)
LEMMA OpenKeeps ==
  ASSUME JournalInv, NEW p \in Handles, Open(p)
  PROVE  JournalInv'
<1>1. /\ ~ IsOpen(p) /\ Free /\ hd' = [hd EXCEPT ![p] = Rebuilt]
      /\ setting' = setting /\ log' = log /\ base' = base /\ torn' = torn /\ calls' = calls
      /\ answers' = answers /\ ex' = ex /\ sent' = sent /\ mark' = mark /\ failures' = failures
      /\ rotateFailures' = rotateFailures /\ crashes' = crashes
  BY DEF Open
<1>2. /\ log \in Seq(Record) /\ base \in 0..Len(log) /\ Len(log) \in Nat
      /\ hd \in [Handles -> HandleType \cup {Closed}]
  BY DEF JournalInv, TypeOK
<1> DEFINE g == Rebuilt
<1>3. /\ g \in HandleType
      /\ g.phase = "fencing" /\ g.st = StatesOf(log) /\ g.next = Len(log) + 1
      /\ g.len = Len(log) - base /\ g.root = Pairs(log, Len(log))
      /\ g.index = IndexOf(StatesOf(log))
  BY <1>2, RebuiltTyped
<1> HIDE DEF g
<1>4. hd'[p] = g /\ \A q \in Handles : q # p => hd'[q] = hd[q]
  BY <1>1, <1>2 DEF g
<1>5. hd' \in [Handles -> HandleType \cup {Closed}]
  BY <1>1, <1>2, <1>3 DEF g
<1>6. TypeOK'
  BY <1>1, <1>5 DEF JournalInv, TypeOK
<1>7. calls[p] = {} /\ answers[p] = {}
  BY <1>1 DEF JournalInv, OnlyReadySend, Ready, IsOpen
<1>8. FilesSound' /\ MarkSound' /\ SendsSound' /\ WriteAhead' /\ TellsTruth'
  <2>1. FilesSound /\ MarkSound /\ SendsSound /\ WriteAhead /\ TellsTruth
    BY DEF JournalInv
  <2> QED
    BY <1>1, <2>1 DEF FilesSound, MarkSound, SendsSound, WriteAhead, TellsTruth, Backed, Over,
              Unforked
<1>9. HandlesSound'
  <2> SUFFICES ASSUME NEW q \in Handles, IsOpen(q)'
               PROVE  /\ hd'[q].index = IndexOf(hd'[q].st) /\ hd'[q].next >= 1
                      /\ setting.locked => \A o \in Handles : IsOpen(o)' => o = q
                      /\ ~ setting.locked => hd'[q].len <= Len(log)
                      /\ Unforked => /\ hd'[q].next <= Len(log) + 1
                                     /\ hd'[q].root = Pairs(log, hd'[q].next - 1)
    BY <1>1 DEF HandlesSound, Unforked
  <2>1. setting.locked => \A o \in Handles : IsOpen(o)' => o = p
    BY <1>1, <1>4 DEF Free, IsOpen
  <2>2. CASE q # p
    BY <1>4, <2>1, <2>2 DEF JournalInv, HandlesSound, IsOpen
  <2>3. CASE q = p
    <3>1. ~ setting.locked => base = 0
      BY DEF JournalInv, FilesSound
    <3>2. g.next - 1 = Len(log) /\ g.next >= 1 /\ g.next <= Len(log) + 1
      BY <1>2, <1>3
    <3>3. ~ setting.locked => g.len <= Len(log)
      BY <1>2, <1>3, <3>1
    <3> QED
      BY <1>3, <1>4, <2>1, <2>3, <3>2, <3>3
  <2> QED
    BY <2>2, <2>3
<1>10. KnowledgeSound'
  <2> SUFFICES ASSUME NEW q \in Handles, IsOpen(q)'
               PROVE  /\ (Unforked /\ (Fresh(q)' \/ (setting.locked /\ failures = 0))) =>
                           hd'[q].st = StatesOf(log) /\ hd'[q].next = Len(log) + 1
                      /\ Fresh(q)' => Near(log, hd'[q])
                      /\ setting.locked => \A c \in Commands :
                           \/ hd'[q].st[c] = LastState(log, c) \/ Missed(log, hd'[q], c)
                           \/ hd'[q].st[c] \in Unresolved
    BY <1>1 DEF KnowledgeSound, Unforked, Near, Missed
  <2>1. CASE q # p
    <3>1. IsOpen(q) /\ hd'[q] = hd[q] /\ (Fresh(q)' <=> Fresh(q))
      BY <1>1, <1>4, <2>1 DEF IsOpen, Fresh
    <3> QED
      BY <3>1 DEF JournalInv, KnowledgeSound
  <2>2. CASE q = p
    <3>1. \A c \in Commands : g.st[c] = LastState(log, c)
      BY <1>3 DEF StatesOf
    <3> QED
      BY <1>3, <1>4, <2>2, <3>1 DEF Near
  <2> QED
    BY <2>1, <2>2
<1>11. OnlyReadySend'
  BY <1>1, <1>4, <1>7 DEF JournalInv, OnlyReadySend, Ready
<1>12. CallsSound'
  <2>1. \A q \in Handles : calls[q] # {} => hd'[q] = hd[q]
    BY <1>4, <1>7
  <2> QED
    BY <1>1, <2>1 DEF JournalInv, CallsSound, Written, Pending, Over
<1>13. AnswersSound'
  <2>1. \A q \in Handles : answers[q] # {} => hd'[q] = hd[q]
    BY <1>4, <1>7
  <2> QED
    BY <1>1, <2>1 DEF JournalInv, AnswersSound
<1> QED
  BY <1>6, <1>8, <1>9, <1>10, <1>11, <1>12, <1>13 DEF JournalInv

(* After the last fence the handle is ready; what it keeps is the same.    *)
LEMMA FencedKeeps ==
  ASSUME JournalInv, NEW p \in Handles, Fenced(p)
  PROVE  JournalInv'
<1>1. /\ hd[p].phase = "fencing" /\ hd' = [hd EXCEPT ![p].phase = "ready"]
      /\ setting' = setting /\ log' = log /\ base' = base /\ torn' = torn /\ calls' = calls
      /\ answers' = answers /\ ex' = ex /\ sent' = sent /\ mark' = mark /\ failures' = failures
      /\ rotateFailures' = rotateFailures /\ crashes' = crashes
  BY DEF Fenced
<1>2. hd \in [Handles -> HandleType \cup {Closed}] /\ hd[p] \in HandleType /\ IsOpen(p)
  BY <1>1, HandleIs DEF JournalInv, TypeOK, IsOpen
<1> DEFINE g == hd'[p]
<1>3. /\ g \in HandleType /\ g.st = hd[p].st /\ g.next = hd[p].next /\ g.len = hd[p].len
      /\ g.root = hd[p].root /\ g.index = hd[p].index /\ g.phase = "ready"
  <2>1. g = [hd[p] EXCEPT !.phase = "ready"]
    BY <1>1, <1>2
  <2> QED
    BY <1>2, <2>1 DEF HandleType
<1>4. \A q \in Handles : q # p => hd'[q] = hd[q]
  BY <1>1, <1>2
<1>5. hd' \in [Handles -> HandleType \cup {Closed}]
  <2>1. hd' = [hd EXCEPT ![p] = g]
    BY <1>1, <1>2
  <2> HIDE DEF g
  <2> QED
    BY <1>2, <1>3, <2>1
<1> HIDE DEF g
<1>6. /\ \A q \in Handles : /\ IsOpen(q)' <=> IsOpen(q)
                            /\ Ready(q) => Ready(q)'
      /\ \A q \in Handles : IsOpen(q) =>
           /\ hd'[q].st = hd[q].st /\ hd'[q].next = hd[q].next /\ hd'[q].len = hd[q].len
           /\ hd'[q].root = hd[q].root /\ hd'[q].index = hd[q].index
           /\ Fresh(q)' <=> Fresh(q)
           /\ Near(log, hd'[q]) <=> Near(log, hd[q])
           /\ \A c \in Commands : Missed(log, hd'[q], c) <=> Missed(log, hd[q], c)
  <2>1. ASSUME NEW q \in Handles
        PROVE  /\ IsOpen(q)' <=> IsOpen(q)
               /\ Ready(q) => Ready(q)'
               /\ hd'[q] = hd[q] \/
                  /\ hd'[q].st = hd[q].st /\ hd'[q].next = hd[q].next /\ hd'[q].len = hd[q].len
                  /\ hd'[q].root = hd[q].root /\ hd'[q].index = hd[q].index
    BY <1>1, <1>3, <1>4 DEF IsOpen, Ready, g
  <2> QED
    BY <1>1, <2>1 DEF Fresh, Near, Missed
<1>7. TypeOK'
  BY <1>1, <1>5 DEF JournalInv, TypeOK
<1>8. FilesSound' /\ MarkSound' /\ SendsSound' /\ WriteAhead' /\ TellsTruth'
  <2>1. FilesSound /\ MarkSound /\ SendsSound /\ WriteAhead /\ TellsTruth
    BY DEF JournalInv
  <2> QED
    BY <1>1, <2>1 DEF FilesSound, MarkSound, SendsSound, WriteAhead, TellsTruth, Backed, Over,
              Unforked
<1>9. HandlesSound'
  BY <1>1, <1>6 DEF JournalInv, HandlesSound, Unforked
<1>10. KnowledgeSound'
  <2> SUFFICES ASSUME NEW q \in Handles, IsOpen(q)'
               PROVE  /\ (Unforked /\ (Fresh(q)' \/ (setting.locked /\ failures = 0))) =>
                           hd'[q].st = StatesOf(log) /\ hd'[q].next = Len(log) + 1
                      /\ Fresh(q)' => Near(log, hd'[q])
                      /\ setting.locked => \A c \in Commands :
                           \/ hd'[q].st[c] = LastState(log, c) \/ Missed(log, hd'[q], c)
                           \/ hd'[q].st[c] \in Unresolved
    BY <1>1 DEF KnowledgeSound, Unforked, Near, Missed
  <2> QED
    BY <1>6 DEF JournalInv, KnowledgeSound
<1>11. OnlyReadySend'
  BY <1>1, <1>6 DEF JournalInv, OnlyReadySend
<1>12. \A q \in Handles : calls[q] # {} \/ answers[q] # {} => hd'[q].st = hd[q].st
  BY <1>6 DEF JournalInv, OnlyReadySend, Ready, IsOpen
<1>13. CallsSound'
  BY <1>1, <1>12 DEF JournalInv, CallsSound, Written, Pending, Over
<1>14. AnswersSound'
  BY <1>1, <1>12 DEF JournalInv, AnswersSound
<1> QED
  BY <1>7, <1>8, <1>9, <1>10, <1>11, <1>13, <1>14 DEF JournalInv


(* The gateway call: it was under way with one process only, and the       *)
(* Submitted receipt is in the file.                                       *)
LEMMA CallKeeps ==
  ASSUME JournalInv, NEW p \in Handles, NEW c \in Commands, Call(p, c)
  PROVE  JournalInv'
<1>1. /\ c \in calls[p] /\ calls' = [calls EXCEPT ![p] = @ \ {c}]
      /\ sent' = [sent EXCEPT ![c] = @ + 1]
      /\ setting' = setting /\ log' = log /\ base' = base /\ torn' = torn /\ hd' = hd
      /\ mark' = mark /\ failures' = failures
      /\ rotateFailures' = rotateFailures /\ crashes' = crashes
  BY DEF Call
<1>2. PICK o \in {"none", "live", "refused"}, r \in Results :
        /\ ex' = [ex EXCEPT ![c] = IF @ = "none" THEN o ELSE @]
        /\ answers' = [answers EXCEPT ![p] = @ \cup {<< c, r >>}]
        /\ r = "accepted" => o = "live"
        /\ r = "rejected" => o = "refused"
  BY DEF Call, Results
<1>3. /\ hd[p].st[c] = "submitted" /\ Written(c)
      /\ Pending(c, LastState(log, c)) /\ sent[c] = 0
      /\ \A q \in Handles : c \in calls[q] => q = p
  BY <1>1 DEF JournalInv, CallsSound
<1>4. ex[c] = "none"
  BY <1>3 DEF JournalInv, SendsSound
<1>5. /\ calls \in [Handles -> SUBSET Commands] /\ answers \in [Handles -> SUBSET (Commands \X Results)]
      /\ ex \in [Commands -> {"none", "refused"} \cup Taken] /\ sent \in [Commands -> Nat]
  BY DEF JournalInv, TypeOK
<1>6. /\ calls' \in [Handles -> SUBSET Commands] /\ answers' \in [Handles -> SUBSET (Commands \X Results)]
      /\ ex' \in [Commands -> {"none", "refused"} \cup Taken] /\ sent' \in [Commands -> Nat]
  BY <1>1, <1>2, <1>5 DEF Taken
<1>7. /\ sent'[c] = 1 /\ ex'[c] = o
      /\ \A x \in Commands : x # c => sent'[x] = sent[x] /\ ex'[x] = ex[x]
      /\ calls'[p] = calls[p] \ {c} /\ \A q \in Handles : q # p => calls'[q] = calls[q]
      /\ answers'[p] = answers[p] \cup {<< c, r >>}
      /\ \A q \in Handles : q # p => answers'[q] = answers[q]
  BY <1>1, <1>2, <1>3, <1>4, <1>5
<1>8. TypeOK'
  BY <1>1, <1>6 DEF JournalInv, TypeOK
<1>9. FilesSound' /\ HandlesSound' /\ MarkSound'
  <2>1. FilesSound /\ HandlesSound /\ MarkSound
    BY DEF JournalInv
  <2> QED
    BY <1>1, <2>1 DEF FilesSound, HandlesSound, MarkSound, Unforked, IsOpen
<1>10. SendsSound'
  <2>1. LastState(log, c) \notin {"none", "prepared"}
    BY <1>3 DEF Pending
  <2> SUFFICES ASSUME NEW x \in Commands
               PROVE  /\ sent'[x] = 0 => ex'[x] = "none"
                      /\ sent'[x] > 0 => LastState(log, x) \notin {"none", "prepared"}
    BY <1>1 DEF SendsSound
  <2>2. CASE x = c
    BY <1>7, <2>1, <2>2
  <2>3. CASE x # c
    BY <1>7, <2>3 DEF JournalInv, SendsSound
  <2> QED
    BY <2>2, <2>3
<1>11. WriteAhead'
  BY <1>1, <1>3, <1>7 DEF JournalInv, WriteAhead, Written
<1>17. \A k : Over(k) => Over(k)'
  <2> SUFFICES ASSUME NEW k, NEW q \in Places, Client[q] = k, ex[q] \in Terminal
               PROVE  ex'[q] \in Terminal
    BY DEF Over
  <2>1. q # c
    BY <1>4 DEF Terminal
  <2> QED
    BY <1>7, <2>1 DEF Commands
<1>12. TellsTruth'
  <2> SUFFICES ASSUME NEW x \in Commands PROVE Backed(x, LastState(log, x))'
    BY DEF TellsTruth
  <2>1. CASE x = c
    BY <1>1, <1>3, <1>17, <2>1 DEF Backed, Pending
  <2>2. CASE x # c
    <3>1. Backed(x, LastState(log, x))
      BY DEF JournalInv, TellsTruth
    <3> QED
      BY <1>1, <1>7, <1>17, <2>2, <3>1 DEF Backed
  <2> QED
    BY <2>1, <2>2
<1>13. KnowledgeSound'
  <2> SUFFICES ASSUME NEW q \in Handles, IsOpen(q)
               PROVE  /\ (Unforked /\ (Fresh(q) \/ (setting.locked /\ failures = 0))) =>
                           hd[q].st = StatesOf(log) /\ hd[q].next = Len(log) + 1
                      /\ Fresh(q) => \A x \in Commands :
                           hd[q].st[x] = LastState(log, x) \/ Missed(log, hd[q], x)'
                      /\ setting.locked => \A x \in Commands :
                           \/ hd[q].st[x] = LastState(log, x) \/ Missed(log, hd[q], x)'
                           \/ hd[q].st[x] \in Unresolved
    BY <1>1 DEF KnowledgeSound, Unforked, Near, Missed, IsOpen, Fresh
  <2>1. ASSUME NEW x \in Commands, Missed(log, hd[q], x) PROVE Missed(log, hd[q], x)'
    <3>1. CASE x = c
      <4>1. setting.locked /\ hd[q].st[c] = "none"
        BY <2>1, <3>1 DEF Missed
      <4>2. IsOpen(p)
        BY <1>1 DEF JournalInv, OnlyReadySend, Ready, IsOpen
      <4>3. q = p
        BY <4>1, <4>2 DEF JournalInv, HandlesSound
      <4> QED
        BY <1>3, <4>1, <4>3
    <3>2. CASE x # c
      BY <1>1, <1>7, <2>1, <3>2 DEF Missed
    <3> QED
      BY <3>1, <3>2
  <2> QED
    BY <2>1 DEF JournalInv, KnowledgeSound, Near
<1>14. OnlyReadySend'
  <2> SUFFICES ASSUME NEW q \in Handles, ~ Ready(q) PROVE calls'[q] = {} /\ answers'[q] = {}
    BY <1>1 DEF OnlyReadySend, Ready
  <2>1. calls[q] = {} /\ answers[q] = {}
    BY DEF JournalInv, OnlyReadySend
  <2> QED
    BY <1>1, <1>7, <2>1
<1>15. CallsSound'
  <2> SUFFICES ASSUME NEW q \in Handles, NEW x \in calls'[q]
               PROVE  /\ hd[q].st[x] = "submitted" /\ Written(x)
                      /\ Pending(x, LastState(log, x))' /\ sent'[x] = 0
                      /\ \A w \in Handles : x \in calls'[w] => w = q
    BY <1>1 DEF CallsSound, Written
  <2>1. x \in calls[q] /\ x # c /\ x \in Commands
    BY <1>3, <1>5, <1>7
  <2>2. \A w \in Handles : calls'[w] \subseteq calls[w]
    BY <1>7
  <2>3. Pending(x, LastState(log, x)) => Pending(x, LastState(log, x))'
    BY <1>1, <1>17 DEF Pending
  <2> QED
    BY <1>7, <2>1, <2>2, <2>3 DEF JournalInv, CallsSound
<1>16. AnswersSound'
  <2> SUFFICES ASSUME NEW q \in Handles, NEW a \in answers'[q]
               PROVE  /\ hd[q].st[a[1]] = "submitted" /\ sent'[a[1]] = 1
                      /\ a[1] \notin calls'[q]
                      /\ a[2] = "accepted" => ex'[a[1]] \in Taken
                      /\ a[2] = "rejected" => ex'[a[1]] = "refused"
                      /\ \A b \in answers'[q] : b[1] = a[1] => b = a
    BY <1>1 DEF AnswersSound
  <2>1. \A w \in Handles : \A b \in answers[w] : b[1] \in Commands /\ b[1] # c
    BY <1>3, <1>5 DEF JournalInv, AnswersSound
  <2>2. CASE a \in answers[q]
    <3>1. /\ hd[q].st[a[1]] = "submitted" /\ sent[a[1]] = 1
          /\ a[1] \notin calls[q]
          /\ a[2] = "accepted" => ex[a[1]] \in Taken
          /\ a[2] = "rejected" => ex[a[1]] = "refused"
          /\ \A b \in answers[q] : b[1] = a[1] => b = a
      BY <2>2 DEF JournalInv, AnswersSound
    <3>2. a[1] \in Commands /\ a[1] # c
      BY <2>1, <2>2
    <3>3. a[1] \notin calls'[q]
      BY <1>7, <3>1
    <3>4. \A b \in answers'[q] : b \in answers[q] \/ b[1] = c
      BY <1>7
    <3> QED
      BY <1>7, <3>1, <3>2, <3>3, <3>4
  <2>3. CASE a \notin answers[q]
    <3>1. q = p /\ a = << c, r >>
      BY <1>7, <2>3
    <3>2. a[1] = c /\ a[2] = r
      BY <3>1
    <3>3. \A b \in answers'[p] : b[1] = c => b = a
      BY <1>7, <2>1, <3>1
    <3>4. a[2] = "accepted" => ex'[a[1]] \in Taken
      BY <1>2, <1>7, <3>2 DEF Taken
    <3>5. a[2] = "rejected" => ex'[a[1]] = "refused"
      BY <1>2, <1>7, <3>2
    <3> QED
      BY <1>3, <1>7, <3>1, <3>2, <3>3, <3>4, <3>5
  <2> QED
    BY <2>2, <2>3
<1> QED
  BY <1>8, <1>9, <1>10, <1>11, <1>12, <1>13, <1>14, <1>15, <1>16 DEF JournalInv

(* An order that ends can only add to what the exchange has to show.       *)
LEMMA OrderEndsKeeps ==
  ASSUME JournalInv, NEW c \in Commands, OrderEnds(c)
  PROVE  JournalInv'
<1>1. /\ setting' = setting /\ log' = log /\ base' = base /\ torn' = torn /\ hd' = hd
      /\ calls' = calls /\ answers' = answers /\ sent' = sent /\ mark' = mark
      /\ failures' = failures /\ rotateFailures' = rotateFailures /\ crashes' = crashes
      /\ ex[c] = "live"
  BY DEF OrderEnds
<1>2. PICK e \in {"cancelled", "ended"} : ex' = [ex EXCEPT ![c] = e]
  BY DEF OrderEnds
<1>3. ex \in [Commands -> {"none", "refused"} \cup Taken]
  BY DEF JournalInv, TypeOK
<1>4. /\ ex' \in [Commands -> {"none", "refused"} \cup Taken]
      /\ ex'[c] \in Taken /\ ex[c] \in Taken
      /\ \A x \in Commands : x # c => ex'[x] = ex[x]
  BY <1>1, <1>2, <1>3 DEF Taken
<1>5. \A k : Over(k) => Over(k)'
  <2> SUFFICES ASSUME NEW k, NEW q \in Places, Client[q] = k, ex[q] \in Terminal
               PROVE  ex'[q] \in Terminal
    BY DEF Over
  <2>1. q # c
    BY <1>1 DEF Terminal
  <2> QED
    BY <1>4, <2>1 DEF Commands
<1>6. TypeOK' /\ FilesSound' /\ HandlesSound' /\ KnowledgeSound' /\ MarkSound'
  BY <1>1, <1>4 DEF JournalInv, TypeOK, FilesSound, HandlesSound, KnowledgeSound, MarkSound,
                    Unforked, IsOpen, Fresh, Near, Missed
<1>7. OnlyReadySend' /\ WriteAhead'
  BY <1>1 DEF JournalInv, OnlyReadySend, Ready, WriteAhead
<1>8. SendsSound'
  <2> SUFFICES ASSUME NEW x \in Commands
               PROVE  /\ sent[x] = 0 => ex'[x] = "none"
                      /\ sent[x] > 0 => LastState(log, x) \notin {"none", "prepared"}
    BY <1>1 DEF SendsSound
  <2>1. /\ sent[x] = 0 => ex[x] = "none"
        /\ sent[x] > 0 => LastState(log, x) \notin {"none", "prepared"}
    BY DEF JournalInv, SendsSound
  <2> QED
    BY <1>1, <1>4, <2>1
<1>9. CallsSound'
  <2>1. \A q \in Handles : \A x \in calls[q] :
          Pending(x, LastState(log, x)) => Pending(x, LastState(log, x))'
    BY <1>1, <1>5 DEF Pending
  <2> QED
    BY <1>1, <2>1 DEF JournalInv, CallsSound, Written
<1>10. AnswersSound'
  <2> SUFFICES ASSUME NEW q \in Handles, NEW a \in answers[q]
               PROVE  /\ hd[q].st[a[1]] = "submitted" /\ sent[a[1]] = 1
                      /\ a[1] \notin calls[q]
                      /\ a[2] = "accepted" => ex'[a[1]] \in Taken
                      /\ a[2] = "rejected" => ex'[a[1]] = "refused"
                      /\ \A b \in answers[q] : b[1] = a[1] => b = a
    BY <1>1 DEF AnswersSound
  <2>1. /\ hd[q].st[a[1]] = "submitted" /\ sent[a[1]] = 1
        /\ a[1] \notin calls[q]
        /\ a[2] = "accepted" => ex[a[1]] \in Taken
        /\ a[2] = "rejected" => ex[a[1]] = "refused"
        /\ \A b \in answers[q] : b[1] = a[1] => b = a
        /\ a[1] \in Commands
    BY DEF JournalInv, AnswersSound, TypeOK
  <2> QED
    BY <1>1, <1>4, <2>1
<1>11. TellsTruth'
  <2> SUFFICES ASSUME NEW x \in Commands PROVE Backed(x, LastState(log, x))'
    BY DEF TellsTruth
  <2>1. Backed(x, LastState(log, x))
    BY DEF JournalInv, TellsTruth
  <2> QED
    BY <1>1, <1>4, <1>5, <2>1 DEF Backed
<1> QED
  BY <1>6, <1>7, <1>8, <1>9, <1>10, <1>11 DEF JournalInv

(* rotate_active, also when it fails after the rename: nothing is          *)
(* unresolved, so what the handle knows is what the file says.             *)
LEMMA RotateKeeps ==
  ASSUME JournalInv, NEW p \in Handles, Rotate(p)
  PROVE  JournalInv'
<1>1. /\ setting.locked /\ Idle(p) /\ Len(log) - base >= setting.rotateAt
      /\ hd[p].index.unresolved = {} /\ base' = Len(log)
      /\ torn' = IF torn = "active" THEN "archived" ELSE torn
      /\ \/ hd' = [hd EXCEPT ![p].len = 0] /\ rotateFailures' = rotateFailures
         \/ rotateFailures' = rotateFailures + 1 /\ hd' = hd
      /\ setting' = setting /\ log' = log /\ calls' = calls
      /\ answers' = answers /\ ex' = ex /\ sent' = sent /\ mark' = mark /\ failures' = failures
      /\ crashes' = crashes
  BY DEF Rotate
<1>2. /\ hd \in [Handles -> HandleType \cup {Closed}] /\ log \in Seq(Record) /\ Len(log) \in Nat
      /\ base \in 0..Len(log) /\ torn \in {"none", "active", "archived"} /\ rotateFailures \in Nat
      /\ setting.rotateAt \in Nat \ {0} /\ setting \in Settings
  BY JournalAssumption DEF JournalInv, TypeOK, Setting
<1>3. IsOpen(p) /\ hd[p] \in HandleType
  BY <1>1, NothingUnderWay
<1>4. \A q \in Handles : IsOpen(q) => q = p
  BY <1>1, <1>3 DEF JournalInv, HandlesSound
<1> DEFINE g == hd'[p]
<1>5. /\ g \in HandleType /\ g.st = hd[p].st /\ g.next = hd[p].next
      /\ g.root = hd[p].root /\ g.index = hd[p].index /\ g.phase = hd[p].phase
  <2>1. CASE hd' = [hd EXCEPT ![p].len = 0]
    <3>1. g = [hd[p] EXCEPT !.len = 0]
      BY <1>2, <2>1
    <3> QED
      BY <1>3, <3>1 DEF HandleType
  <2>2. CASE hd' = hd
    BY <1>3, <2>2
  <2> QED
    BY <1>1, <2>1, <2>2
<1>6. /\ \A q \in Handles : q # p => hd'[q] = hd[q]
      /\ hd' = [hd EXCEPT ![p] = g]
  BY <1>1, <1>2
<1> HIDE DEF g
<1>7. hd'[p] = g /\ hd' \in [Handles -> HandleType \cup {Closed}]
  <2>1. hd'[p] = g
    BY DEF g
  <2> QED
    BY <1>2, <1>5, <1>6, <2>1
<1>8. \A q \in Handles : (IsOpen(q)' <=> IsOpen(q)) /\ (Ready(q)' <=> Ready(q))
  BY <1>5, <1>6, <1>7 DEF IsOpen, Ready
<1>21. /\ base' \in 0..Len(log') /\ torn' \in {"none", "active", "archived"}
       /\ rotateFailures' \in Nat
  BY <1>1, <1>2
<1>22. /\ setting' \in Settings /\ log' \in Seq(Record) /\ calls' \in [Handles -> SUBSET Commands]
       /\ answers' \in [Handles -> SUBSET (Commands \X Results)]
       /\ ex' \in [Commands -> {"none", "refused"} \cup Taken] /\ sent' \in [Commands -> Nat]
       /\ mark' \in [tail : Nat, root : SUBSET (Nat \X Commands)]
       /\ failures' \in Nat /\ crashes' \in Nat
  BY <1>1 DEF JournalInv, TypeOK
<1>9. TypeOK'
  BY <1>7, <1>21, <1>22 DEF TypeOK
<1>10. Unforked' => failures = 0 /\ Unforked
  <2>1. base' # 0
    BY <1>1, <1>2
  <2> QED
    BY <1>1, <2>1 DEF Unforked
<1>11. FilesSound' /\ MarkSound' /\ SendsSound' /\ WriteAhead' /\ TellsTruth'
  <2>1. FilesSound /\ MarkSound /\ SendsSound /\ WriteAhead /\ TellsTruth
    BY DEF JournalInv
  <2> QED
    BY <1>1, <1>10, <2>1 DEF FilesSound, MarkSound, SendsSound, WriteAhead, TellsTruth, Backed, Over
<1>12. /\ hd[p].index = IndexOf(hd[p].st) /\ hd[p].next >= 1
       /\ Unforked => /\ hd[p].next <= Len(log) + 1
                      /\ hd[p].root = Pairs(log, hd[p].next - 1)
  BY <1>3 DEF JournalInv, HandlesSound
<1>13. HandlesSound'
  <2> SUFFICES ASSUME NEW q \in Handles, IsOpen(q)'
               PROVE  /\ hd'[q].index = IndexOf(hd'[q].st) /\ hd'[q].next >= 1
                      /\ \A o \in Handles : IsOpen(o)' => o = q
                      /\ Unforked' => /\ hd'[q].next <= Len(log) + 1
                                      /\ hd'[q].root = Pairs(log, hd'[q].next - 1)
    BY <1>1 DEF HandlesSound
  <2>1. q = p /\ \A o \in Handles : IsOpen(o)' => o = q
    BY <1>4, <1>8
  <2> QED
    BY <1>5, <1>7, <1>10, <1>12, <2>1
<1>14. /\ (Unforked /\ setting.locked /\ failures = 0) =>
            hd[p].st = StatesOf(log) /\ hd[p].next = Len(log) + 1
       /\ \A c \in Commands :
            hd[p].st[c] = LastState(log, c) \/ Missed(log, hd[p], c) \/ hd[p].st[c] \in Unresolved
  BY <1>1, <1>3 DEF JournalInv, KnowledgeSound
<1>15. \A c \in Commands : hd[p].st[c] \notin Unresolved
  <2>1. hd[p].index.unresolved = { c \in Commands : hd[p].st[c] \in Unresolved }
    BY <1>12 DEF IndexOf
  <2> QED
    BY <1>1, <2>1
<1>16. KnowledgeSound'
  <2> SUFFICES ASSUME NEW q \in Handles, IsOpen(q)'
               PROVE  /\ Unforked' => hd'[q].st = StatesOf(log) /\ hd'[q].next = Len(log) + 1
                      /\ \A c \in Commands :
                           hd'[q].st[c] = LastState(log, c) \/ Missed(log, hd'[q], c)
    BY <1>1 DEF KnowledgeSound, Near, Missed
  <2>1. q = p
    BY <1>4, <1>8
  <2>2. Unforked' => hd'[p].st = StatesOf(log) /\ hd'[p].next = Len(log) + 1
    BY <1>1, <1>5, <1>7, <1>10, <1>14
  <2>3. \A c \in Commands : hd'[p].st[c] = LastState(log, c) \/ Missed(log, hd'[p], c)
    BY <1>5, <1>7, <1>14, <1>15 DEF Missed
  <2> QED
    BY <2>1, <2>2, <2>3
<1>17. OnlyReadySend'
  BY <1>1, <1>8 DEF JournalInv, OnlyReadySend
<1>18. \A q \in Handles : hd'[q].st = hd[q].st
  BY <1>5, <1>6, <1>7
<1>19. CallsSound'
  BY <1>1, <1>18 DEF JournalInv, CallsSound, Written, Pending, Over
<1>20. AnswersSound'
  BY <1>1, <1>18 DEF JournalInv, AnswersSound
<1> QED
  BY <1>9, <1>11, <1>13, <1>16, <1>17, <1>19, <1>20 DEF JournalInv

(* durable_wal_head: an actor checkpoint is bound to the head of a handle. *)
LEMMA CheckpointKeeps ==
  ASSUME JournalInv, NEW p \in Handles, Checkpoint(p)
  PROVE  JournalInv'
<1>1. /\ Ready(p) /\ mark' = [tail |-> hd[p].next - 1, root |-> hd[p].root]
      /\ setting' = setting /\ log' = log /\ base' = base /\ torn' = torn /\ hd' = hd
      /\ calls' = calls /\ answers' = answers /\ ex' = ex /\ sent' = sent /\ failures' = failures
      /\ rotateFailures' = rotateFailures /\ crashes' = crashes
  BY DEF Checkpoint
<1>2. IsOpen(p) /\ hd[p] \in HandleType
  BY <1>1, HandleIs DEF JournalInv, Ready, IsOpen
<1>3. /\ hd[p].next >= 1
      /\ Unforked => /\ hd[p].next <= Len(log) + 1
                     /\ hd[p].root = Pairs(log, hd[p].next - 1)
  BY <1>2 DEF JournalInv, HandlesSound
<1>4. hd[p].next \in Nat /\ hd[p].root \in SUBSET (Nat \X Commands) /\ Len(log) \in Nat
  BY <1>2 DEF HandleType, JournalInv, TypeOK
<1>5. mark' \in [tail : Nat, root : SUBSET (Nat \X Commands)] /\ MarkSound'
  BY <1>1, <1>3, <1>4 DEF MarkSound, Unforked
<1>6. TypeOK'
  BY <1>1, <1>5 DEF JournalInv, TypeOK
<1>7. FilesSound' /\ HandlesSound' /\ KnowledgeSound' /\ SendsSound' /\ WriteAhead' /\ TellsTruth'
  <2>1. FilesSound /\ HandlesSound /\ KnowledgeSound /\ SendsSound /\ WriteAhead /\ TellsTruth
    BY DEF JournalInv
  <2> QED
    BY <1>1, <2>1 DEF FilesSound, HandlesSound, KnowledgeSound, SendsSound, WriteAhead, TellsTruth, Backed, Over,
                      Unforked, IsOpen, Fresh, Near, Missed
<1>8. OnlyReadySend' /\ CallsSound' /\ AnswersSound'
  <2>1. OnlyReadySend /\ CallsSound /\ AnswersSound
    BY DEF JournalInv
  <2> QED
    BY <1>1, <2>1 DEF OnlyReadySend, Ready, CallsSound, AnswersSound, Written, Pending, Over
<1> QED
  BY <1>5, <1>6, <1>7, <1>8 DEF JournalInv

(* A process ends: what it had under way is gone, the file stays.          *)
LEMMA CloseKeeps ==
  ASSUME JournalInv, NEW p \in Handles, Close(p)
  PROVE  JournalInv'
<1>1. /\ crashes' = crashes + 1 /\ hd' = [hd EXCEPT ![p] = Closed]
      /\ calls' = [calls EXCEPT ![p] = {}] /\ answers' = [answers EXCEPT ![p] = {}]
      /\ setting' = setting /\ log' = log /\ base' = base /\ torn' = torn
      /\ ex' = ex /\ sent' = sent /\ mark' = mark /\ failures' = failures
      /\ rotateFailures' = rotateFailures
  BY DEF Close
<1>2. /\ hd \in [Handles -> HandleType \cup {Closed}] /\ calls \in [Handles -> SUBSET Commands]
      /\ answers \in [Handles -> SUBSET (Commands \X Results)] /\ crashes \in Nat
  BY DEF JournalInv, TypeOK
<1>3. /\ hd'[p] = Closed /\ calls'[p] = {} /\ answers'[p] = {}
      /\ \A q \in Handles : q # p => hd'[q] = hd[q] /\ calls'[q] = calls[q] /\ answers'[q] = answers[q]
      /\ hd' \in [Handles -> HandleType \cup {Closed}] /\ calls' \in [Handles -> SUBSET Commands]
      /\ answers' \in [Handles -> SUBSET (Commands \X Results)] /\ crashes' \in Nat
  BY <1>1, <1>2
<1>4. TypeOK'
  BY <1>1, <1>3 DEF JournalInv, TypeOK
<1>5. FilesSound' /\ MarkSound' /\ SendsSound' /\ WriteAhead' /\ TellsTruth'
  <2>1. FilesSound /\ MarkSound /\ SendsSound /\ WriteAhead /\ TellsTruth
    BY DEF JournalInv
  <2> QED
    BY <1>1, <2>1 DEF FilesSound, MarkSound, SendsSound, WriteAhead, TellsTruth, Backed, Over,
              Unforked
<1>6. \A q \in Handles : IsOpen(q)' => q # p /\ IsOpen(q) /\ hd'[q] = hd[q]
  BY <1>3 DEF IsOpen, Closed
<1>7. HandlesSound'
  BY <1>1, <1>6 DEF JournalInv, HandlesSound, Unforked
<1>8. KnowledgeSound'
  BY <1>1, <1>6 DEF JournalInv, KnowledgeSound, Unforked, Fresh, Near, Missed
<1>9. OnlyReadySend'
  BY <1>3 DEF JournalInv, OnlyReadySend, Ready
<1>10. CallsSound'
  <2> SUFFICES ASSUME NEW q \in Handles, NEW x \in calls'[q]
               PROVE  /\ hd'[q].st[x] = "submitted" /\ Written(x)
                      /\ Pending(x, LastState(log, x)) /\ sent[x] = 0
                      /\ \A w \in Handles : x \in calls'[w] => w = q
    BY <1>1 DEF CallsSound, Written, Pending, Over
  <2>1. q # p /\ x \in calls[q] /\ hd'[q] = hd[q] /\ \A w \in Handles : calls'[w] \subseteq calls[w]
    BY <1>3
  <2> QED
    BY <2>1 DEF JournalInv, CallsSound
<1>11. AnswersSound'
  <2>1. \A q \in Handles : \A a \in answers'[q] :
          q # p /\ answers'[q] = answers[q] /\ calls'[q] = calls[q] /\ hd'[q] = hd[q]
    BY <1>3
  <2> QED
    BY <1>1, <2>1 DEF JournalInv, AnswersSound
<1> QED
  BY <1>4, <1>5, <1>7, <1>8, <1>9, <1>10, <1>11 DEF JournalInv


-----------------------------------------------------------------------------
(* The journal.                                                            *)

(* An empty file and no handle on it.                                      *)
LEMMA InitHolds ==
  ASSUME Init
  PROVE  JournalInv
<1>1. /\ setting \in Settings /\ log = << >> /\ base = 0 /\ torn = "none"
      /\ hd = [p \in Handles |-> Closed] /\ calls = [p \in Handles |-> {}]
      /\ answers = [p \in Handles |-> {}] /\ ex = [c \in Commands |-> "none"]
      /\ sent = [c \in Commands |-> 0] /\ mark = NoMark
      /\ failures = 0 /\ rotateFailures = 0 /\ crashes = 0
  BY DEF Init
<1>2. log \in Seq(Record) /\ Len(log) = 0 /\ DOMAIN log = {}
  BY <1>1
<1>3. TypeOK
  BY <1>1, <1>2 DEF TypeOK, NoMark
<1>4. \A p \in Handles : ~ IsOpen(p) /\ calls[p] = {} /\ answers[p] = {}
  BY <1>1 DEF IsOpen, Closed
<1>5. \A c \in Commands : LastState(log, c) = "none" /\ sent[c] = 0 /\ ex[c] = "none"
  BY <1>1, <1>2 DEF LastState
<1>6. FilesSound
  BY <1>1, <1>2 DEF FilesSound, Accepted
<1>7. HandlesSound /\ KnowledgeSound /\ OnlyReadySend /\ CallsSound /\ AnswersSound
  BY <1>4 DEF HandlesSound, KnowledgeSound, OnlyReadySend, CallsSound, AnswersSound
<1>8. MarkSound
  BY <1>1, <1>2 DEF MarkSound, NoMark, Pairs, Firsts
<1>9. SendsSound /\ WriteAhead /\ TellsTruth
  BY <1>5 DEF SendsSound, WriteAhead, TellsTruth, Backed, Taken
<1> QED
  BY <1>3, <1>6, <1>7, <1>8, <1>9 DEF JournalInv

(* A stutter changes nothing.                                              *)
LEMMA StutterKeeps ==
  ASSUME JournalInv, UNCHANGED vars
  PROVE  JournalInv'
<1>1. /\ setting' = setting /\ log' = log /\ base' = base /\ torn' = torn /\ hd' = hd
      /\ calls' = calls /\ answers' = answers /\ ex' = ex /\ sent' = sent /\ mark' = mark
      /\ failures' = failures /\ rotateFailures' = rotateFailures /\ crashes' = crashes
  BY DEF vars
<1>2. TypeOK' /\ FilesSound' /\ HandlesSound' /\ KnowledgeSound' /\ MarkSound'
  BY <1>1 DEF JournalInv, TypeOK, FilesSound, HandlesSound, KnowledgeSound, MarkSound,
              Unforked, IsOpen, Fresh, Near, Missed
<1>3. SendsSound' /\ OnlyReadySend' /\ CallsSound' /\ AnswersSound' /\ WriteAhead' /\ TellsTruth'
  BY <1>1 DEF JournalInv, SendsSound, OnlyReadySend, Ready, CallsSound, Written, AnswersSound,
              WriteAhead, TellsTruth, Backed, Pending, Over
<1> QED
  BY <1>2, <1>3 DEF JournalInv

(* Every operation of every handle keeps the invariant.                    *)
LEMMA StepKeeps ==
  ASSUME JournalInv, [Next]_vars
  PROVE  JournalInv'
<1>1. CASE UNCHANGED vars
  BY <1>1, StutterKeeps
<1>2. CASE \E c \in Commands : OrderEnds(c)
  BY <1>2, OrderEndsKeeps
<1>3. CASE Next /\ ~ \E c \in Commands : OrderEnds(c)
  <2>1. PICK p \in Handles :
          \/ Open(p) \/ Fenced(p) \/ Rotate(p) \/ Checkpoint(p) \/ Close(p)
          \/ \E a \in answers[p] : Verdict(p, a)
          \/ \E c \in Commands :
              \/ FenceInterrupted(p, c) \/ Reconcile(p, c) \/ Prepare(p, c)
              \/ Submit(p, c) \/ Withdraw(p, c) \/ Call(p, c)
              \/ \E d \in Commands : PrepareBatch(p, c, d) \/ PrepareSubmittedBatch(p, c, d)
    BY <1>3 DEF Next
  <2>2. CASE Open(p) \/ Fenced(p) \/ Rotate(p) \/ Checkpoint(p) \/ Close(p)
    BY <2>2, OpenKeeps, FencedKeeps, RotateKeeps, CheckpointKeeps, CloseKeeps
  <2>3. ASSUME NEW a \in answers[p], Verdict(p, a) PROVE JournalInv'
    BY <2>3, VerdictKeeps
  <2>4. ASSUME NEW c \in Commands,
               \/ FenceInterrupted(p, c) \/ Reconcile(p, c) \/ Prepare(p, c)
               \/ Submit(p, c) \/ Withdraw(p, c) \/ Call(p, c)
        PROVE  JournalInv'
    BY <2>4, FenceInterruptedKeeps, ReconcileKeeps, PrepareKeeps, SubmitKeeps, WithdrawKeeps, CallKeeps
  <2>5. ASSUME NEW c \in Commands, NEW d \in Commands,
               PrepareBatch(p, c, d) \/ PrepareSubmittedBatch(p, c, d)
        PROVE  JournalInv'
    BY <2>5, PrepareBatchKeeps, PrepareSubmittedBatchKeeps
  <2> QED
    BY <2>1, <2>2, <2>3, <2>4, <2>5
<1> QED
  BY <1>1, <1>2, <1>3

(* The inductive invariant of the WAL: for every set of processes and      *)
(* commands, every setting, and every order of their operations.           *)
THEOREM JournalInvariant == Spec => []JournalInv
<1>1. Init => JournalInv
  BY InitHolds
<1>2. JournalInv /\ [Next]_vars => JournalInv'
  BY StepKeeps
<1> QED
  BY <1>1, <1>2, PTL DEF Spec

(* Every variable of the journal keeps its type.                           *)
THEOREM JournalTypeCorrect == Spec => []TypeOK
<1>1. JournalInv => TypeOK
  BY DEF JournalInv
<1> QED
  BY <1>1, JournalInvariant, PTL

(* dispatch_prepared sends what transition has written as Submitted, and   *)
(* no command twice, across failing appends, rotations, crashes, restarts  *)
(* and processes beside each other.                                        *)
THEOREM JournalWriteAhead == Spec => []WriteAhead
<1>1. JournalInv => WriteAhead
  BY DEF JournalInv
<1> QED
  BY <1>1, JournalInvariant, PTL

(* No receipt records an outcome the exchange did not produce: neither the *)
(* fence of a restart nor the verdict of a call or of a readback, also for *)
(* a cancel, which apply_recovery settles from its target's state whatever *)
(* became of the cancel itself.                                            *)
THEOREM JournalTellsTruth == Spec => []TellsTruth
<1>1. JournalInv => TellsTruth
  BY DEF JournalInv
<1> QED
  BY <1>1, JournalInvariant, PTL

(* While no file was archived after a failing append, open_segmented       *)
(* accepts what the handles have written unless a record is torn.          *)
THEOREM JournalAlwaysReplays == Spec => [](Unforked => AlwaysReplays)
<1>1. JournalInv => (Unforked => AlwaysReplays)
  BY DEF JournalInv, FilesSound, AlwaysReplays, Replays
<1> QED
  BY <1>1, JournalInvariant, PTL

(* And every handle that can still append has exactly the states, the      *)
(* sequence, the WAL head and the query indexes of a fresh replay.         *)
THEOREM JournalHandleExact == Spec => [](Unforked => HandleExact)
<1>1. ASSUME JournalInv, Unforked PROVE HandleExact
  <2> SUFFICES ASSUME NEW p \in Handles, IsOpen(p), Fresh(p)
               PROVE  [hd[p] EXCEPT !.phase = "fencing"] = Rebuilt
    BY DEF HandleExact
  <2>1. hd[p] \in HandleType /\ log \in Seq(Record)
    BY <1>1, HandleIs DEF JournalInv, TypeOK
  <2>2. hd[p].st = StatesOf(log) /\ hd[p].next = Len(log) + 1
    BY <1>1 DEF JournalInv, KnowledgeSound
  <2>3. hd[p].root = Pairs(log, hd[p].next - 1) /\ hd[p].index = IndexOf(hd[p].st)
    BY <1>1 DEF JournalInv, HandlesSound
  <2>4. hd[p].next - 1 = Len(log)
    BY <2>1, <2>2
  <2>5. hd[p].len = Len(log) - base
    BY DEF Fresh
  <2>6. hd[p] = [phase |-> hd[p].phase, st |-> hd[p].st, next |-> hd[p].next, len |-> hd[p].len,
                 root |-> hd[p].root, index |-> hd[p].index]
    BY <2>1 DEF HandleType
  <2> QED
    BY <2>2, <2>3, <2>4, <2>5, <2>6 DEF Rebuilt
<1>2. JournalInv => (Unforked => HandleExact)
  BY <1>1
<1> QED
  BY <1>2, JournalInvariant, PTL

(* And the WAL head that an actor checkpoint is bound to validates with    *)
(* every such handle, however long ago it was taken.                       *)
THEOREM JournalMarkStaysValid == Spec => [](Unforked => MarkStaysValid)
<1>1. ASSUME JournalInv, Unforked PROVE MarkStaysValid
  <2> SUFFICES ASSUME NEW p \in Handles, IsOpen(p), Fresh(p)
               PROVE  /\ mark.tail < hd[p].next
                      /\ { e \in hd[p].root : e[1] <= mark.tail } = mark.root
    BY DEF MarkStaysValid
  <2>1. log \in Seq(Record) /\ Len(log) \in Nat /\ mark.tail \in Nat
    BY <1>1 DEF JournalInv, TypeOK
  <2>2. hd[p].next = Len(log) + 1
    BY <1>1 DEF JournalInv, KnowledgeSound
  <2>3. hd[p].root = Pairs(log, Len(log))
    <3>1. hd[p].root = Pairs(log, hd[p].next - 1)
      BY <1>1 DEF JournalInv, HandlesSound
    <3>2. hd[p].next - 1 = Len(log)
      BY <2>1, <2>2
    <3> QED
      BY <3>1, <3>2
  <2>4. mark.tail <= Len(log) /\ mark.root = Pairs(log, mark.tail)
    BY <1>1 DEF JournalInv, MarkSound
  <2>5. \A i \in Firsts(log) : i <= Len(log)
    BY <2>1 DEF Firsts
  <2>6. { e \in Pairs(log, Len(log)) : e[1] <= mark.tail } = Pairs(log, mark.tail)
    BY <2>5 DEF Pairs
  <2>7. mark.tail < hd[p].next
    BY <2>1, <2>2, <2>4
  <2> QED
    BY <2>3, <2>4, <2>6, <2>7
<1>2. JournalInv => (Unforked => MarkStaysValid)
  BY <1>1
<1> QED
  BY <1>2, JournalInvariant, PTL


=============================================================================
