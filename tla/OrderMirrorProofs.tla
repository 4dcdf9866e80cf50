-------------------------- MODULE OrderMirrorProofs --------------------------
(* Proofs about OrderMirror. *)
EXTENDS OrderMirror, WellFoundedInduction, TLAPS

(* A nonempty set of numbers has a least one. *)
LEMMA LeastNumber ==
  ASSUME NEW T, T \subseteq Nat, T # {}
  PROVE  \E x \in T : \A y \in T : x <= y
<1> DEFINE R == OpToRel(<, Nat)
<1>1. IsWellFoundedOn(R, Nat)
  BY NatLessThanWellFounded
<1>2. \A x, y \in Nat : y < x => << y, x >> \in R
  BY DEF OpToRel
<1> HIDE DEF R
<1>3. PICK x \in T : \A y \in T : ~(<< y, x >> \in R)
  BY <1>1, WFMin
<1>4. ASSUME NEW y \in T PROVE x <= y
  <2>1. x \in Nat /\ y \in Nat
    OBVIOUS
  <2>2. ~(y < x)
    BY <1>2, <1>3, <2>1
  <2> QED
    BY <2>1, <2>2
<1> QED
  BY <1>4

\* s holds the sums of the first lots of e.
Sums(s, e, n) ==
    /\ s \in [0..n -> Nat] /\ s[0] = 0
    /\ \A j \in 1..n : s[j] = s[j - 1] + e[j]

(* The partial sums of a sequence exist. *)
LEMMA SumsExist ==
  ASSUME NEW n \in Nat, NEW e \in [1..n -> Nat]
  PROVE  \E s : Sums(s, e, n)
<1> DEFINE Bad == { k \in 0..n : ~ \E s : Sums(s, e, k) }
<1>0. SUFFICES ASSUME ~ \E s : Sums(s, e, n) PROVE FALSE
  OBVIOUS
<1>1. n \in Bad
  BY <1>0
<1>2. PICK k \in Bad : \A j \in Bad : k <= j
  <2>1. Bad \subseteq Nat
    OBVIOUS
  <2> HIDE DEF Bad
  <2> QED
    BY <1>1, <2>1, LeastNumber
<1>3. k # 0
  <2>1. Sums([j \in 0..0 |-> 0], e, 0)
    BY DEF Sums
  <2> QED
    BY <2>1
<1>4. PICK s : Sums(s, e, k - 1)
  BY <1>2, <1>3
<1> DEFINE t == [j \in 0..k |-> IF j = k THEN s[k - 1] + e[k] ELSE s[j]]
<1>5. k \in 1..n /\ k - 1 \in 0..(k - 1)
  BY <1>3
<1>6. t \in [0..k -> Nat] /\ t[0] = 0
  BY <1>4, <1>5 DEF Sums
<1>7. ASSUME NEW j \in 1..k PROVE t[j] = t[j - 1] + e[j]
  <2>1. CASE j = k
    BY <2>1, <1>4, <1>5
  <2>2. CASE j # k
    <3>1. j \in 1..(k - 1) /\ j - 1 # k /\ j - 1 \in 0..k
      BY <2>2, <1>5
    <3> QED
      BY <2>2, <3>1, <1>4 DEF Sums
  <2> QED
    BY <2>1, <2>2
<1>8. Sums(t, e, k)
  BY <1>6, <1>7 DEF Sums
<1> QED
  BY <1>8

(* Total is the last of the partial sums. *)
LEMMA TotalIsSum ==
  ASSUME NEW n \in Nat, NEW e \in [1..n -> Nat]
  PROVE  \E s : Sums(s, e, n) /\ Total(e) = s[n]
<1>1. Len(e) = n
  OBVIOUS
<1> DEFINE Eq(s) == s = [k \in 0..n |-> IF k = 0 THEN 0 ELSE s[k - 1] + e[k]]
           c == CHOOSE s : Eq(s)
<1>2. Total(e) = c[n]
  BY <1>1 DEF Total
<1>3. PICK s : Sums(s, e, n)
  BY SumsExist
<1>4. Eq(s)
  BY <1>3 DEF Sums
<1> HIDE DEF Eq
<1>5. Eq(c)
  BY <1>4
<1>6. c = [k \in 0..n |-> IF k = 0 THEN 0 ELSE c[k - 1] + e[k]]
  BY <1>5 DEF Eq
<1> HIDE DEF c
<1>7. \A k \in 0..n : c[k] = IF k = 0 THEN 0 ELSE c[k - 1] + e[k]
  <2> DEFINE f == [k \in 0..n |-> IF k = 0 THEN 0 ELSE c[k - 1] + e[k]]
  <2>1. \A k \in 0..n : f[k] = IF k = 0 THEN 0 ELSE c[k - 1] + e[k]
    OBVIOUS
  <2>2. c = f
    BY <1>6
  <2> HIDE DEF f
  <2> QED
    BY <2>1, <2>2
<1>8. \A k \in 0..n : c[k] = s[k]
  <2> DEFINE Bad == { k \in 0..n : c[k] # s[k] }
  <2>1. SUFFICES ASSUME Bad # {} PROVE FALSE
    OBVIOUS
  <2>2. PICK k \in Bad : \A j \in Bad : k <= j
    <3>1. Bad \subseteq Nat
      OBVIOUS
    <3> HIDE DEF Bad
    <3> QED
      BY <2>1, <3>1, LeastNumber
  <2>3. k \in 1..n
    BY <1>3, <1>7 DEF Sums
  <2>4. c[k - 1] = s[k - 1]
    BY <2>2, <2>3
  <2> QED
    BY <2>3, <2>4, <1>3, <1>7 DEF Sums
<1> QED
  BY <1>2, <1>3, <1>8

(* Partial sums of larger lots are larger. *)
LEMMA SumsMonotone ==
  ASSUME NEW n \in Nat, NEW d \in [1..n -> Nat], NEW e \in [1..n -> Nat],
         \A i \in 1..n : d[i] <= e[i],
         NEW s, Sums(s, d, n), NEW t, Sums(t, e, n)
  PROVE  s[n] <= t[n]
<1> DEFINE Bad == { k \in 0..n : ~ (s[k] <= t[k]) }
<1>1. SUFFICES ASSUME Bad # {} PROVE FALSE
  OBVIOUS
<1>2. PICK k \in Bad : \A j \in Bad : k <= j
  <2>1. Bad \subseteq Nat
    OBVIOUS
  <2> HIDE DEF Bad
  <2> QED
    BY <1>1, <2>1, LeastNumber
<1>3. k \in 1..n
  BY DEF Sums
<1>4. s[k - 1] <= t[k - 1]
  BY <1>2, <1>3
<1>5. /\ s[k] = s[k - 1] + d[k] /\ t[k] = t[k - 1] + e[k]
      /\ s[k - 1] \in Nat /\ t[k - 1] \in Nat /\ d[k] \in Nat /\ e[k] \in Nat
      /\ d[k] <= e[k] /\ ~ (s[k] <= t[k])
  BY <1>3 DEF Sums
<1> HIDE DEF Bad
<1> QED
  BY <1>4, <1>5

(* Smaller lots have a smaller total. *)
LEMMA TotalMonotone ==
  ASSUME NEW n \in Nat, NEW d \in [1..n -> Nat], NEW e \in [1..n -> Nat],
         \A i \in 1..n : d[i] <= e[i]
  PROVE  Total(d) \in Nat /\ Total(e) \in Nat /\ Total(d) <= Total(e)
<1>1. PICK s : Sums(s, d, n) /\ Total(d) = s[n]
  BY TotalIsSum
<1>2. PICK t : Sums(t, e, n) /\ Total(e) = t[n]
  BY TotalIsSum
<1>3. s[n] <= t[n]
  BY <1>1, <1>2, SumsMonotone
<1> QED
  BY <1>1, <1>2, <1>3 DEF Sums

(* One lot more. *)
LEMMA TotalExtended ==
  ASSUME NEW n \in Nat, NEW d \in [1..n + 1 -> Nat], NEW e \in [1..n -> Nat],
         \A i \in 1..n : d[i] <= e[i]
  PROVE  Total(d) \in Nat /\ Total(e) \in Nat /\ Total(d) <= Total(e) + d[n + 1]
<1>1. PICK s : Sums(s, d, n + 1) /\ Total(d) = s[n + 1]
  BY TotalIsSum
<1>2. PICK t : Sums(t, e, n) /\ Total(e) = t[n]
  BY TotalIsSum
<1> DEFINE r == [k \in 0..n |-> s[k]]
           c == [k \in 1..n |-> d[k]]
<1>3. Sums(r, c, n) /\ c \in [1..n -> Nat] /\ r[n] = s[n]
  <2>0. s \in [0..n + 1 -> Nat] /\ 1..n \subseteq 1..n + 1 /\ 0..n \subseteq 0..n + 1
    BY <1>1 DEF Sums
  <2>1. c \in [1..n -> Nat] /\ r \in [0..n -> Nat]
    <3>1. \A k \in 1..n : d[k] \in Nat
      BY <2>0
    <3>2. \A k \in 0..n : s[k] \in Nat
      BY <2>0
    <3> QED
      BY <3>1, <3>2
  <2>2. r[0] = 0 /\ r[n] = s[n]
    BY <1>1 DEF Sums
  <2>3. ASSUME NEW j \in 1..n PROVE r[j] = r[j - 1] + c[j]
    <3>1. j \in 1..n + 1 /\ j \in 0..n /\ j - 1 \in 0..n
      OBVIOUS
    <3>2. s[j] = s[j - 1] + d[j]
      BY <1>1, <3>1 DEF Sums
    <3> QED
      BY <3>1, <3>2
  <2> HIDE DEF r, c
  <2> QED
    BY <2>1, <2>2, <2>3 DEF Sums
<1>4. r[n] <= t[n]
  <2>1. \A i \in 1..n : c[i] <= e[i]
    OBVIOUS
  <2> HIDE DEF r, c
  <2> QED
    BY <1>2, <1>3, <2>1, SumsMonotone
<1>5. s[n + 1] = s[n] + d[n + 1] /\ s[n] \in Nat /\ t[n] \in Nat /\ d[n + 1] \in Nat
  BY <1>1, <1>2 DEF Sums
<1> QED
  BY <1>1, <1>2, <1>3, <1>4, <1>5

(* The largest of a nonempty sequence of lots bounds them all. *)
LEMMA MaxBounds ==
  ASSUME NEW n \in Nat, NEW f \in [1..n -> Nat], NEW k \in 1..n
  PROVE  f[k] <= Max({f[i] : i \in 1..n}) /\ Max({f[i] : i \in 1..n}) \in Nat
<1> DEFINE Bounds(m) == { b \in Nat : \A i \in 1..m : f[i] <= b }
           Bad == { m \in 0..n : Bounds(m) = {} }
           S == {f[i] : i \in 1..n}
<1>1. Bounds(n) # {}
  <2>0. SUFFICES ASSUME Bounds(n) = {} PROVE FALSE
    OBVIOUS
  <2>1. n \in Bad /\ Bad \subseteq Nat
    BY <2>0
  <2>2. PICK m \in Bad : \A j \in Bad : m <= j
    <3> HIDE DEF Bad
    <3> QED
      BY <2>1, LeastNumber
  <2>3. m # 0
    <3>1. 0 \in Bounds(0)
      OBVIOUS
    <3> QED
      BY <3>1
  <2>4. PICK b \in Nat : \A i \in 1..(m - 1) : f[i] <= b
    <3>1. m - 1 \in 0..n /\ ~ (m <= m - 1)
      BY <2>3
    <3>2. m - 1 \notin Bad
      BY <2>2, <3>1
    <3>3. Bounds(m - 1) # {}
      BY <3>1, <3>2
    <3> QED
      BY <3>3
  <2>5. f[m] \in Nat /\ b + f[m] \in Nat
    BY <2>3
  <2>6. \A i \in 1..m : f[i] <= b + f[m]
    <3>1. ASSUME NEW i \in 1..m PROVE f[i] <= b + f[m]
      <4>1. i = m \/ i \in 1..(m - 1)
        OBVIOUS
      <4>2. f[i] \in Nat
        OBVIOUS
      <4> QED
        BY <4>1, <4>2, <2>4, <2>5
    <3> QED
      BY <3>1
  <2>7. b + f[m] \in Bounds(m)
    BY <2>5, <2>6
  <2>8. Bounds(m) = {}
    OBVIOUS
  <2> HIDE DEF Bounds, Bad
  <2> QED
    BY <2>7, <2>8
<1>2. PICK b \in Bounds(n) : \A c \in Bounds(n) : b <= c
  <2>1. Bounds(n) \subseteq Nat
    OBVIOUS
  <2> HIDE DEF Bounds
  <2> QED
    BY <1>1, <2>1, LeastNumber
<1>3. b \in S
  <2>0. SUFFICES ASSUME b \notin S PROVE FALSE
    OBVIOUS
  <2>1. \A i \in 1..n : f[i] \in Nat /\ f[i] <= b - 1
    BY <2>0
  <2>2. b - 1 \in Nat
    BY <2>1
  <2>3. b - 1 \in Bounds(n)
    BY <2>1, <2>2
  <2> QED
    BY <2>2, <2>3, <1>2
<1>4. \A y \in S : b >= y /\ y \in Nat
  OBVIOUS
<1>5. f[k] \in S
  OBVIOUS
<1> HIDE DEF S
<1>6. Max(S) \in S /\ \A y \in S : Max(S) >= y
  BY <1>3, <1>4 DEF Max
<1> QED
  BY <1>4, <1>5, <1>6 DEF S

-----------------------------------------------------------------------------
(* The book: mirrors, rows and children, one of each per child.            *)

USE DEF InFlight, Open, Over, Unposted, RowState

ChildStates == {"none", "transit", "open", "closed", "refused", "lost"}
MirrorStates == {"pending", "live", "cancelling", "terminal", "blocked"}

(* What typing says of the book. *)
LEMMA BookFacts ==
  ASSUME TypeOK
  PROVE  /\ Len(mirror) \in Nat /\ Children = 1..Len(mirror)
         /\ mirror \in [Children -> Mirrors]
         /\ place \in [Children -> RowState] /\ cancel \in [Children -> RowState]
         /\ child \in [Children -> Orders]
<1>1. /\ mirror \in Seq(Mirrors) /\ place \in Seq(RowState) /\ cancel \in Seq(RowState)
      /\ child \in Seq(Orders)
      /\ Len(place) = Len(mirror) /\ Len(cancel) = Len(mirror) /\ Len(child) = Len(mirror)
  BY DEF TypeOK
<1> HIDE DEF RowState
<1> QED
  BY <1>1 DEF Children

(* The fields of a mirror, and the updates that keep it one. *)
LEMMA MirrorFields ==
  ASSUME NEW m \in Mirrors
  PROVE  /\ m.state \in MirrorStates /\ m.terms \in Terms /\ m.qty \in Nat \ {0} /\ m.filled \in Nat
         /\ m.native \in BOOLEAN /\ m.revision \in Nat /\ m.done \in BOOLEAN
         /\ m.attempts \in 0..MaxAttempts /\ m.exhausted \in BOOLEAN
BY DEF Mirrors, MirrorStates

LEMMA MirrorUpdates ==
  ASSUME NEW m \in Mirrors
  PROVE  /\ \A x \in MirrorStates : [m EXCEPT !.state = x] \in Mirrors
         /\ \A x \in Nat : [m EXCEPT !.filled = x] \in Mirrors
         /\ [m EXCEPT !.native = TRUE] \in Mirrors
         /\ [m EXCEPT !.attempts = 0] \in Mirrors
<1>1. MaxAttempts \in Nat
  BY MirrorAssumption
<1>2. \A x \in MirrorStates : [m EXCEPT !.state = x] \in Mirrors
  BY DEF Mirrors, MirrorStates
<1>3. \A x \in Nat : [m EXCEPT !.filled = x] \in Mirrors
  BY DEF Mirrors
<1>4. [m EXCEPT !.native = TRUE] \in Mirrors
  BY DEF Mirrors
<1>5. [m EXCEPT !.attempts = 0] \in Mirrors
  BY <1>1 DEF Mirrors
<1> QED
  BY <1>2, <1>3, <1>4, <1>5

(* Rounding adds less than the exchange's minimum, and leaves an order. *)
LEMMA RoundedBound ==
  ASSUME NEW t \in Terms, NEW q \in Nat \ {0}
  PROVE  Rounded(t, q) \in Nat \ {0} /\ Rounded(t, q) <= q + Minimum[t] - 1
<1>1. Step \in Nat \ {0} /\ Minimum[t] \in Nat \ {0}
  BY MirrorAssumption
<1> DEFINE r == q % Step
<1>2. r \in Nat
  BY <1>1
<1>3. Rounded(t, q) = IF q - r >= Minimum[t] THEN q - r ELSE Minimum[t]
  BY DEF Rounded
<1> HIDE DEF r
<1> QED
  BY <1>1, <1>2, <1>3

(* What bounds an order of some terms. *)
LEMMA UpliftedTyped ==
  ASSUME NEW t \in Terms
  PROVE  Uplifted(t) \in Nat /\ Uplifted(t) = Quantity[t] + Minimum[t] - 1
BY MirrorAssumption DEF Uplifted

(* Exposures are lots. *)
LEMMA ExposureTyped ==
  ASSUME TypeOK
  PROVE  [i \in Children |-> Exposure(i)] \in [Children -> Nat]
<1>1. mirror \in [Children -> Mirrors] /\ child \in [Children -> Orders]
  BY BookFacts
<1>2. ASSUME NEW i \in Children PROVE Exposure(i) \in Nat
  <2>1. Rounded(mirror[i].terms, mirror[i].qty) \in Nat
    BY <1>1, MirrorFields, RoundedBound
  <2> QED
    BY <1>1, <2>1 DEF Exposure, Orders
<1> QED
  BY <1>2

(* If no child was added and none may hold more, the bound stands. *)
LEMMA CoveredStep ==
  ASSUME TypeOK, TypeOK', Covered, Children' = Children,
         \A i \in Children : Exposure(i)' <= Exposure(i) /\ mirror'[i].terms = mirror[i].terms
  PROVE  Covered'
<1> DEFINE d == [i \in Children |-> Exposure(i)']
           e == [i \in Children |-> Exposure(i)]
<1>1. Len(mirror) \in Nat /\ Children = 1..Len(mirror)
  BY BookFacts
<1>2. e \in [Children -> Nat]
  BY ExposureTyped
<1>3. d \in [Children -> Nat]
  <2>1. mirror' \in [Children' -> Mirrors] /\ child' \in [Children' -> Orders]
    <3>1. mirror' \in Seq(Mirrors) /\ child' \in Seq(Orders) /\ Len(child') = Len(mirror')
      BY DEF TypeOK
    <3> QED
      BY <3>1 DEF Children
  <2>2. ASSUME NEW i \in Children PROVE Exposure(i)' \in Nat
    <3>1. mirror'[i] \in Mirrors /\ child'[i] \in Orders
      BY <2>1
    <3>2. Rounded(mirror'[i].terms, mirror'[i].qty) \in Nat
      BY <3>1, MirrorFields, RoundedBound
    <3> QED
      BY <3>1, <3>2 DEF Exposure, Orders
  <2> QED
    BY <2>2
<1>4. \A i \in Children : d[i] <= e[i]
  OBVIOUS
<1> HIDE DEF d, e
<1>5. Total(d) \in Nat /\ Total(e) \in Nat /\ Total(d) <= Total(e)
  BY <1>1, <1>2, <1>3, <1>4, TotalMonotone
<1>6. ASSUME mirror' # << >>
      PROVE  \E k \in Children' : Total(d) <= Uplifted(mirror'[k].terms)
  <2>1. mirror # << >>
    BY <1>6, <1>1 DEF TypeOK, Children
  <2>2. PICK k \in Children : Total(e) <= Uplifted(mirror[k].terms)
    BY <2>1 DEF Covered, e
  <2>3. Uplifted(mirror[k].terms) \in Nat
    BY BookFacts, MirrorFields, UpliftedTyped
  <2>4. Total(d) <= Uplifted(mirror'[k].terms)
    BY <2>2, <2>3, <1>5
  <2> QED
    BY <2>4
<1> QED
  BY <1>6 DEF Covered, d

-----------------------------------------------------------------------------
(* A step of the executor, or of the exchange, on one child.               *)

(* What such a step has to show, once for all of them. *)
LEMMA OneChild ==
  ASSUME MirrorInv, NEW i \in Children,
         UNCHANGED << controlVars, source, view, moves >>,
         mirror' \in [Children -> Mirrors], place' \in [Children -> RowState],
         cancel' \in [Children -> RowState], child' \in [Children -> Orders],
         \A j \in Children \ {i} : /\ mirror'[j] = mirror[j] /\ place'[j] = place[j]
                                   /\ cancel'[j] = cancel[j] /\ child'[j] = child[j],
         mirror'[i].terms = mirror[i].terms, mirror'[i].revision = mirror[i].revision,
         mirror[i].state \in Over => mirror'[i].state \in Over,
         PlacementSound(i)', FillsSound(i)', Exposure(i)' <= Exposure(i),
         bot = "stopped" => /\ child'[i].status \notin {"transit", "open"}
                            /\ {place'[i], cancel'[i]} \cap Open = {}
  PROVE  MirrorInv'
<1> HIDE DEF Open, Over, RowState, InFlight, Unposted
<1>1. TypeOK /\ Len(mirror) \in Nat /\ Children = 1..Len(mirror)
  BY BookFacts DEF MirrorInv
<1>2. /\ mirror' \in Seq(Mirrors) /\ place' \in Seq(RowState) /\ cancel' \in Seq(RowState)
      /\ child' \in Seq(Orders) /\ {Len(place'), Len(cancel'), Len(child')} = {Len(mirror')}
      /\ Len(mirror') = Len(mirror) /\ Children' = Children
  <2> DEFINE n == Len(mirror)
  <2>1. /\ n \in Nat /\ mirror' \in [1..n -> Mirrors] /\ place' \in [1..n -> RowState]
        /\ cancel' \in [1..n -> RowState] /\ child' \in [1..n -> Orders]
    BY <1>1
  <2>3. n = Len(mirror) /\ Children = 1..n
    BY <1>1
  <2> HIDE DEF n
  <2>2. /\ mirror' \in Seq(Mirrors) /\ place' \in Seq(RowState) /\ cancel' \in Seq(RowState)
        /\ child' \in Seq(Orders) /\ {Len(place'), Len(cancel'), Len(child')} = {Len(mirror')}
        /\ Len(mirror') = n /\ DOMAIN mirror' = 1..n
    <3>1. mirror' \in Seq(Mirrors) /\ Len(mirror') = n /\ DOMAIN mirror' = 1..n
      BY <2>1
    <3>2. place' \in Seq(RowState) /\ Len(place') = n
      BY <2>1
    <3>3. cancel' \in Seq(RowState) /\ Len(cancel') = n
      BY <2>1
    <3>4. child' \in Seq(Orders) /\ Len(child') = n
      BY <2>1
    <3> QED
      BY <3>1, <3>2, <3>3, <3>4
  <2>4. Children' = Children
    BY <2>2, <2>3 DEF Children
  <2>5. Len(mirror') = Len(mirror)
    BY <2>2, <2>3
  <2> QED
    BY <2>2, <2>4, <2>5
<1>3. TypeOK'
  <2>1. /\ bot' = bot /\ granted' = granted /\ relation' = relation /\ revision' = revision
        /\ source' = source /\ view' = view /\ moves' = moves
    BY DEF controlVars
  <2> QED
    BY <1>1, <1>2, <2>1 DEF TypeOK
<1>4. ASSUME NEW j \in Children' PROVE (PlacementSound(j) /\ FillsSound(j))'
  <2>1. CASE j = i
    BY <2>1
  <2>2. CASE j # i
    <3>1. /\ mirror'[j] = mirror[j] /\ place'[j] = place[j]
          /\ cancel'[j] = cancel[j] /\ child'[j] = child[j]
      BY <1>2, <2>2
    <3>2. PlacementSound(j) /\ FillsSound(j)
      BY <1>2 DEF MirrorInv
    <3> QED
      BY <3>1, <3>2 DEF PlacementSound, FillsSound
  <2> QED
    BY <2>1, <2>2
<1>5. \A j \in Children : /\ mirror'[j].terms = mirror[j].terms
                          /\ mirror'[j].revision = mirror[j].revision
                          /\ mirror[j].state \in Over => mirror'[j].state \in Over
  OBVIOUS
<1>6. RevisionsSound' /\ ViewSound' /\ OneAtATime'
  <2>1. RevisionsSound /\ ViewSound /\ OneAtATime
    BY DEF MirrorInv
  <2>2. RevisionsSound'
    BY <2>1, <1>2, <1>5 DEF RevisionsSound, controlVars
  <2>3. ViewSound'
    BY <2>1 DEF ViewSound
  <2>4. OneAtATime'
    BY <2>1, <1>2, <1>5 DEF OneAtATime
  <2> QED
    BY <2>2, <2>3, <2>4
<1>7. Covered'
  <2>1. ASSUME NEW j \in Children PROVE Exposure(j)' <= Exposure(j)
    <3>1. CASE j = i
      BY <3>1
    <3>2. CASE j # i
      <4>1. Exposure(j)' = Exposure(j)
        BY <3>2 DEF Exposure
      <4>2. Exposure(j) \in Nat
        BY <1>1, ExposureTyped
      <4> QED
        BY <4>1, <4>2
    <3> QED
      BY <3>1, <3>2
  <2>2. Covered
    BY DEF MirrorInv
  <2> QED
    BY <1>1, <1>2, <1>3, <1>5, <2>1, <2>2, CoveredStep
<1>8. StoppedLeavesNothing'
  <2>1. StoppedLeavesNothing
    BY DEF MirrorInv
  <2>2. ASSUME bot = "stopped", NEW j \in Children
        PROVE  child'[j].status \notin {"transit", "open"} /\ {place'[j], cancel'[j]} \cap Open = {}
    BY <2>1, <2>2 DEF StoppedLeavesNothing
  <2> QED
    BY <1>2, <2>2 DEF StoppedLeavesNothing, controlVars
<1> QED
  BY <1>3, <1>4, <1>6, <1>7, <1>8 DEF MirrorInv

(* The child's part of the invariant, with the types of its fields. *)
LEMMA ChildFacts ==
  ASSUME MirrorInv, NEW i \in Children
  PROVE  /\ PlacementSound(i) /\ FillsSound(i) /\ mirror[i] \in Mirrors /\ child[i] \in Orders
         /\ place[i] \in RowState /\ cancel[i] \in RowState
         /\ mirror[i].state \in MirrorStates /\ mirror[i].qty \in Nat \ {0} /\ mirror[i].filled \in Nat
         /\ mirror[i].native \in BOOLEAN /\ mirror[i].attempts \in 0..MaxAttempts
         /\ child[i].status \in ChildStates /\ child[i].filled \in Nat /\ child[i].asked \in BOOLEAN
         /\ child[i].size \in Nat /\ Rounded(mirror[i].terms, mirror[i].qty) \in Nat \ {0}
<1> HIDE DEF RowState
<1>1. PlacementSound(i) /\ FillsSound(i) /\ mirror[i] \in Mirrors /\ child[i] \in Orders
      /\ place[i] \in RowState /\ cancel[i] \in RowState
  BY BookFacts DEF MirrorInv
<1>2. /\ child[i].status \in ChildStates /\ child[i].filled \in Nat /\ child[i].asked \in BOOLEAN
      /\ child[i].size \in Nat
  BY <1>1 DEF Orders, ChildStates
<1>3. Rounded(mirror[i].terms, mirror[i].qty) \in Nat \ {0}
  BY <1>1, MirrorFields, RoundedBound
<1> QED
  BY <1>1, <1>2, <1>3, MirrorFields

(* A claim sends a placement, or sweeps it away. *)
LEMMA ClaimPlaceStep ==
  ASSUME MirrorInv, NEW i \in Children, ClaimPlace(i)
  PROVE  MirrorInv'
<1>1. /\ mirror \in [Children -> Mirrors] /\ place \in [Children -> RowState]
      /\ cancel \in [Children -> RowState] /\ child \in [Children -> Orders]
  BY BookFacts DEF MirrorInv
<1>2. /\ PlacementSound(i) /\ FillsSound(i) /\ mirror[i] \in Mirrors /\ child[i] \in Orders
      /\ mirror[i].state \in MirrorStates /\ mirror[i].qty \in Nat \ {0} /\ mirror[i].filled \in Nat
      /\ mirror[i].native \in BOOLEAN /\ child[i].status \in ChildStates /\ child[i].filled \in Nat
      /\ child[i].size \in Nat /\ Rounded(mirror[i].terms, mirror[i].qty) \in Nat \ {0}
  BY ChildFacts
<1>3. /\ place[i] = "pending" /\ place'[i] \in {"sending", "cancelled"}
  BY <1>1, <1>2 DEF ClaimPlace, Rows, PlaceTo, CancelTo, Executor
<1>4. /\ place' = [place EXCEPT ![i] = place'[i]] /\ cancel' = cancel
      /\ mirror' = mirror /\ child' = child
      /\ UNCHANGED << controlVars, source, view, moves >>
  BY <1>1, <1>2, <1>3 DEF ClaimPlace, Rows, PlaceTo, CancelTo, Executor
<1>5. PlacementSound(i)' /\ FillsSound(i)' /\ Exposure(i)' <= Exposure(i)
  BY <1>2, <1>3, <1>4 DEF PlacementSound, FillsSound, Exposure, MirrorStates, ChildStates
<1>6. bot # "stopped"
  BY <1>2, <1>3, <1>4 DEF MirrorInv, StoppedLeavesNothing
<1> QED
  BY <1>1, <1>3, <1>4, <1>5, <1>6, OneChild

(* A claim sends a cancellation. *)
LEMMA ClaimCancelStep ==
  ASSUME MirrorInv, NEW i \in Children, ClaimCancel(i)
  PROVE  MirrorInv'
<1>1. /\ mirror \in [Children -> Mirrors] /\ place \in [Children -> RowState]
      /\ cancel \in [Children -> RowState] /\ child \in [Children -> Orders]
  BY BookFacts DEF MirrorInv
<1>2. /\ PlacementSound(i) /\ FillsSound(i) /\ mirror[i] \in Mirrors /\ child[i] \in Orders
      /\ mirror[i].state \in MirrorStates /\ mirror[i].qty \in Nat \ {0} /\ mirror[i].filled \in Nat
      /\ mirror[i].native \in BOOLEAN /\ child[i].status \in ChildStates /\ child[i].filled \in Nat
      /\ child[i].size \in Nat /\ Rounded(mirror[i].terms, mirror[i].qty) \in Nat \ {0}
  BY ChildFacts
<1>3. /\ cancel[i] = "pending" /\ cancel'[i] = "sending"
  BY <1>1, <1>2 DEF ClaimCancel, Rows, PlaceTo, CancelTo, Executor
<1>4. /\ place' = place /\ cancel' = [cancel EXCEPT ![i] = cancel'[i]]
      /\ mirror' = mirror /\ child' = child
      /\ UNCHANGED << controlVars, source, view, moves >>
  BY <1>1, <1>2, <1>3 DEF ClaimCancel, Rows, PlaceTo, CancelTo, Executor
<1>5. PlacementSound(i)' /\ FillsSound(i)' /\ Exposure(i)' <= Exposure(i)
  BY <1>2, <1>3, <1>4 DEF PlacementSound, FillsSound, Exposure, MirrorStates, ChildStates
<1>6. bot # "stopped"
  BY <1>2, <1>3, <1>4 DEF MirrorInv, StoppedLeavesNothing
<1> QED
  BY <1>1, <1>3, <1>4, <1>5, <1>6, OneChild

(* A cancellation is admitted for the order it names. *)
LEMMA AdmitCancelStep ==
  ASSUME MirrorInv, NEW i \in Children, AdmitCancel(i)
  PROVE  MirrorInv'
<1>1. /\ mirror \in [Children -> Mirrors] /\ place \in [Children -> RowState]
      /\ cancel \in [Children -> RowState] /\ child \in [Children -> Orders]
  BY BookFacts DEF MirrorInv
<1>2. /\ PlacementSound(i) /\ FillsSound(i) /\ mirror[i] \in Mirrors /\ child[i] \in Orders
      /\ mirror[i].state \in MirrorStates /\ mirror[i].qty \in Nat \ {0} /\ mirror[i].filled \in Nat
      /\ mirror[i].native \in BOOLEAN /\ child[i].status \in ChildStates /\ child[i].filled \in Nat
      /\ child[i].size \in Nat /\ Rounded(mirror[i].terms, mirror[i].qty) \in Nat \ {0}
  BY ChildFacts
<1>3. /\ cancel[i] = "sending" /\ cancel'[i] \in {"admitted", "rejected"}
  BY <1>1, <1>2 DEF AdmitCancel, Rows, PlaceTo, CancelTo, Executor
<1>4. /\ place' = place /\ cancel' = [cancel EXCEPT ![i] = cancel'[i]]
      /\ mirror' = mirror /\ child' = child
      /\ UNCHANGED << controlVars, source, view, moves >>
  BY <1>1, <1>2, <1>3 DEF AdmitCancel, Rows, PlaceTo, CancelTo, Executor
<1>5. PlacementSound(i)' /\ FillsSound(i)' /\ Exposure(i)' <= Exposure(i)
  BY <1>2, <1>3, <1>4 DEF PlacementSound, FillsSound, Exposure, MirrorStates, ChildStates
<1>6. bot # "stopped"
  BY <1>2, <1>3, <1>4 DEF MirrorInv, StoppedLeavesNothing
<1> QED
  BY <1>1, <1>3, <1>4, <1>5, <1>6, OneChild

(* A placement leaves the process. *)
LEMMA PostPlaceStep ==
  ASSUME MirrorInv, NEW i \in Children, PostPlace(i)
  PROVE  MirrorInv'
<1>1. /\ mirror \in [Children -> Mirrors] /\ place \in [Children -> RowState]
      /\ cancel \in [Children -> RowState] /\ child \in [Children -> Orders]
  BY BookFacts DEF MirrorInv
<1>2. /\ PlacementSound(i) /\ FillsSound(i) /\ mirror[i] \in Mirrors /\ child[i] \in Orders
      /\ mirror[i].state \in MirrorStates /\ mirror[i].qty \in Nat \ {0} /\ mirror[i].filled \in Nat
      /\ mirror[i].native \in BOOLEAN /\ child[i].status \in ChildStates /\ child[i].filled \in Nat
      /\ child[i].size \in Nat /\ Rounded(mirror[i].terms, mirror[i].qty) \in Nat \ {0}
  BY ChildFacts
<1>3. /\ place[i] = "admitted" /\ place'[i] = "posted" /\ child'[i].status = "transit"
      /\ child'[i].filled = child[i].filled
      /\ child'[i].size = Rounded(mirror[i].terms, mirror[i].qty)
  BY <1>1, <1>2 DEF PostPlace, Rows, PlaceTo, CancelTo, Executor
<1>4. /\ place' = [place EXCEPT ![i] = place'[i]] /\ cancel' = cancel
      /\ mirror' = mirror /\ child' = [child EXCEPT ![i] = child'[i]]
      /\ child'[i] \in Orders /\ UNCHANGED << controlVars, source, view, moves >>
  BY <1>1, <1>2, <1>3 DEF PostPlace, Rows, PlaceTo, CancelTo, Executor, Orders
<1>5. PlacementSound(i)' /\ FillsSound(i)' /\ Exposure(i)' <= Exposure(i)
  BY <1>2, <1>3, <1>4 DEF PlacementSound, FillsSound, Exposure, MirrorStates, ChildStates
<1>6. bot # "stopped"
  BY <1>2, <1>3, <1>4 DEF MirrorInv, StoppedLeavesNothing
<1> QED
  BY <1>1, <1>3, <1>4, <1>5, <1>6, OneChild

(* A cancellation leaves the process. *)
LEMMA PostCancelStep ==
  ASSUME MirrorInv, NEW i \in Children, PostCancel(i)
  PROVE  MirrorInv'
<1>1. /\ mirror \in [Children -> Mirrors] /\ place \in [Children -> RowState]
      /\ cancel \in [Children -> RowState] /\ child \in [Children -> Orders]
  BY BookFacts DEF MirrorInv
<1>2. /\ PlacementSound(i) /\ FillsSound(i) /\ mirror[i] \in Mirrors /\ child[i] \in Orders
      /\ mirror[i].state \in MirrorStates /\ mirror[i].qty \in Nat \ {0} /\ mirror[i].filled \in Nat
      /\ mirror[i].native \in BOOLEAN /\ child[i].status \in ChildStates /\ child[i].filled \in Nat
      /\ child[i].size \in Nat /\ Rounded(mirror[i].terms, mirror[i].qty) \in Nat \ {0}
  BY ChildFacts
<1>3. /\ cancel[i] = "admitted" /\ cancel'[i] = "posted"
      /\ child'[i].status = child[i].status /\ child'[i].filled = child[i].filled
      /\ child'[i].size = child[i].size
  BY <1>1, <1>2 DEF PostCancel, Rows, PlaceTo, CancelTo, Executor
<1>4. /\ place' = place /\ cancel' = [cancel EXCEPT ![i] = cancel'[i]]
      /\ mirror' = mirror /\ child' = [child EXCEPT ![i] = child'[i]]
      /\ child'[i] \in Orders /\ UNCHANGED << controlVars, source, view, moves >>
  BY <1>1, <1>2, <1>3 DEF PostCancel, Rows, PlaceTo, CancelTo, Executor, Orders
<1>5. PlacementSound(i)' /\ FillsSound(i)' /\ Exposure(i)' <= Exposure(i)
  BY <1>2, <1>3, <1>4 DEF PlacementSound, FillsSound, Exposure, MirrorStates, ChildStates
<1>6. bot # "stopped"
  BY <1>2, <1>3, <1>4 DEF MirrorInv, StoppedLeavesNothing
<1> QED
  BY <1>1, <1>3, <1>4, <1>5, <1>6, OneChild

(* The exchange's refusal blocks the mirror. *)
LEMMA PlaceRefusedStep ==
  ASSUME MirrorInv, NEW i \in Children, PlaceRefused(i)
  PROVE  MirrorInv'
<1>1. /\ mirror \in [Children -> Mirrors] /\ place \in [Children -> RowState]
      /\ cancel \in [Children -> RowState] /\ child \in [Children -> Orders]
  BY BookFacts DEF MirrorInv
<1>2. /\ PlacementSound(i) /\ FillsSound(i) /\ mirror[i] \in Mirrors /\ child[i] \in Orders
      /\ mirror[i].state \in MirrorStates /\ mirror[i].qty \in Nat \ {0} /\ mirror[i].filled \in Nat
      /\ mirror[i].native \in BOOLEAN /\ child[i].status \in ChildStates /\ child[i].filled \in Nat
      /\ child[i].size \in Nat /\ Rounded(mirror[i].terms, mirror[i].qty) \in Nat \ {0}
  BY ChildFacts
<1>3. /\ place[i] = "posted" /\ child[i].status = "refused" /\ place'[i] = "rejected"
      /\ mirror'[i].state \in Over
      /\ mirror[i].state = "terminal" <=> mirror'[i].state = "terminal"
      /\ mirror'[i].terms = mirror[i].terms /\ mirror'[i].revision = mirror[i].revision
      /\ mirror'[i].qty = mirror[i].qty /\ mirror'[i].native = mirror[i].native
      /\ mirror'[i].filled = mirror[i].filled
      /\ mirror'[i].attempts = mirror[i].attempts
  BY <1>1, <1>2 DEF PlaceRefused, Rows, PlaceTo, CancelTo, Blocked, Executor
<1>4. /\ place' = [place EXCEPT ![i] = place'[i]] /\ cancel' = cancel
      /\ mirror' = [mirror EXCEPT ![i] = mirror'[i]] /\ mirror'[i] \in Mirrors
      /\ child' = child /\ UNCHANGED << controlVars, source, view, moves >>
  BY <1>1, <1>2, <1>3, MirrorUpdates DEF PlaceRefused, Rows, PlaceTo, CancelTo, Blocked, Executor, MirrorStates
<1>5. PlacementSound(i)' /\ FillsSound(i)' /\ Exposure(i)' <= Exposure(i)
  BY <1>2, <1>3, <1>4 DEF PlacementSound, FillsSound, Exposure, MirrorStates, ChildStates
<1>6. bot # "stopped"
  BY <1>2, <1>3, <1>4 DEF MirrorInv, StoppedLeavesNothing
<1> QED
  BY <1>1, <1>3, <1>4, <1>5, <1>6, OneChild

(* A fact tells the mirror of its order. *)
LEMMA RecordFactStep ==
  ASSUME MirrorInv, NEW i \in Children, RecordFact(i)
  PROVE  MirrorInv'
<1>1. /\ mirror \in [Children -> Mirrors] /\ place \in [Children -> RowState]
      /\ cancel \in [Children -> RowState] /\ child \in [Children -> Orders]
  BY BookFacts DEF MirrorInv
<1>2. /\ PlacementSound(i) /\ FillsSound(i) /\ mirror[i] \in Mirrors /\ child[i] \in Orders
      /\ mirror[i].state \in MirrorStates /\ mirror[i].qty \in Nat \ {0} /\ mirror[i].filled \in Nat
      /\ mirror[i].native \in BOOLEAN /\ child[i].status \in ChildStates /\ child[i].filled \in Nat
      /\ child[i].size \in Nat /\ Rounded(mirror[i].terms, mirror[i].qty) \in Nat \ {0}
  BY ChildFacts
<1>3. /\ cancel[i] # "none" \/ place[i] \in {"posted", "unknown"}
      /\ child[i].status \in {"open", "closed"}
      /\ \/ {place[i], cancel[i]} \cap Open # {} /\ mirror'[i].native = TRUE
      /\ mirror'[i].filled = child[i].filled
      /\ mirror'[i].state = IF child[i].status = "closed" THEN "terminal" ELSE mirror[i].state
      /\ mirror'[i].terms = mirror[i].terms /\ mirror'[i].revision = mirror[i].revision
      /\ mirror'[i].qty = child[i].size /\ mirror'[i].attempts = mirror[i].attempts
      /\ child[i].size \in Nat \ {0}
  BY <1>1, <1>2 DEF RecordFact, Executor, FillsSound
<1>4. /\ place' = place /\ cancel' = cancel
      /\ mirror' = [mirror EXCEPT ![i] = mirror'[i]] /\ mirror'[i] \in Mirrors
      /\ child' = child /\ UNCHANGED << controlVars, source, view, moves >>
  BY <1>1, <1>2, <1>3, MirrorUpdates DEF RecordFact, Executor, MirrorStates
<1>5. PlacementSound(i)' /\ FillsSound(i)' /\ Exposure(i)' <= Exposure(i)
  BY <1>2, <1>3, <1>4 DEF PlacementSound, FillsSound, Exposure, MirrorStates, ChildStates
<1>6. bot # "stopped"
  BY <1>2, <1>3, <1>4 DEF MirrorInv, StoppedLeavesNothing
<1> QED
  BY <1>1, <1>3, <1>4, <1>5, <1>6, OneChild

(* A placement is reconciled by the fact of its order. *)
LEMMA SettlePlaceStep ==
  ASSUME MirrorInv, NEW i \in Children, SettlePlace(i)
  PROVE  MirrorInv'
<1>1. /\ mirror \in [Children -> Mirrors] /\ place \in [Children -> RowState]
      /\ cancel \in [Children -> RowState] /\ child \in [Children -> Orders]
  BY BookFacts DEF MirrorInv
<1>2. /\ PlacementSound(i) /\ FillsSound(i) /\ mirror[i] \in Mirrors /\ child[i] \in Orders
      /\ mirror[i].state \in MirrorStates /\ mirror[i].qty \in Nat \ {0} /\ mirror[i].filled \in Nat
      /\ mirror[i].native \in BOOLEAN /\ child[i].status \in ChildStates /\ child[i].filled \in Nat
      /\ child[i].size \in Nat /\ Rounded(mirror[i].terms, mirror[i].qty) \in Nat \ {0}
  BY ChildFacts
<1>0. /\ place[i] \in {"posted", "unknown"} /\ mirror[i].native
      /\ place' = [place EXCEPT ![i] = "reconciled"] /\ cancel' = cancel
      /\ \E x \in {"live", "terminal"} :
            /\ (x = "terminal") <=> (mirror[i].state = "terminal")
            /\ mirror' = [mirror EXCEPT ![i] = [mirror[i] EXCEPT !.state = x]]
      /\ child' = child /\ UNCHANGED << controlVars, source, view, moves >>
  BY <1>1, <1>2 DEF SettlePlace, PlaceTo, Rows, Executor
<1>3. PICK x \in {"live", "terminal"} :
            /\ (x = "terminal") <=> (mirror[i].state = "terminal")
            /\ mirror' = [mirror EXCEPT ![i] = [mirror[i] EXCEPT !.state = x]]
  BY <1>0
<1>4. mirror'[i] = [mirror[i] EXCEPT !.state = x]
  BY <1>1, <1>3
<1>5. mirror'[i] \in Mirrors
  <2>1. x \in MirrorStates
    BY DEF MirrorStates
  <2>2. [mirror[i] EXCEPT !.state = x] \in Mirrors
    BY <1>2, <2>1, MirrorUpdates
  <2> QED
    BY <1>4, <2>2
<1>6. /\ mirror'[i].state = x /\ mirror'[i].terms = mirror[i].terms
      /\ mirror'[i].revision = mirror[i].revision /\ mirror'[i].qty = mirror[i].qty
      /\ mirror'[i].native = mirror[i].native /\ mirror'[i].filled = mirror[i].filled
      /\ mirror'[i].attempts = mirror[i].attempts
  BY <1>2, <1>4 DEF Mirrors
<1>7. /\ place'[i] = "reconciled" /\ child'[i] = child[i] /\ cancel'[i] = cancel[i]
      /\ place' \in [Children -> RowState] /\ mirror' \in [Children -> Mirrors]
  BY <1>0, <1>1, <1>3, <1>4, <1>5
<1>8. PlacementSound(i)' /\ FillsSound(i)' /\ Exposure(i)' <= Exposure(i)
  <2>1. PlacementSound(i)'
    BY <1>0, <1>2, <1>3, <1>6, <1>7 DEF PlacementSound
  <2>2. FillsSound(i)'
    BY <1>0, <1>2, <1>3, <1>6, <1>7 DEF FillsSound, PlacementSound
  <2>3. Exposure(i)' <= Exposure(i)
    BY <1>0, <1>2, <1>6, <1>7 DEF Exposure
  <2> QED
    BY <2>1, <2>2, <2>3
<1>9. mirror[i].state \in Over => mirror'[i].state \in Over
  BY <1>0, <1>2, <1>3, <1>6 DEF PlacementSound
<1>10. bot # "stopped"
  BY <1>0 DEF MirrorInv, StoppedLeavesNothing
<1> QED
  BY <1>0, <1>1, <1>3, <1>6, <1>7, <1>8, <1>9, <1>10, OneChild

(* A cancellation is reconciled by a final fact. *)
LEMMA SettleCancelStep ==
  ASSUME MirrorInv, NEW i \in Children, SettleCancel(i)
  PROVE  MirrorInv'
<1>1. /\ mirror \in [Children -> Mirrors] /\ place \in [Children -> RowState]
      /\ cancel \in [Children -> RowState] /\ child \in [Children -> Orders]
  BY BookFacts DEF MirrorInv
<1>2. /\ PlacementSound(i) /\ FillsSound(i) /\ mirror[i] \in Mirrors /\ child[i] \in Orders
      /\ mirror[i].state \in MirrorStates /\ mirror[i].qty \in Nat \ {0} /\ mirror[i].filled \in Nat
      /\ mirror[i].native \in BOOLEAN /\ child[i].status \in ChildStates /\ child[i].filled \in Nat
      /\ child[i].size \in Nat /\ Rounded(mirror[i].terms, mirror[i].qty) \in Nat \ {0}
  BY ChildFacts
<1>3. /\ cancel[i] \in {"posted", "unknown"} /\ mirror[i].state = "terminal"
      /\ cancel'[i] = "reconciled"
  BY <1>1, <1>2 DEF SettleCancel, Rows, PlaceTo, CancelTo, Executor
<1>4. /\ place' = place /\ cancel' = [cancel EXCEPT ![i] = cancel'[i]]
      /\ mirror' = mirror /\ child' = child
      /\ UNCHANGED << controlVars, source, view, moves >>
  BY <1>1, <1>2, <1>3 DEF SettleCancel, Rows, PlaceTo, CancelTo, Executor
<1>5. PlacementSound(i)' /\ FillsSound(i)' /\ Exposure(i)' <= Exposure(i)
  BY <1>2, <1>3, <1>4 DEF PlacementSound, FillsSound, Exposure, MirrorStates, ChildStates
<1>6. bot # "stopped"
  BY <1>2, <1>3, <1>4 DEF MirrorInv, StoppedLeavesNothing
<1> QED
  BY <1>1, <1>3, <1>4, <1>5, <1>6, OneChild

(* A drain settles a placement that is proved absent. *)
LEMMA DrainAbsentStep ==
  ASSUME MirrorInv, NEW i \in Children, DrainAbsent(i)
  PROVE  MirrorInv'
<1>1. /\ mirror \in [Children -> Mirrors] /\ place \in [Children -> RowState]
      /\ cancel \in [Children -> RowState] /\ child \in [Children -> Orders]
  BY BookFacts DEF MirrorInv
<1>2. /\ PlacementSound(i) /\ FillsSound(i) /\ mirror[i] \in Mirrors /\ child[i] \in Orders
      /\ mirror[i].state \in MirrorStates /\ mirror[i].qty \in Nat \ {0} /\ mirror[i].filled \in Nat
      /\ mirror[i].native \in BOOLEAN /\ child[i].status \in ChildStates /\ child[i].filled \in Nat
      /\ child[i].size \in Nat /\ Rounded(mirror[i].terms, mirror[i].qty) \in Nat \ {0}
  BY ChildFacts
<1>3. /\ bot = "draining" /\ place[i] = "unknown" /\ mirror[i].state = "pending"
      /\ ~mirror[i].native /\ child[i].filled = 0
      /\ child[i].status \notin {"open", "transit"} /\ place'[i] = "cancelled"
      /\ mirror'[i].state = "terminal" /\ mirror'[i].terms = mirror[i].terms
      /\ mirror'[i].revision = mirror[i].revision /\ mirror'[i].qty = mirror[i].qty
      /\ mirror'[i].native = mirror[i].native /\ mirror'[i].filled = mirror[i].filled
      /\ mirror'[i].attempts = mirror[i].attempts
  BY <1>1, <1>2 DEF DrainAbsent, Rows, PlaceTo, CancelTo, Executor
<1>4. /\ place' = [place EXCEPT ![i] = place'[i]] /\ cancel' = cancel
      /\ mirror' = [mirror EXCEPT ![i] = mirror'[i]] /\ mirror'[i] \in Mirrors
      /\ child' = child /\ UNCHANGED << controlVars, source, view, moves >>
  BY <1>1, <1>2, <1>3, MirrorUpdates DEF DrainAbsent, Rows, PlaceTo, CancelTo, Executor, MirrorStates
<1>5. PlacementSound(i)' /\ FillsSound(i)' /\ Exposure(i)' <= Exposure(i)
  BY <1>2, <1>3, <1>4 DEF PlacementSound, FillsSound, Exposure, MirrorStates, ChildStates
<1>6. bot # "stopped"
  BY <1>2, <1>3, <1>4 DEF MirrorInv, StoppedLeavesNothing
<1> QED
  BY <1>1, <1>3, <1>4, <1>5, <1>6, OneChild

(* A placement rests, or is refused. *)
LEMMA PlaceLandsStep ==
  ASSUME MirrorInv, NEW i \in Children, PlaceLands(i)
  PROVE  MirrorInv'
<1>1. /\ mirror \in [Children -> Mirrors] /\ place \in [Children -> RowState]
      /\ cancel \in [Children -> RowState] /\ child \in [Children -> Orders]
  BY BookFacts DEF MirrorInv
<1>2. /\ PlacementSound(i) /\ FillsSound(i) /\ mirror[i] \in Mirrors /\ child[i] \in Orders
      /\ mirror[i].state \in MirrorStates /\ mirror[i].qty \in Nat \ {0} /\ mirror[i].filled \in Nat
      /\ mirror[i].native \in BOOLEAN /\ child[i].status \in ChildStates /\ child[i].filled \in Nat
      /\ child[i].size \in Nat /\ Rounded(mirror[i].terms, mirror[i].qty) \in Nat \ {0}
  BY ChildFacts
<1>3. /\ child[i].status = "transit" /\ child'[i].status \in {"open", "refused"}
      /\ child'[i].filled = child[i].filled /\ child'[i].size = child[i].size
  BY <1>1, <1>2 DEF PlaceLands, Exchange, mirrorVars
<1>4. /\ place' = place /\ cancel' = cancel /\ mirror' = mirror
      /\ child' = [child EXCEPT ![i] = child'[i]] /\ child'[i] \in Orders
      /\ UNCHANGED << controlVars, source, view, moves >>
  BY <1>1, <1>2, <1>3 DEF PlaceLands, Exchange, mirrorVars, Orders
<1>5. PlacementSound(i)' /\ FillsSound(i)' /\ Exposure(i)' <= Exposure(i)
  BY <1>2, <1>3, <1>4 DEF PlacementSound, FillsSound, Exposure, MirrorStates, ChildStates
<1>6. bot # "stopped"
  BY <1>2, <1>3, <1>4 DEF MirrorInv, StoppedLeavesNothing
<1> QED
  BY <1>1, <1>3, <1>4, <1>5, <1>6, OneChild

(* A cancellation closes the order it finds. *)
LEMMA CancelLandsStep ==
  ASSUME MirrorInv, NEW i \in Children, CancelLands(i)
  PROVE  MirrorInv'
<1>1. /\ mirror \in [Children -> Mirrors] /\ place \in [Children -> RowState]
      /\ cancel \in [Children -> RowState] /\ child \in [Children -> Orders]
  BY BookFacts DEF MirrorInv
<1>2. /\ PlacementSound(i) /\ FillsSound(i) /\ mirror[i] \in Mirrors /\ child[i] \in Orders
      /\ mirror[i].state \in MirrorStates /\ mirror[i].qty \in Nat \ {0} /\ mirror[i].filled \in Nat
      /\ mirror[i].native \in BOOLEAN /\ child[i].status \in ChildStates /\ child[i].filled \in Nat
      /\ child[i].size \in Nat /\ Rounded(mirror[i].terms, mirror[i].qty) \in Nat \ {0}
  BY ChildFacts
<1>3. /\ child'[i].status = IF child[i].status = "open" THEN "closed" ELSE child[i].status
      /\ child'[i].filled = child[i].filled /\ child'[i].size = child[i].size
  BY <1>1, <1>2 DEF CancelLands, Exchange, mirrorVars
<1>4. /\ place' = place /\ cancel' = cancel /\ mirror' = mirror
      /\ child' = [child EXCEPT ![i] = child'[i]] /\ child'[i] \in Orders
      /\ UNCHANGED << controlVars, source, view, moves >>
  BY <1>1, <1>2, <1>3 DEF CancelLands, Exchange, mirrorVars, Orders
<1>5. PlacementSound(i)' /\ FillsSound(i)' /\ Exposure(i)' <= Exposure(i)
  BY <1>2, <1>3, <1>4 DEF PlacementSound, FillsSound, Exposure, MirrorStates, ChildStates
<1>6. bot = "stopped" =>
        /\ child'[i].status \notin {"transit", "open"} /\ {place'[i], cancel'[i]} \cap Open = {}
  BY <1>2, <1>3, <1>4 DEF MirrorInv, StoppedLeavesNothing
<1> QED
  BY <1>1, <1>3, <1>4, <1>5, <1>6, OneChild

(* A child fills, perhaps for good. *)
LEMMA ChildFillsStep ==
  ASSUME MirrorInv, NEW i \in Children, ChildFills(i)
  PROVE  MirrorInv'
<1>1. /\ mirror \in [Children -> Mirrors] /\ place \in [Children -> RowState]
      /\ cancel \in [Children -> RowState] /\ child \in [Children -> Orders]
  BY BookFacts DEF MirrorInv
<1>2. /\ PlacementSound(i) /\ FillsSound(i) /\ mirror[i] \in Mirrors /\ child[i] \in Orders
      /\ mirror[i].state \in MirrorStates /\ mirror[i].qty \in Nat \ {0} /\ mirror[i].filled \in Nat
      /\ mirror[i].native \in BOOLEAN /\ child[i].status \in ChildStates /\ child[i].filled \in Nat
      /\ child[i].size \in Nat /\ Rounded(mirror[i].terms, mirror[i].qty) \in Nat \ {0}
  BY ChildFacts
<1> DEFINE x == child[i].filled + Step
           s == IF x = child[i].size THEN "closed" ELSE "open"
<1>0. /\ child[i].status = "open" /\ place' = place /\ cancel' = cancel /\ mirror' = mirror
      /\ child' = [child EXCEPT ![i] = [child[i] EXCEPT !.filled = x, !.status = s]]
      /\ x <= child[i].size
      /\ UNCHANGED << controlVars, source, view, moves >>
  BY <1>1, <1>2 DEF ChildFills, Exchange, mirrorVars
<1>3. s \in {"closed", "open"} /\ (s = "closed" <=> x = child[i].size)
  OBVIOUS
<1>4. x \in Nat /\ child[i].filled <= x
  BY <1>2, MirrorAssumption
<1> HIDE DEF s, x
<1>5. /\ child'[i].filled = x /\ child'[i].status = s /\ child'[i].size = child[i].size
      /\ child'[i] \in Orders
  BY <1>0, <1>1, <1>2, <1>3, <1>4 DEF Orders
<1>6. child' \in [Children -> Orders] /\ child' = [child EXCEPT ![i] = child'[i]]
  BY <1>0, <1>1, <1>5
<1>7. PlacementSound(i)' /\ FillsSound(i)' /\ Exposure(i)' <= Exposure(i)
  <2>1. PlacementSound(i)'
    BY <1>0, <1>2, <1>3, <1>5 DEF PlacementSound
  <2>2. FillsSound(i)'
    BY <1>0, <1>2, <1>3, <1>4, <1>5 DEF FillsSound
  <2>3. Exposure(i)' <= Exposure(i)
    BY <1>0, <1>2, <1>3, <1>4, <1>5 DEF Exposure, PlacementSound, FillsSound
  <2> QED
    BY <2>1, <2>2, <2>3
<1>8. bot # "stopped"
  BY <1>0 DEF MirrorInv, StoppedLeavesNothing
<1> QED
  BY <1>0, <1>1, <1>6, <1>7, <1>8, OneChild

(* What blocking a mirror leaves of it. *)
LEMMA BlockedMirror ==
  ASSUME MirrorInv, NEW i \in Children, mirror' = Blocked(i)
  PROVE  /\ mirror' = [mirror EXCEPT ![i] = mirror'[i]] /\ mirror'[i] \in Mirrors
         /\ mirror'[i].state = "terminal" <=> mirror[i].state = "terminal"
         /\ mirror'[i].state \in Over
         /\ mirror'[i].terms = mirror[i].terms /\ mirror'[i].revision = mirror[i].revision
         /\ mirror'[i].qty = mirror[i].qty /\ mirror'[i].native = mirror[i].native
         /\ mirror'[i].filled = mirror[i].filled /\ mirror'[i].attempts = mirror[i].attempts
<1>1. mirror \in [Children -> Mirrors] /\ mirror[i] \in Mirrors
  BY BookFacts DEF MirrorInv
<1>2. PICK x \in Over : /\ x = "terminal" <=> mirror[i].state = "terminal"
                        /\ mirror' = [mirror EXCEPT ![i] = [mirror[i] EXCEPT !.state = x]]
  BY <1>1 DEF Blocked
<1>3. mirror'[i] = [mirror[i] EXCEPT !.state = x]
  BY <1>1, <1>2
<1>4. mirror'[i] \in Mirrors
  BY <1>1, <1>3, MirrorUpdates DEF MirrorStates
<1> QED
  BY <1>1, <1>2, <1>3, <1>4 DEF Mirrors

(* A placement is admitted, or refused before it is sent. *)
LEMMA AdmitPlaceStep ==
  ASSUME MirrorInv, NEW i \in Children, AdmitPlace(i)
  PROVE  MirrorInv'
<1>1. /\ mirror \in [Children -> Mirrors] /\ place \in [Children -> RowState]
      /\ cancel \in [Children -> RowState] /\ child \in [Children -> Orders]
  BY BookFacts DEF MirrorInv
<1>2. /\ PlacementSound(i) /\ FillsSound(i) /\ mirror[i] \in Mirrors /\ child[i] \in Orders
      /\ mirror[i].state \in MirrorStates /\ mirror[i].qty \in Nat \ {0} /\ mirror[i].filled \in Nat
      /\ mirror[i].native \in BOOLEAN /\ child[i].status \in ChildStates /\ child[i].filled \in Nat
      /\ child[i].size \in Nat /\ Rounded(mirror[i].terms, mirror[i].qty) \in Nat \ {0}
  BY ChildFacts
<1>3. /\ place[i] = "sending" /\ cancel' = cancel /\ child' = child
      /\ UNCHANGED << controlVars, source, view, moves >>
      /\ \/ place' = [place EXCEPT ![i] = "admitted"] /\ mirror' = mirror
         \/ place' = [place EXCEPT ![i] = "rejected"] /\ mirror' = Blocked(i)
  BY DEF AdmitPlace, PlaceTo, Rows, Executor
<1>4. bot # "stopped"
  BY <1>3 DEF MirrorInv, StoppedLeavesNothing
<1>5. CASE place' = [place EXCEPT ![i] = "admitted"] /\ mirror' = mirror
  <2>1. place' \in [Children -> RowState] /\ place'[i] = "admitted"
    BY <1>1, <1>5
  <2>2. PlacementSound(i)' /\ FillsSound(i)' /\ Exposure(i)' <= Exposure(i)
    BY <1>2, <1>3, <1>5, <2>1 DEF PlacementSound, FillsSound, Exposure
  <2> QED
    BY <1>1, <1>3, <1>4, <1>5, <2>1, <2>2, OneChild
<1>6. CASE place' = [place EXCEPT ![i] = "rejected"] /\ mirror' = Blocked(i)
  <2>1. place' \in [Children -> RowState] /\ place'[i] = "rejected"
    BY <1>1, <1>6
  <2>2. /\ mirror' = [mirror EXCEPT ![i] = mirror'[i]] /\ mirror'[i] \in Mirrors
        /\ mirror'[i].state = "terminal" <=> mirror[i].state = "terminal"
        /\ mirror'[i].state \in Over
        /\ mirror'[i].terms = mirror[i].terms /\ mirror'[i].revision = mirror[i].revision
        /\ mirror'[i].qty = mirror[i].qty /\ mirror'[i].native = mirror[i].native
        /\ mirror'[i].filled = mirror[i].filled /\ mirror'[i].attempts = mirror[i].attempts
    BY <1>6, BlockedMirror
  <2>3. PlacementSound(i)' /\ FillsSound(i)' /\ Exposure(i)' <= Exposure(i)
    BY <1>2, <1>3, <2>1, <2>2 DEF PlacementSound, FillsSound, Exposure
  <2> QED
    BY <1>1, <1>3, <1>4, <1>6, <2>1, <2>2, <2>3, OneChild
<1> QED
  BY <1>3, <1>5, <1>6

(* A request that is not dispatched rejects its row. *)
LEMMA NotDispatchedStep ==
  ASSUME MirrorInv, NEW i \in Children, NotDispatched(i)
  PROVE  MirrorInv'
<1>1. /\ mirror \in [Children -> Mirrors] /\ place \in [Children -> RowState]
      /\ cancel \in [Children -> RowState] /\ child \in [Children -> Orders]
  BY BookFacts DEF MirrorInv
<1>2. /\ PlacementSound(i) /\ FillsSound(i) /\ mirror[i] \in Mirrors /\ child[i] \in Orders
      /\ mirror[i].state \in MirrorStates /\ mirror[i].qty \in Nat \ {0} /\ mirror[i].filled \in Nat
      /\ mirror[i].native \in BOOLEAN /\ child[i].status \in ChildStates /\ child[i].filled \in Nat
      /\ child[i].size \in Nat /\ Rounded(mirror[i].terms, mirror[i].qty) \in Nat \ {0}
  BY ChildFacts
<1>3. /\ child' = [child EXCEPT ![i] = [child[i] EXCEPT !.asked = FALSE]]
      /\ UNCHANGED << controlVars, source, view, moves >>
      /\ \/ /\ place[i] = "admitted" /\ mirror' = Blocked(i)
            /\ place' = [place EXCEPT ![i] = "rejected"] /\ cancel' = cancel
         \/ /\ cancel[i] \in {"admitted", "posted"} /\ mirror' = mirror
            /\ place' = place /\ cancel' = [cancel EXCEPT ![i] = "rejected"]
  BY <1>1 DEF NotDispatched, PlaceTo, CancelTo, Rows, Executor
<1>4. bot # "stopped"
  BY <1>3 DEF MirrorInv, StoppedLeavesNothing
<1>5. /\ child'[i] \in Orders /\ child'[i].status = child[i].status
      /\ child'[i].filled = child[i].filled /\ child'[i].size = child[i].size
      /\ child' \in [Children -> Orders]
      /\ child' = [child EXCEPT ![i] = child'[i]]
  <2>1. child'[i] = [child[i] EXCEPT !.asked = FALSE]
    BY <1>1, <1>3
  <2>2. /\ child'[i] \in Orders /\ child'[i].status = child[i].status
        /\ child'[i].filled = child[i].filled /\ child'[i].size = child[i].size
    BY <1>2, <2>1 DEF Orders
  <2> QED
    BY <1>1, <1>3, <2>1, <2>2
<1>6. CASE /\ place[i] = "admitted" /\ mirror' = Blocked(i)
           /\ place' = [place EXCEPT ![i] = "rejected"] /\ cancel' = cancel
  <2>1. place' \in [Children -> RowState] /\ place'[i] = "rejected"
    BY <1>1, <1>6
  <2>2. /\ mirror' = [mirror EXCEPT ![i] = mirror'[i]] /\ mirror'[i] \in Mirrors
        /\ mirror'[i].state = "terminal" <=> mirror[i].state = "terminal"
        /\ mirror'[i].state \in Over
        /\ mirror'[i].terms = mirror[i].terms /\ mirror'[i].revision = mirror[i].revision
        /\ mirror'[i].qty = mirror[i].qty /\ mirror'[i].native = mirror[i].native
        /\ mirror'[i].filled = mirror[i].filled /\ mirror'[i].attempts = mirror[i].attempts
    BY <1>6, BlockedMirror
  <2>3. PlacementSound(i)' /\ FillsSound(i)' /\ Exposure(i)' <= Exposure(i)
    BY <1>2, <1>5, <1>6, <2>1, <2>2 DEF PlacementSound, FillsSound, Exposure
  <2>4. mirror' \in [Children -> Mirrors] /\ cancel' \in [Children -> RowState]
    BY <1>1, <1>6, <2>2
  <2>5. \A j \in Children \ {i} : /\ mirror'[j] = mirror[j] /\ place'[j] = place[j]
                                  /\ cancel'[j] = cancel[j] /\ child'[j] = child[j]
    BY <1>1, <1>3, <1>6, <2>2
  <2> QED
    BY <1>3, <1>4, <1>5, <2>1, <2>2, <2>3, <2>4, <2>5, OneChild
<1>7. CASE /\ cancel[i] \in {"admitted", "posted"} /\ mirror' = mirror
           /\ place' = place /\ cancel' = [cancel EXCEPT ![i] = "rejected"]
  <2>1. cancel' \in [Children -> RowState] /\ cancel'[i] = "rejected"
    BY <1>1, <1>7
  <2>2. PlacementSound(i)' /\ FillsSound(i)' /\ Exposure(i)' <= Exposure(i)
    BY <1>2, <1>5, <1>7, <2>1 DEF PlacementSound, FillsSound, Exposure
  <2> QED
    BY <1>1, <1>3, <1>4, <1>5, <1>7, <2>1, <2>2, OneChild
<1> QED
  BY <1>3, <1>6, <1>7

(* An answer that does not come leaves its row unknown. *)
LEMMA AnswerUnknownStep ==
  ASSUME MirrorInv, NEW i \in Children, AnswerUnknown(i)
  PROVE  MirrorInv'
<1>1. /\ mirror \in [Children -> Mirrors] /\ place \in [Children -> RowState]
      /\ cancel \in [Children -> RowState] /\ child \in [Children -> Orders]
  BY BookFacts DEF MirrorInv
<1>2. /\ PlacementSound(i) /\ FillsSound(i) /\ mirror[i] \in Mirrors /\ child[i] \in Orders
      /\ mirror[i].state \in MirrorStates /\ mirror[i].qty \in Nat \ {0} /\ mirror[i].filled \in Nat
      /\ mirror[i].native \in BOOLEAN /\ child[i].status \in ChildStates /\ child[i].filled \in Nat
      /\ child[i].size \in Nat /\ Rounded(mirror[i].terms, mirror[i].qty) \in Nat \ {0}
  BY ChildFacts
<1>3. /\ mirror' = mirror /\ child' = child /\ UNCHANGED << controlVars, source, view, moves >>
      /\ \/ /\ place[i] = "posted" /\ place' = [place EXCEPT ![i] = "unknown"] /\ cancel' = cancel
         \/ /\ cancel[i] = "posted" /\ cancel' = [cancel EXCEPT ![i] = "unknown"] /\ place' = place
  BY DEF AnswerUnknown, PlaceTo, CancelTo, Rows, Executor
<1>4. bot # "stopped"
  BY <1>3 DEF MirrorInv, StoppedLeavesNothing
<1>5. /\ place' \in [Children -> RowState] /\ cancel' \in [Children -> RowState]
      /\ \/ place[i] = "posted" /\ place'[i] = "unknown" /\ cancel'[i] = cancel[i]
         \/ place'[i] = place[i] /\ cancel[i] = "posted" /\ cancel'[i] = "unknown"
  BY <1>1, <1>3
<1>6. PlacementSound(i)' /\ FillsSound(i)' /\ Exposure(i)' <= Exposure(i)
  BY <1>2, <1>3, <1>5 DEF PlacementSound, FillsSound, Exposure
<1> QED
  BY <1>1, <1>3, <1>4, <1>5, <1>6, OneChild

(* A request may be lost on its way. *)
LEMMA RequestLostStep ==
  ASSUME MirrorInv, NEW i \in Children, RequestLost(i)
  PROVE  MirrorInv'
<1>1. /\ mirror \in [Children -> Mirrors] /\ place \in [Children -> RowState]
      /\ cancel \in [Children -> RowState] /\ child \in [Children -> Orders]
  BY BookFacts DEF MirrorInv
<1>2. /\ PlacementSound(i) /\ FillsSound(i) /\ mirror[i] \in Mirrors /\ child[i] \in Orders
      /\ mirror[i].state \in MirrorStates /\ mirror[i].qty \in Nat \ {0} /\ mirror[i].filled \in Nat
      /\ mirror[i].native \in BOOLEAN /\ child[i].status \in ChildStates /\ child[i].filled \in Nat
      /\ child[i].size \in Nat /\ Rounded(mirror[i].terms, mirror[i].qty) \in Nat \ {0}
  BY ChildFacts
<1>3. /\ mirror' = mirror /\ place' = place /\ cancel' = cancel
      /\ UNCHANGED << controlVars, source, view, moves >>
      /\ \/ /\ child[i].status = "transit"
            /\ child' = [child EXCEPT ![i] = [child[i] EXCEPT !.status = "lost"]]
         \/ child' = [child EXCEPT ![i] = [child[i] EXCEPT !.asked = FALSE]]
  BY <1>1 DEF RequestLost, Exchange, mirrorVars
<1>4. \/ child[i].status = "transit" /\ child'[i] = [child[i] EXCEPT !.status = "lost"]
      \/ child'[i] = [child[i] EXCEPT !.asked = FALSE]
  BY <1>1, <1>3
<1>5. /\ child'[i] \in Orders /\ child'[i].filled = child[i].filled
      /\ child'[i].size = child[i].size
      /\ \/ child[i].status = "transit" /\ child'[i].status = "lost"
         \/ child'[i].status = child[i].status
  BY <1>2, <1>4 DEF Orders
<1>6. child' \in [Children -> Orders] /\ child' = [child EXCEPT ![i] = child'[i]]
  BY <1>1, <1>3, <1>4, <1>5
<1>7. PlacementSound(i)' /\ FillsSound(i)' /\ Exposure(i)' <= Exposure(i)
  BY <1>2, <1>3, <1>5 DEF PlacementSound, FillsSound, Exposure
<1>8. bot = "stopped" => /\ child'[i].status \notin {"transit", "open"}
                         /\ {place'[i], cancel'[i]} \cap Open = {}
  BY <1>3, <1>5 DEF MirrorInv, StoppedLeavesNothing
<1> QED
  BY <1>1, <1>3, <1>6, <1>7, <1>8, OneChild

-----------------------------------------------------------------------------
(* Steps on every child at once, and on none.                              *)

LEMMA EveryChild ==
  ASSUME MirrorInv, TypeOK', Children' = Children,
         \A j \in Children : /\ PlacementSound(j)' /\ FillsSound(j)'
                             /\ Exposure(j)' <= Exposure(j)
                             /\ mirror'[j].terms = mirror[j].terms
                             /\ mirror[j].state \in Over => mirror'[j].state \in Over,
         Len(mirror') = Len(mirror), RevisionsSound', ViewSound', StoppedLeavesNothing'
  PROVE  MirrorInv'
<1>1. OneAtATime'
  BY DEF MirrorInv, OneAtATime
<1>2. Covered'
  BY CoveredStep DEF MirrorInv
<1> QED
  BY <1>1, <1>2 DEF MirrorInv

ViewRecords == [fresh : BOOLEAN, open : BOOLEAN, terms : Terms, seen : BOOLEAN,
                fills : Nat, trimmed : BOOLEAN]

(* Typing, when the book stays. *)
LEMMA TypeKept ==
  ASSUME TypeOK, UNCHANGED << mirror, place, cancel, child >>,
         bot' \in {"running", "draining", "stopped", "needs_attention"}, granted' \in BOOLEAN,
         relation' \in {"active", "paused"}, revision' \in Nat,
         source' \in [status : {"open", "filled", "gone"}, terms : Terms, new : BOOLEAN],
         view' \in ViewRecords,
         moves' \in [amends : 0..MaxAmends, requests : 0..MaxMoves]
  PROVE  TypeOK'
BY DEF TypeOK, ViewRecords

(* A request of an operator counts, and moves no child. *)
LEMMA RequestFacts ==
  ASSUME TypeOK, Request
  PROVE  /\ moves' \in [amends : 0..MaxAmends, requests : 0..MaxMoves]
         /\ view' = view /\ child' = child
<1> DEFINE x == moves.requests + 1
<1>1. moves \in [amends : 0..MaxAmends, requests : 0..MaxMoves] /\ moves.requests < MaxMoves
  BY DEF Request, TypeOK
<1>2. x \in 0..MaxMoves
  BY <1>1, MirrorAssumption
<1>3. moves' = [moves EXCEPT !.requests = x] /\ view' = view /\ child' = child
  BY DEF Request
<1> HIDE DEF x
<1> QED
  BY <1>1, <1>2, <1>3

(* An amendment counts. *)
LEMMA AmendFacts ==
  ASSUME TypeOK, moves.amends < MaxAmends, moves' = [moves EXCEPT !.amends = @ + 1]
  PROVE  moves' \in [amends : 0..MaxAmends, requests : 0..MaxMoves]
<1> DEFINE x == moves.amends + 1
<1>1. moves \in [amends : 0..MaxAmends, requests : 0..MaxMoves]
  BY DEF TypeOK
<1>2. x \in 0..MaxAmends
  BY <1>1, MirrorAssumption
<1>3. moves' = [moves EXCEPT !.amends = x]
  OBVIOUS
<1> HIDE DEF x
<1> QED
  BY <1>1, <1>2, <1>3

(* A step that touches no child. *)
LEMMA NoChild ==
  ASSUME MirrorInv, UNCHANGED << mirror, place, cancel, child >>,
         TypeOK', RevisionsSound', ViewSound', StoppedLeavesNothing'
  PROVE  MirrorInv'
<1>1. Children' = Children /\ Len(mirror') = Len(mirror)
  BY DEF Children
<1>2. ASSUME NEW j \in Children
      PROVE  /\ PlacementSound(j)' /\ FillsSound(j)' /\ Exposure(j)' <= Exposure(j)
             /\ mirror'[j].terms = mirror[j].terms
             /\ mirror[j].state \in Over => mirror'[j].state \in Over
  <2>1. PlacementSound(j) /\ FillsSound(j)
    BY DEF MirrorInv
  <2>2. PlacementSound(j)' /\ FillsSound(j)'
    BY <2>1 DEF PlacementSound, FillsSound
  <2>3. Exposure(j)' = Exposure(j)
    BY DEF Exposure
  <2>4. Exposure(j) \in Nat
    BY ExposureTyped DEF MirrorInv
  <2> QED
    BY <2>2, <2>3, <2>4
<1> QED
  BY <1>1, <1>2, EveryChild

(* The leader amends the order. *)
LEMMA AmendSourceStep ==
  ASSUME MirrorInv, AmendSource
  PROVE  MirrorInv'
<1> USE DEF AmendSource, Leader, controlVars, mirrorVars
<1>1. TypeOK'
  <2>2. moves' \in [amends : 0..MaxAmends, requests : 0..MaxMoves]
    BY AmendFacts DEF MirrorInv
  <2>3. source' \in [status : {"open", "filled", "gone"}, terms : Terms, new : BOOLEAN]
    BY DEF MirrorInv, TypeOK
  <2> QED
    BY <2>2, <2>3, TypeKept DEF MirrorInv, TypeOK
<1>2. source'.new = source.new /\ source'.status = source.status /\ source.status = "open"
  BY DEF MirrorInv, TypeOK
<1>3. RevisionsSound'
  BY <1>2 DEF MirrorInv, RevisionsSound, Children
<1>4. ViewSound'
  BY <1>2 DEF MirrorInv, ViewSound
<1>5. StoppedLeavesNothing'
  BY DEF MirrorInv, StoppedLeavesNothing, Children
<1> QED
  BY <1>1, <1>3, <1>4, <1>5, NoChild

(* The leader's order fills or goes away. *)
LEMMA EndSourceStep ==
  ASSUME MirrorInv, EndSource
  PROVE  MirrorInv'
<1> USE DEF EndSource, Leader, controlVars, mirrorVars
<1>1. TypeOK'
  <2>1. moves' \in [amends : 0..MaxAmends, requests : 0..MaxMoves]
    BY DEF MirrorInv, TypeOK
  <2>2. source' \in [status : {"open", "filled", "gone"}, terms : Terms, new : BOOLEAN]
    BY DEF MirrorInv, TypeOK
  <2> QED
    BY <2>1, <2>2, TypeKept DEF MirrorInv, TypeOK
<1>2. source'.new = source.new /\ source.status = "open"
  BY DEF MirrorInv, TypeOK
<1>3. RevisionsSound'
  BY <1>2 DEF MirrorInv, RevisionsSound, Children
<1>4. ViewSound'
  BY <1>2 DEF MirrorInv, ViewSound
<1>5. StoppedLeavesNothing'
  BY DEF MirrorInv, StoppedLeavesNothing, Children
<1> QED
  BY <1>1, <1>3, <1>4, <1>5, NoChild

(* The projection is stored, with the fills. *)
LEMMA ProjectStep ==
  ASSUME MirrorInv, Project \/ StreamFills \/ GrowStale
  PROVE  MirrorInv'
<1> USE DEF StreamFills, GrowStale, controlVars, mirrorVars
<1>1. source.terms \in Terms /\ Quantity[source.terms] \in Nat
  BY MirrorAssumption DEF MirrorInv, TypeOK
<1>8. view \in ViewRecords
  BY DEF MirrorInv, TypeOK, ViewRecords
<1>2. UNCHANGED << bot, granted, relation, revision, source, mirror, place, cancel, child, moves >>
  BY DEF Project, Viewed
<1>3. \/ /\ view'.open <=> source.status = "open"
         /\ source.status = "filled" => view'.trimmed \/ view'.fills = Quantity[source.terms]
         /\ view' \in ViewRecords
      \/ /\ source.status = "filled"
         /\ view' = [view EXCEPT !.fills = Quantity[source.terms]]
      \/ view' = [view EXCEPT !.fresh = FALSE]
  <2>1. CASE Project
    <3>1. PICK seen \in Observed, f \in Kept :
             Viewed(seen, f, source.status = "filled" /\ f # Quantity[source.terms])
      BY <2>1 DEF Project
    <3>2. f \in Nat
      BY MirrorAssumption DEF Kept
    <3>8. seen \in BOOLEAN
      <4>1. view.seen \in BOOLEAN
        BY <1>8 DEF ViewRecords
      <4> QED
        BY <4>1 DEF Observed
    <3> DEFINE o == source.status = "open"
               t == IF source.status = "open" THEN source.terms ELSE view.terms
               b == source.status = "filled" /\ f # Quantity[source.terms]
    <3>3. t \in Terms
      BY <1>1 DEF MirrorInv, TypeOK
    <3>4. view' = [fresh |-> TRUE, open |-> o, terms |-> t, seen |-> seen, fills |-> f, trimmed |-> b]
      BY <3>1, Zenon DEF Viewed
    <3>5. /\ o \in BOOLEAN /\ (o <=> source.status = "open") /\ b \in BOOLEAN
          /\ source.status = "filled" => b \/ f = Quantity[source.terms]
      OBVIOUS
    <3> HIDE DEF o, t, b
    <3>6. view' \in ViewRecords
      BY <3>2, <3>3, <3>4, <3>5, <3>8 DEF ViewRecords
    <3>7. view'.open = o /\ view'.fills = f /\ view'.trimmed = b
      BY <3>4
    <3> QED
      BY <3>5, <3>6, <3>7
  <2> QED
    BY <2>1
<1>9. view' \in ViewRecords
  <2>2. CASE view' = [view EXCEPT !.fills = Quantity[source.terms]]
    BY <1>1, <1>8, <2>2 DEF ViewRecords
  <2>3. CASE view' = [view EXCEPT !.fresh = FALSE]
    BY <1>8, <2>3 DEF ViewRecords
  <2> QED
    BY <1>3, <2>2, <2>3
<1>4. TypeOK'
  BY <1>2, <1>9, TypeKept DEF MirrorInv, TypeOK
<1>5. RevisionsSound'
  BY <1>2 DEF MirrorInv, RevisionsSound, Children
<1>6. ViewSound'
  BY <1>2, <1>3, <1>8 DEF MirrorInv, ViewSound, ViewRecords
<1>7. StoppedLeavesNothing'
  BY <1>2 DEF MirrorInv, StoppedLeavesNothing, Children
<1> QED
  BY <1>2, <1>4, <1>5, <1>6, <1>7, NoChild

(* The bot starts; orders from before are old. *)
LEMMA StartBotStep ==
  ASSUME MirrorInv, StartBot
  PROVE  MirrorInv'
<1> USE DEF StartBot, Retire, mirrorVars
<1>0. /\ moves' \in [amends : 0..MaxAmends, requests : 0..MaxMoves]
      /\ view' = view /\ child' = child
  BY RequestFacts DEF MirrorInv
<1>1. TypeOK'
  <2>1. source' \in [status : {"open", "filled", "gone"}, terms : Terms, new : BOOLEAN]
    BY DEF MirrorInv, TypeOK
  <2> QED
    BY <1>0, <2>1, TypeKept DEF MirrorInv, TypeOK
<1>2. ~source'.new /\ source'.status = source.status /\ source'.terms = source.terms
  BY DEF MirrorInv, TypeOK
<1>3. RevisionsSound'
  <2>1. revision \in Nat /\ \A j \in Children : mirror[j].revision \in Nat /\ mirror[j].revision <= revision
    BY ChildFacts, MirrorFields DEF MirrorInv, TypeOK, RevisionsSound
  <2> QED
    BY <1>0, <1>2, <2>1 DEF RevisionsSound, Children
<1>4. ViewSound'
  BY <1>0, <1>2 DEF MirrorInv, ViewSound
<1>5. StoppedLeavesNothing'
  BY DEF StoppedLeavesNothing
<1> QED
  BY <1>0, <1>1, <1>3, <1>4, <1>5, NoChild

(* The grant changes, and ends the run. *)
LEMMA SetPermissionStep ==
  ASSUME MirrorInv, SetPermission
  PROVE  MirrorInv'
<1> USE DEF SetPermission, Retire, mirrorVars
<1>0. /\ moves' \in [amends : 0..MaxAmends, requests : 0..MaxMoves]
      /\ view' = view /\ child' = child
  BY RequestFacts DEF MirrorInv
<1>1. TypeOK'
  BY <1>0, TypeKept DEF MirrorInv, TypeOK
<1>2. bot' # "running" /\ (bot' = "stopped" => bot = "stopped")
  OBVIOUS
<1>3. RevisionsSound'
  <2>1. revision \in Nat /\ \A j \in Children : mirror[j].revision \in Nat
    BY ChildFacts, MirrorFields DEF MirrorInv, TypeOK
  <2>2. RevisionsSound
    BY DEF MirrorInv
  <2> QED
    BY <1>0, <1>2, <2>1, <2>2 DEF RevisionsSound, Children
<1>4. ViewSound'
  BY <1>0 DEF MirrorInv, ViewSound
<1>5. StoppedLeavesNothing'
  BY <1>0, <1>2 DEF MirrorInv, StoppedLeavesNothing, Children
<1> QED
  BY <1>0, <1>1, <1>3, <1>4, <1>5, NoChild

(* A paused relation is activated again; orders from before are old. *)
LEMMA ActivateRelationStep ==
  ASSUME MirrorInv, ActivateRelation
  PROVE  MirrorInv'
<1> USE DEF ActivateRelation, mirrorVars
<1>0. /\ moves' \in [amends : 0..MaxAmends, requests : 0..MaxMoves]
      /\ view' = view /\ child' = child
  BY RequestFacts DEF MirrorInv
<1>1. TypeOK'
  <2>1. source' \in [status : {"open", "filled", "gone"}, terms : Terms, new : BOOLEAN]
    BY DEF MirrorInv, TypeOK
  <2> QED
    BY <1>0, <2>1, TypeKept DEF MirrorInv, TypeOK
<1>2. ~source'.new /\ source'.status = source.status /\ source'.terms = source.terms
  BY DEF MirrorInv, TypeOK
<1>3. RevisionsSound'
  BY <1>0, <1>2 DEF MirrorInv, RevisionsSound, Children
<1>4. ViewSound'
  BY <1>0, <1>2 DEF MirrorInv, ViewSound
<1>5. StoppedLeavesNothing'
  BY DEF StoppedLeavesNothing
<1> QED
  BY <1>0, <1>1, <1>3, <1>4, <1>5, NoChild

(* The turn asks for attention. *)
LEMMA AskAttentionStep ==
  ASSUME MirrorInv, AskAttention
  PROVE  MirrorInv'
<1> USE DEF AskAttention, mirrorVars
<1>1. TypeOK'
  BY DEF MirrorInv, TypeOK
<1>2. RevisionsSound'
  BY DEF MirrorInv, RevisionsSound, Children
<1>3. ViewSound'
  BY DEF MirrorInv, ViewSound
<1>4. StoppedLeavesNothing'
  BY DEF StoppedLeavesNothing
<1> QED
  BY <1>1, <1>2, <1>3, <1>4, NoChild

(* A drain ends: what is settled in the tables is settled at the exchange. *)
LEMMA FinishDrainStep ==
  ASSUME MirrorInv, FinishDrain
  PROVE  MirrorInv'
<1> USE DEF FinishDrain, mirrorVars
<1>1. TypeOK'
  BY DEF MirrorInv, TypeOK
<1>2. RevisionsSound'
  BY DEF MirrorInv, RevisionsSound, Children
<1>3. ViewSound'
  BY DEF MirrorInv, ViewSound
<1>4. StoppedLeavesNothing'
  <2>1. ASSUME NEW j \in Children
        PROVE  child[j].status \notin {"transit", "open"} /\ {place[j], cancel[j]} \cap Open = {}
    <3>1. mirror[j].state \in Over /\ {place[j], cancel[j]} \cap Open = {}
      BY DEF Settled
    <3>2. FillsSound(j)
      BY DEF MirrorInv
    <3> QED
      BY <3>1, <3>2 DEF FillsSound
  <2> QED
    BY <2>1 DEF StoppedLeavesNothing, Children
<1> QED
  BY <1>1, <1>2, <1>3, <1>4, NoChild

(* The drain is requested: failed cancellations are tried anew. *)
LEMMA StopBotStep ==
  ASSUME MirrorInv, StopBot
  PROVE  MirrorInv'
<1>1. /\ mirror \in [Children -> Mirrors] /\ Len(mirror) \in Nat /\ Children = 1..Len(mirror)
      /\ place \in [Children -> RowState] /\ cancel \in [Children -> RowState]
      /\ child \in [Children -> Orders]
  BY BookFacts DEF MirrorInv
<1>2. /\ moves' \in [amends : 0..MaxAmends, requests : 0..MaxMoves]
      /\ view' = view /\ child' = child
  BY RequestFacts DEF MirrorInv, StopBot
<1>3. /\ bot' = "draining" /\ revision' = revision + 1
      /\ UNCHANGED << granted, relation, source, place, cancel >>
  BY DEF StopBot, Retire
<1>12. mirror' = [j \in Children |-> IF mirror[j].state = "cancelling"
                                      THEN [mirror[j] EXCEPT !.attempts = 0] ELSE mirror[j]]
  BY DEF StopBot
<1>4. ASSUME NEW j \in Children
      PROVE  /\ mirror'[j] \in Mirrors /\ mirror'[j].state = mirror[j].state
             /\ mirror'[j].terms = mirror[j].terms /\ mirror'[j].revision = mirror[j].revision
             /\ mirror'[j].qty = mirror[j].qty /\ mirror'[j].native = mirror[j].native
             /\ mirror'[j].filled = mirror[j].filled
             /\ mirror[j].state # "cancelling" => mirror'[j].attempts = mirror[j].attempts
  <2>1. mirror[j] \in Mirrors
    BY <1>1
  <2>2. [mirror[j] EXCEPT !.attempts = 0] \in Mirrors
    BY <2>1, MirrorUpdates
  <2>3. mirror'[j] = mirror[j] \/ mirror'[j] = [mirror[j] EXCEPT !.attempts = 0]
    BY <1>12
  <2>4. mirror[j].state # "cancelling" => mirror'[j] = mirror[j]
    BY <1>12
  <2> QED
    BY <2>1, <2>2, <2>3, <2>4 DEF Mirrors
<1>5. Children' = Children /\ mirror' \in [Children -> Mirrors]
  BY <1>4, <1>12 DEF Children
<1>6. mirror' \in Seq(Mirrors) /\ Len(mirror') = Len(mirror)
  <2> DEFINE n == Len(mirror)
  <2>1. n \in Nat /\ mirror' \in [1..n -> Mirrors]
    BY <1>1, <1>5
  <2> HIDE DEF n
  <2>2. mirror' \in Seq(Mirrors) /\ Len(mirror') = n
    BY <2>1
  <2> QED
    BY <2>2 DEF n
<1>7. TypeOK'
  BY <1>2, <1>3, <1>6 DEF MirrorInv, TypeOK
<1>8. ASSUME NEW j \in Children
      PROVE  /\ PlacementSound(j)' /\ FillsSound(j)' /\ Exposure(j)' <= Exposure(j)
             /\ mirror'[j].terms = mirror[j].terms
             /\ mirror[j].state \in Over => mirror'[j].state \in Over
  <2>1. /\ PlacementSound(j) /\ FillsSound(j) /\ mirror[j].qty \in Nat \ {0}
        /\ child[j].filled \in Nat /\ child[j].size \in Nat
        /\ Rounded(mirror[j].terms, mirror[j].qty) \in Nat
    BY ChildFacts
  <2> QED
    BY <1>2, <1>3, <1>4, <2>1 DEF PlacementSound, FillsSound, Exposure
<1>9. RevisionsSound'
  <2>1. revision \in Nat /\ \A j \in Children : mirror[j].revision \in Nat
    BY ChildFacts, MirrorFields DEF MirrorInv, TypeOK
  <2> QED
    BY <1>3, <1>4, <1>5, <2>1 DEF MirrorInv, RevisionsSound
<1>10. ViewSound'
  BY <1>2, <1>3 DEF MirrorInv, ViewSound
<1>11. StoppedLeavesNothing'
  BY <1>3 DEF StoppedLeavesNothing
<1> QED
  BY <1>5, <1>6, <1>7, <1>8, <1>9, <1>10, <1>11, EveryChild

(* The relation is paused: what was not claimed is cancelled. *)
LEMMA PauseRelationStep ==
  ASSUME MirrorInv, PauseRelation
  PROVE  MirrorInv'
<1>1. /\ mirror \in [Children -> Mirrors] /\ Len(mirror) \in Nat /\ Children = 1..Len(mirror)
      /\ place \in [Children -> RowState] /\ cancel \in [Children -> RowState]
      /\ child \in [Children -> Orders]
  BY BookFacts DEF MirrorInv
<1>2. /\ moves' \in [amends : 0..MaxAmends, requests : 0..MaxMoves]
      /\ view' = view /\ child' = child
  BY RequestFacts DEF MirrorInv, PauseRelation
<1>3. /\ relation' = "paused" /\ revision' = revision + 1
      /\ UNCHANGED << bot, granted, source, mirror, cancel >>
      /\ place' = [j \in Children |-> IF place[j] = "pending" THEN "cancelled" ELSE place[j]]
  BY DEF PauseRelation, Retire
<1>4. Children' = Children /\ place' \in [Children -> RowState]
  BY <1>1, <1>3 DEF Children
<1>5. place' \in Seq(RowState) /\ Len(place') = Len(mirror) /\ Len(mirror') = Len(mirror)
  BY <1>1, <1>3, <1>4
<1>6. TypeOK'
  BY <1>2, <1>3, <1>5 DEF MirrorInv, TypeOK
<1>7. ASSUME NEW j \in Children
      PROVE  /\ PlacementSound(j)' /\ FillsSound(j)' /\ Exposure(j)' <= Exposure(j)
             /\ mirror'[j].terms = mirror[j].terms
             /\ mirror[j].state \in Over => mirror'[j].state \in Over
  <2>1. /\ PlacementSound(j) /\ FillsSound(j) /\ mirror[j].qty \in Nat \ {0}
        /\ child[j].filled \in Nat /\ child[j].size \in Nat
        /\ Rounded(mirror[j].terms, mirror[j].qty) \in Nat
    BY ChildFacts
  <2>2. \/ place'[j] = place[j]
        \/ place[j] = "pending" /\ place'[j] = "cancelled"
    BY <1>3
  <2> QED
    BY <1>2, <1>3, <2>1, <2>2 DEF PlacementSound, FillsSound, Exposure
<1>8. RevisionsSound'
  <2>1. revision \in Nat /\ \A j \in Children : mirror[j].revision \in Nat
    BY ChildFacts, MirrorFields DEF MirrorInv, TypeOK
  <2> QED
    BY <1>3, <1>4, <2>1 DEF MirrorInv, RevisionsSound
<1>9. ViewSound'
  BY <1>2, <1>3 DEF MirrorInv, ViewSound
<1>10. StoppedLeavesNothing'
  BY <1>2, <1>3, <1>4 DEF MirrorInv, StoppedLeavesNothing
<1> QED
  BY <1>4, <1>5, <1>6, <1>7, <1>8, <1>9, <1>10, EveryChild

(* The executor restarts: what was in flight is unknown. *)
LEMMA RestartExecutorStep ==
  ASSUME MirrorInv, RestartExecutor
  PROVE  MirrorInv'
<1>1. /\ mirror \in [Children -> Mirrors] /\ Len(mirror) \in Nat /\ Children = 1..Len(mirror)
      /\ place \in [Children -> RowState] /\ cancel \in [Children -> RowState]
      /\ child \in [Children -> Orders]
  BY BookFacts DEF MirrorInv
<1>2. /\ place' = [j \in Children |-> IF place[j] \in InFlight THEN "unknown" ELSE place[j]]
      /\ cancel' = [j \in Children |-> IF cancel[j] \in InFlight THEN "unknown" ELSE cancel[j]]
      /\ UNCHANGED << bot, granted, relation, revision, source, view, moves, mirror, child >>
  BY DEF RestartExecutor, Rows, Executor, controlVars
<1>3. bot # "stopped"
  BY DEF RestartExecutor, MirrorInv, StoppedLeavesNothing
<1>4. Children' = Children /\ place' \in [Children -> RowState] /\ cancel' \in [Children -> RowState]
  BY <1>1, <1>2 DEF Children
<1>5. /\ place' \in Seq(RowState) /\ Len(place') = Len(mirror) /\ Len(mirror') = Len(mirror)
      /\ cancel' \in Seq(RowState) /\ Len(cancel') = Len(mirror)
  BY <1>1, <1>2, <1>4
<1>6. TypeOK'
  BY <1>2, <1>5 DEF MirrorInv, TypeOK
<1>7. ASSUME NEW j \in Children
      PROVE  /\ PlacementSound(j)' /\ FillsSound(j)' /\ Exposure(j)' <= Exposure(j)
             /\ mirror'[j].terms = mirror[j].terms
             /\ mirror[j].state \in Over => mirror'[j].state \in Over
  <2>1. /\ PlacementSound(j) /\ FillsSound(j) /\ mirror[j].qty \in Nat \ {0}
        /\ child[j].filled \in Nat /\ child[j].size \in Nat
        /\ Rounded(mirror[j].terms, mirror[j].qty) \in Nat
    BY ChildFacts
  <2>2. /\ place'[j] = place[j] \/ (place[j] \in InFlight /\ place'[j] = "unknown")
        /\ cancel'[j] = cancel[j] \/ (cancel[j] \in InFlight /\ cancel'[j] = "unknown")
    BY <1>2
  <2>3. PlacementSound(j)'
    BY <1>2, <2>1, <2>2 DEF PlacementSound
  <2>4. FillsSound(j)'
    BY <1>2, <2>1, <2>2 DEF FillsSound
  <2>5. Exposure(j)' <= Exposure(j)
    BY <1>2, <2>1, <2>2 DEF Exposure, FillsSound, PlacementSound
  <2> QED
    BY <1>2, <2>3, <2>4, <2>5
<1>8. RevisionsSound' /\ ViewSound'
  BY <1>2, <1>4 DEF MirrorInv, RevisionsSound, ViewSound
<1>9. StoppedLeavesNothing'
  BY <1>2, <1>3 DEF StoppedLeavesNothing
<1> QED
  BY <1>2, <1>4, <1>5, <1>6, <1>7, <1>8, <1>9, EveryChild

-----------------------------------------------------------------------------
(* The planner's transaction.                                              *)

(* What is shown of a child's fills is between what the mirror knows and    *)
(* what is true, and all of it once the mirror is over.                     *)
LEMMA ShownFacts ==
  ASSUME MirrorInv, NEW i \in Children, NEW see
  PROVE  /\ Shown(i, see) \in Nat /\ mirror[i].filled <= Shown(i, see)
         /\ Shown(i, see) <= child[i].filled
         /\ mirror[i].state \in Over => Shown(i, see) = child[i].filled
<1>1. FillsSound(i) /\ mirror[i].filled \in Nat /\ child[i].filled \in Nat
  BY ChildFacts
<1> QED
  BY <1>1 DEF Shown, FillsSound

\* A mirror once the turn has noted the fills and the completed source.
Noted(i, see) == [mirror[i] EXCEPT !.filled = Shown(i, see), !.done = @ \/ Retained(i)]

\* The branch of the transaction that makes pm of a mirror.
Branch(i, see, pm) ==
    \/ /\ Exhausted(i) /\ ~Unsent(i) /\ ~Withdrawn(i, see)
       /\ pm = [Noted(i, see) EXCEPT !.exhausted = TRUE]
    \/ /\ Retried(i, see) /\ ~Unsent(i) /\ ~Withdrawn(i, see)
       /\ pm = [Noted(i, see) EXCEPT !.state = "live"]
    \/ /\ Unplaced(i) /\ ~Unsent(i) /\ ~Withdrawn(i, see)
       /\ pm = [Noted(i, see) EXCEPT !.state = "blocked"]
    \/ /\ Completed(i, see) /\ ~Unsent(i) /\ ~Withdrawn(i, see)
       /\ pm = [Noted(i, see) EXCEPT !.state = "terminal", !.filled = mirror[i].qty]
    \/ /\ Unsent(i) /\ ~Withdrawn(i, see)
       /\ pm = [Noted(i, see) EXCEPT !.state = "terminal"]
    \/ /\ Withdrawn(i, see) /\ ~Unsent(i)
       /\ pm = [Noted(i, see) EXCEPT !.state = "cancelling", !.attempts = @ + 1]
    \/ ~Unsent(i) /\ ~Withdrawn(i, see) /\ pm = Noted(i, see)

(* The branches exclude each other. *)
LEMMA PlannedCases ==
  ASSUME MirrorInv, NEW i \in Children, NEW see
  PROVE  Branch(i, see, PlannedMirror(i, see))
<1> DEFINE m == Noted(i, see)
           m1 == [m EXCEPT !.exhausted = TRUE]
           m2 == [m EXCEPT !.state = "live"]
           m3 == [m EXCEPT !.state = "blocked"]
           m4 == [m EXCEPT !.state = "terminal", !.filled = mirror[i].qty]
           m5 == [m EXCEPT !.state = "terminal"]
           m6 == [m EXCEPT !.state = "cancelling", !.attempts = @ + 1]
<1>1. mirror[i].attempts \in Nat /\ MaxAttempts \in Nat
  BY ChildFacts, MirrorAssumption
<1>2. /\ Exhausted(i) => ~Retried(i, see) /\ ~Unplaced(i) /\ ~Completed(i, see)
                         /\ ~Unsent(i) /\ ~Withdrawn(i, see)
      /\ Retried(i, see) => ~Unplaced(i) /\ ~Completed(i, see) /\ ~Unsent(i) /\ ~Withdrawn(i, see)
      /\ Unplaced(i) => ~Completed(i, see) /\ ~Unsent(i) /\ ~Withdrawn(i, see)
      /\ Completed(i, see) => ~Unsent(i) /\ ~Withdrawn(i, see)
      /\ Unsent(i) => ~Withdrawn(i, see)
  BY <1>1 DEF Exhausted, Retried, CancelFailed, Unplaced, Completed, Unsent, Withdrawn
<1>3. PlannedMirror(i, see) =
        CASE Exhausted(i)      -> m1
          [] Retried(i, see)   -> m2
          [] Unplaced(i)       -> m3
          [] Completed(i, see) -> m4
          [] Unsent(i)         -> m5
          [] Withdrawn(i, see) -> m6
          [] OTHER             -> m
  BY DEF PlannedMirror, Noted
<1> HIDE DEF m1, m2, m3, m4, m5, m6, m
<1>4. \/ Exhausted(i) /\ ~Unsent(i) /\ ~Withdrawn(i, see) /\ PlannedMirror(i, see) = m1
      \/ Retried(i, see) /\ ~Unsent(i) /\ ~Withdrawn(i, see) /\ PlannedMirror(i, see) = m2
      \/ Unplaced(i) /\ ~Unsent(i) /\ ~Withdrawn(i, see) /\ PlannedMirror(i, see) = m3
      \/ Completed(i, see) /\ ~Unsent(i) /\ ~Withdrawn(i, see) /\ PlannedMirror(i, see) = m4
      \/ Unsent(i) /\ ~Withdrawn(i, see) /\ PlannedMirror(i, see) = m5
      \/ Withdrawn(i, see) /\ ~Unsent(i) /\ PlannedMirror(i, see) = m6
      \/ ~Unsent(i) /\ ~Withdrawn(i, see) /\ PlannedMirror(i, see) = m
  BY <1>2, <1>3
<1> QED
  BY <1>4 DEF m1, m2, m3, m4, m5, m6, m, Branch

(* What a turn makes of a child it finds. *)
LEMMA PlannedChild ==
  ASSUME MirrorInv, NEW i \in Children, NEW see,
         mirror'[i] = PlannedMirror(i, see), child'[i] = child[i],
         place'[i] = IF Unsent(i) THEN "cancelled" ELSE place[i],
         cancel'[i] = IF Withdrawn(i, see) THEN "pending" ELSE cancel[i]
  PROVE  /\ mirror'[i] \in Mirrors /\ place'[i] \in RowState /\ cancel'[i] \in RowState
         /\ PlacementSound(i)' /\ FillsSound(i)' /\ Exposure(i)' <= Exposure(i)
         /\ mirror'[i].terms = mirror[i].terms /\ mirror'[i].revision = mirror[i].revision
         /\ mirror[i].state \in Over => mirror'[i].state \in Over
<1> DEFINE m == Noted(i, see)
           f == Shown(i, see)
           Same(pm) == /\ pm \in Mirrors /\ pm.terms = mirror[i].terms
                       /\ pm.revision = mirror[i].revision
                       /\ pm.qty = mirror[i].qty /\ pm.native = mirror[i].native
<1>1. /\ PlacementSound(i) /\ FillsSound(i) /\ mirror[i] \in Mirrors /\ child[i] \in Orders
      /\ place[i] \in RowState /\ cancel[i] \in RowState
      /\ mirror[i].state \in MirrorStates /\ mirror[i].qty \in Nat \ {0} /\ mirror[i].filled \in Nat
      /\ mirror[i].native \in BOOLEAN /\ mirror[i].attempts \in 0..MaxAttempts
      /\ child[i].status \in ChildStates /\ child[i].filled \in Nat
      /\ child[i].size \in Nat /\ Rounded(mirror[i].terms, mirror[i].qty) \in Nat \ {0}
  BY ChildFacts
<1>2. /\ f \in Nat /\ mirror[i].filled <= f /\ f <= child[i].filled
      /\ mirror[i].state \in Over => f = child[i].filled
  BY ShownFacts
<1>3. MaxAttempts \in Nat
  BY MirrorAssumption
<1> HIDE DEF f
<1>4. Same(m) /\ m.filled = f /\ m.state = mirror[i].state /\ m.attempts = mirror[i].attempts
  <2>1. \A b \in BOOLEAN :
          LET o == [mirror[i] EXCEPT !.filled = f, !.done = b] IN
          Same(o) /\ o.filled = f /\ o.state = mirror[i].state /\ o.attempts = mirror[i].attempts
    BY <1>1, <1>2 DEF Mirrors
  <2>2. \E b \in BOOLEAN : m = [mirror[i] EXCEPT !.filled = f, !.done = b]
    BY <1>1 DEF f, Noted
  <2> QED
    BY <2>1, <2>2
<1> HIDE DEF m
<1>5. PICK pm : pm = PlannedMirror(i, see)
  OBVIOUS
<1>6. /\ Same(pm)
      /\ \/ /\ pm.state = mirror[i].state /\ pm.filled = f /\ pm.attempts = mirror[i].attempts
            /\ place'[i] = place[i] /\ cancel'[i] = cancel[i]
         \/ /\ mirror[i].state = "cancelling" /\ pm.state = "live" /\ pm.filled = f
            /\ pm.attempts = mirror[i].attempts /\ mirror[i].attempts < MaxAttempts
            /\ place'[i] = place[i] /\ cancel'[i] = cancel[i]
         \/ /\ mirror[i].state = "pending" /\ place[i] \in {"cancelled", "rejected"}
            /\ pm.state = "blocked" /\ pm.filled = f /\ pm.attempts = mirror[i].attempts
            /\ place'[i] = place[i] /\ cancel'[i] = cancel[i]
         \/ /\ mirror[i].state = "live" /\ child[i].status = "closed"
            /\ child[i].filled = mirror[i].qty /\ pm.state = "terminal" /\ pm.filled = mirror[i].qty
            /\ pm.attempts = mirror[i].attempts
            /\ place'[i] = place[i] /\ cancel'[i] = cancel[i]
         \/ /\ mirror[i].state = "pending" /\ place[i] = "pending" /\ pm.state = "terminal"
            /\ pm.filled = f /\ pm.attempts = mirror[i].attempts
            /\ place'[i] = "cancelled" /\ cancel'[i] = cancel[i]
         \/ /\ mirror[i].state = "live" /\ pm.state = "cancelling" /\ pm.filled = f
            /\ place'[i] = place[i] /\ cancel'[i] = "pending"
  <2>1. CASE Exhausted(i) /\ ~Unsent(i) /\ ~Withdrawn(i, see) /\ pm = [m EXCEPT !.exhausted = TRUE]
    BY <1>1, <1>2, <1>4, <2>1 DEF Mirrors
  <2>2. CASE Retried(i, see) /\ ~Unsent(i) /\ ~Withdrawn(i, see) /\ pm = [m EXCEPT !.state = "live"]
    BY <1>1, <1>2, <1>4, <2>2 DEF Mirrors, Retried, CancelFailed
  <2>3. CASE Unplaced(i) /\ ~Unsent(i) /\ ~Withdrawn(i, see) /\ pm = [m EXCEPT !.state = "blocked"]
    BY <1>1, <1>2, <1>4, <2>3 DEF Mirrors, Unplaced
  <2>4. CASE /\ Completed(i, see) /\ ~Unsent(i) /\ ~Withdrawn(i, see)
             /\ pm = [m EXCEPT !.state = "terminal", !.filled = mirror[i].qty]
    BY <1>1, <1>2, <1>4, <2>4 DEF Mirrors, Completed
  <2>5. CASE Unsent(i) /\ ~Withdrawn(i, see) /\ pm = [m EXCEPT !.state = "terminal"]
    BY <1>1, <1>2, <1>4, <2>5 DEF Mirrors, Unsent
  <2>6. CASE /\ Withdrawn(i, see) /\ ~Unsent(i)
             /\ pm = [m EXCEPT !.state = "cancelling", !.attempts = @ + 1]
    <3>1. mirror[i].state = "live"
      BY <2>6 DEF Withdrawn
    <3>2. m.attempts + 1 \in 0..MaxAttempts
      BY <1>1, <1>3, <1>4, <3>1 DEF FillsSound
    <3> DEFINE a == m.attempts + 1
    <3>3. pm = [m EXCEPT !.state = "cancelling", !.attempts = a]
      BY <2>6
    <3> HIDE DEF a
    <3> QED
      BY <1>1, <1>2, <1>4, <2>6, <3>1, <3>2, <3>3 DEF Mirrors, a
  <2>7. CASE ~Unsent(i) /\ ~Withdrawn(i, see) /\ pm = m
    BY <1>4, <2>7
  <2>8. Branch(i, see, pm)
    BY <1>5, PlannedCases
  <2>9. \/ Exhausted(i) /\ ~Unsent(i) /\ ~Withdrawn(i, see) /\ pm = [m EXCEPT !.exhausted = TRUE]
        \/ Retried(i, see) /\ ~Unsent(i) /\ ~Withdrawn(i, see) /\ pm = [m EXCEPT !.state = "live"]
        \/ Unplaced(i) /\ ~Unsent(i) /\ ~Withdrawn(i, see) /\ pm = [m EXCEPT !.state = "blocked"]
        \/ /\ Completed(i, see) /\ ~Unsent(i) /\ ~Withdrawn(i, see)
           /\ pm = [m EXCEPT !.state = "terminal", !.filled = mirror[i].qty]
        \/ Unsent(i) /\ ~Withdrawn(i, see) /\ pm = [m EXCEPT !.state = "terminal"]
        \/ /\ Withdrawn(i, see) /\ ~Unsent(i)
           /\ pm = [m EXCEPT !.state = "cancelling", !.attempts = @ + 1]
        \/ ~Unsent(i) /\ ~Withdrawn(i, see) /\ pm = m
    BY <2>8 DEF m, Branch
  <2> HIDE DEF Same
  <2> QED
    BY <2>1, <2>2, <2>3, <2>4, <2>5, <2>6, <2>7, <2>9
<1>7. mirror'[i] = pm
  BY <1>5
<1>8. place'[i] \in RowState /\ cancel'[i] \in RowState
  BY <1>1, <1>6
<1>9. PlacementSound(i)'
  BY <1>1, <1>6, <1>7 DEF PlacementSound, FillsSound, MirrorStates
<1>10. FillsSound(i)'
  BY <1>1, <1>2, <1>3, <1>6, <1>7 DEF FillsSound, PlacementSound
<1>11. Exposure(i)' <= Exposure(i)
  <2>1. pm.terms = mirror[i].terms /\ pm.qty = mirror[i].qty
    BY <1>6
  <2> QED
    BY <1>1, <1>6, <1>7, <2>1 DEF Exposure, FillsSound, PlacementSound
<1>12. mirror[i].state \in Over => pm.state \in Over
  BY <1>6
<1> QED
  BY <1>6, <1>7, <1>8, <1>9, <1>10, <1>11, <1>12

(* A sequence with one element more. *)
LEMMA ExtendedBook ==
  \A n \in Nat : \A S : \A f \in [1..n -> S] : \A x \in S :
      f \o << x >> = [i \in 1..n + 1 |-> IF i <= n THEN f[i] ELSE x]
<1> SUFFICES ASSUME NEW n \in Nat, NEW S, NEW f \in [1..n -> S], NEW x \in S
             PROVE  f \o << x >> = [i \in 1..n + 1 |-> IF i <= n THEN f[i] ELSE x]
  OBVIOUS
<1>1. f \in Seq(S) /\ Len(f) = n /\ DOMAIN f = 1..n
  OBVIOUS
<1> QED
  BY <1>1

(* A turn that places no child. *)
LEMMA PlanOldStep ==
  ASSUME MirrorInv, NEW see, PlanTurn(see), ~PlacesChild(see)
  PROVE  MirrorInv'
<1>1. /\ mirror \in [Children -> Mirrors] /\ Len(mirror) \in Nat /\ Children = 1..Len(mirror)
      /\ place \in [Children -> RowState] /\ cancel \in [Children -> RowState]
      /\ child \in [Children -> Orders]
  BY BookFacts DEF MirrorInv
<1>2. bot # "stopped" /\ UNCHANGED << bot, granted, relation, revision, source, view, moves >>
  BY DEF PlanTurn, controlVars
<1> DEFINE ms == [i \in Children |-> PlannedMirror(i, see)]
           ps == [i \in Children |-> IF Unsent(i) THEN "cancelled" ELSE place[i]]
           cs == [i \in Children |-> IF Withdrawn(i, see) THEN "pending" ELSE cancel[i]]
<1>3. /\ mirror' = ms \o << >> /\ place' = ps \o << >> /\ cancel' = cs \o << >>
      /\ child' = child \o << >>
  BY DEF PlanTurn
<1>4. /\ ms \o << >> = ms /\ ps \o << >> = ps /\ cs \o << >> = cs /\ child \o << >> = child
  <2>1. /\ DOMAIN ms = 1..Len(mirror) /\ DOMAIN ps = 1..Len(mirror) /\ DOMAIN cs = 1..Len(mirror)
        /\ DOMAIN child = 1..Len(mirror)
    BY <1>1
  <2>2. /\ ms \in Seq({ms[i] : i \in Children}) /\ ps \in Seq({ps[i] : i \in Children})
        /\ cs \in Seq({cs[i] : i \in Children}) /\ child \in Seq({child[i] : i \in Children})
    BY <1>1
  <2> HIDE DEF ms, ps, cs
  <2> QED
    BY <2>2
<1>5. /\ \A i \in Children : /\ mirror'[i] = PlannedMirror(i, see) /\ child'[i] = child[i]
                             /\ place'[i] = IF Unsent(i) THEN "cancelled" ELSE place[i]
                             /\ cancel'[i] = IF Withdrawn(i, see) THEN "pending" ELSE cancel[i]
      /\ mirror' = [i \in Children |-> mirror'[i]] /\ place' = [i \in Children |-> place'[i]]
      /\ cancel' = [i \in Children |-> cancel'[i]] /\ child' = child
  BY <1>3, <1>4
<1> HIDE DEF ms, ps, cs
<1>6. ASSUME NEW i \in Children
      PROVE  /\ mirror'[i] \in Mirrors /\ place'[i] \in RowState /\ cancel'[i] \in RowState
             /\ PlacementSound(i)' /\ FillsSound(i)' /\ Exposure(i)' <= Exposure(i)
             /\ mirror'[i].terms = mirror[i].terms /\ mirror'[i].revision = mirror[i].revision
             /\ mirror[i].state \in Over => mirror'[i].state \in Over
  BY <1>5, PlannedChild
<1>7. /\ mirror' \in [Children -> Mirrors] /\ place' \in [Children -> RowState]
      /\ cancel' \in [Children -> RowState] /\ child' \in [Children -> Orders]
  BY <1>1, <1>5, <1>6
<1>8. Children' = Children
  BY <1>7 DEF Children
<1>9. /\ mirror' \in Seq(Mirrors) /\ place' \in Seq(RowState) /\ cancel' \in Seq(RowState)
      /\ child' \in Seq(Orders) /\ {Len(place'), Len(cancel'), Len(child')} = {Len(mirror')}
      /\ Len(mirror') = Len(mirror)
  <2> DEFINE n == Len(mirror)
  <2>1. /\ n \in Nat /\ mirror' \in [1..n -> Mirrors] /\ place' \in [1..n -> RowState]
        /\ cancel' \in [1..n -> RowState] /\ child' \in [1..n -> Orders]
    BY <1>1, <1>7
  <2> HIDE DEF n, RowState
  <2>2. mirror' \in Seq(Mirrors) /\ Len(mirror') = n
    BY <2>1
  <2>3. place' \in Seq(RowState) /\ Len(place') = n
    BY <2>1
  <2>4. cancel' \in Seq(RowState) /\ Len(cancel') = n
    BY <2>1
  <2>5. child' \in Seq(Orders) /\ Len(child') = n
    BY <2>1
  <2> QED
    BY <2>2, <2>3, <2>4, <2>5 DEF n
<1>10. TypeOK'
  BY <1>2, <1>9 DEF MirrorInv, TypeOK
<1>11. RevisionsSound' /\ ViewSound'
  BY <1>2, <1>6, <1>8 DEF MirrorInv, RevisionsSound, ViewSound
<1>12. StoppedLeavesNothing'
  BY <1>2 DEF StoppedLeavesNothing
<1> QED
  BY <1>6, <1>8, <1>9, <1>10, <1>11, <1>12, EveryChild

(* When a child is placed the ones before it are over, and all of today.   *)
LEMMA PlacedFacts ==
  ASSUME MirrorInv, NEW see, PlacesChild(see)
  PROVE  /\ \A i \in Children : mirror[i].state \in Over /\ mirror[i].revision = revision
         /\ source.new /\ relation = "active" /\ bot = "running"
         /\ NewChild(see) \in Mirrors
         /\ LeftToCopy(see) \in Nat \ {0} /\ LeftToCopy(see) = Quantity[view.terms] - Copied(see)
         /\ Quantity[view.terms] \in Nat /\ view.terms \in Terms
<1>1. /\ mirror \in [Children -> Mirrors] /\ Len(mirror) \in Nat /\ Children = 1..Len(mirror)
      /\ mirror \in Seq(Mirrors)
  BY BookFacts DEF MirrorInv, TypeOK
<1>2. source.new /\ relation = "active" /\ bot = "running"
  BY DEF PlacesChild, Desired, Active
<1>3. \A i \in Children : mirror[i].revision = revision
  BY <1>2 DEF MirrorInv, RevisionsSound
<1>4. \A i \in Children : mirror[i].state \in Over
  <2>1. CASE mirror = << >>
    BY <2>1 DEF Children
  <2>2. CASE mirror # << >>
    <3>1. mirror[Len(mirror)].state \in Over
      BY <2>2 DEF PlacesChild, Replaceable, Last
    <3> QED
      BY <3>1 DEF MirrorInv, OneAtATime
  <2> QED
    BY <2>1, <2>2
<1>5. view.terms \in Terms /\ Quantity[view.terms] \in Nat /\ revision \in Nat
  BY MirrorAssumption DEF MirrorInv, TypeOK
<1> DEFINE e == [i \in Children |-> IF mirror[i].revision = revision THEN Shown(i, see) ELSE 0]
<1>6. Copied(see) \in Nat
  <2>1. e \in [Children -> Nat]
    BY ShownFacts
  <2> HIDE DEF e
  <2>2. e \in [1..Len(mirror) -> Nat] /\ \A i \in 1..Len(mirror) : e[i] <= e[i]
    BY <1>1, <2>1
  <2>3. Total(e) \in Nat
    BY <1>1, <2>2, TotalMonotone
  <2> QED
    BY <2>3 DEF Copied, e
<1>7. LeftToCopy(see) = Quantity[view.terms] - Copied(see) /\ LeftToCopy(see) > 0
  BY DEF LeftToCopy, PlacesChild
<1>8. LeftToCopy(see) \in Nat \ {0}
  BY <1>5, <1>6, <1>7
<1>9. NewChild(see) \in Mirrors
  <2>1. MaxAttempts \in Nat
    BY MirrorAssumption
  <2> QED
    BY <1>5, <1>8, <2>1 DEF NewChild, Mirrors
<1> QED
  BY <1>2, <1>3, <1>4, <1>5, <1>7, <1>8, <1>9

(* A turn that places a child: what its predecessors hold is what the turn  *)
(* subtracted, and the new child may hold the rest.                         *)
LEMMA PlanNewStep ==
  ASSUME MirrorInv, NEW see, PlanTurn(see), PlacesChild(see)
  PROVE  MirrorInv'
<1> DEFINE n == Len(mirror)
           ms == [i \in Children |-> PlannedMirror(i, see)]
           ps == [i \in Children |-> IF Unsent(i) THEN "cancelled" ELSE place[i]]
           cs == [i \in Children |-> IF Withdrawn(i, see) THEN "pending" ELSE cancel[i]]
           none == [status |-> "none", size |-> 0, filled |-> 0, asked |-> FALSE]
<1>1. /\ mirror \in [Children -> Mirrors] /\ n \in Nat /\ Children = 1..n
      /\ place \in [Children -> RowState] /\ cancel \in [Children -> RowState]
      /\ child \in [Children -> Orders]
  BY BookFacts DEF MirrorInv
<1>2. bot # "stopped" /\ UNCHANGED << bot, granted, relation, revision, source, view, moves >>
  BY DEF PlanTurn, controlVars
<1>3. /\ mirror' = ms \o << NewChild(see) >> /\ place' = ps \o << "pending" >>
      /\ cancel' = cs \o << "none" >> /\ child' = child \o << none >>
  BY DEF PlanTurn
<1>4. /\ \A i \in Children : mirror[i].state \in Over /\ mirror[i].revision = revision
      /\ source.new /\ relation = "active" /\ bot = "running"
      /\ NewChild(see) \in Mirrors
      /\ LeftToCopy(see) \in Nat \ {0} /\ LeftToCopy(see) = Quantity[view.terms] - Copied(see)
      /\ Quantity[view.terms] \in Nat /\ view.terms \in Terms
  BY PlacedFacts
<1>5. /\ mirror' = [i \in 1..n + 1 |-> mirror'[i]] /\ mirror'[n + 1] = NewChild(see)
      /\ \A i \in Children : mirror'[i] = PlannedMirror(i, see)
  <2> DEFINE S == {ms[i] : i \in Children} \cup {NewChild(see)}
  <2>1. ms \in [1..n -> S] /\ NewChild(see) \in S /\ n \in Nat
    BY <1>1
  <2>2. \A i \in Children : ms[i] = PlannedMirror(i, see)
    OBVIOUS
  <2> HIDE DEF S, ms, n
  <2>3. ms \o << NewChild(see) >> = [i \in 1..n + 1 |-> IF i <= n THEN ms[i] ELSE NewChild(see)]
    BY <2>1, ExtendedBook
  <2> QED
    BY <1>1, <1>3, <2>1, <2>2, <2>3
<1>6. /\ place' \in [1..n + 1 -> RowState] /\ place'[n + 1] = "pending"
      /\ \A i \in Children : place'[i] = IF Unsent(i) THEN "cancelled" ELSE place[i]
  <2>1. ps \in [1..n -> RowState] /\ "pending" \in RowState /\ n \in Nat
    BY <1>1
  <2>2. \A i \in Children : ps[i] = IF Unsent(i) THEN "cancelled" ELSE place[i]
    OBVIOUS
  <2> HIDE DEF RowState, ps, n
  <2>3. ps \o << "pending" >> = [i \in 1..n + 1 |-> IF i <= n THEN ps[i] ELSE "pending"]
    BY <2>1, ExtendedBook
  <2>4. place' = [i \in 1..n + 1 |-> IF i <= n THEN ps[i] ELSE "pending"]
    BY <1>3, <2>3
  <2>5. /\ place' \in [1..n + 1 -> RowState] /\ place'[n + 1] = "pending"
        /\ \A i \in 1..n : place'[i] = ps[i]
    BY <2>1, <2>4
  <2>6. Children = 1..n
    BY <1>1
  <2> QED
    BY <2>2, <2>5, <2>6
<1>7. /\ cancel' \in [1..n + 1 -> RowState] /\ cancel'[n + 1] = "none"
      /\ \A i \in Children : cancel'[i] = IF Withdrawn(i, see) THEN "pending" ELSE cancel[i]
  <2>1. cs \in [1..n -> RowState] /\ "none" \in RowState /\ n \in Nat
    BY <1>1
  <2>2. \A i \in Children : cs[i] = IF Withdrawn(i, see) THEN "pending" ELSE cancel[i]
    OBVIOUS
  <2> HIDE DEF RowState, cs, n
  <2>3. cs \o << "none" >> = [i \in 1..n + 1 |-> IF i <= n THEN cs[i] ELSE "none"]
    BY <2>1, ExtendedBook
  <2>4. cancel' = [i \in 1..n + 1 |-> IF i <= n THEN cs[i] ELSE "none"]
    BY <1>3, <2>3
  <2>5. /\ cancel' \in [1..n + 1 -> RowState] /\ cancel'[n + 1] = "none"
        /\ \A i \in 1..n : cancel'[i] = cs[i]
    BY <2>1, <2>4
  <2>6. Children = 1..n
    BY <1>1
  <2> QED
    BY <2>2, <2>5, <2>6
<1>8. /\ child' \in [1..n + 1 -> Orders] /\ child'[n + 1] = none
      /\ \A i \in Children : child'[i] = child[i]
  <2>1. child \in [1..n -> Orders] /\ none \in Orders /\ n \in Nat
    BY <1>1 DEF Orders
  <2> HIDE DEF none, n
  <2>3. child \o << none >> = [i \in 1..n + 1 |-> IF i <= n THEN child[i] ELSE none]
    BY <2>1, ExtendedBook
  <2>4. child' = [i \in 1..n + 1 |-> IF i <= n THEN child[i] ELSE none]
    BY <1>3, <2>3
  <2>5. /\ child' \in [1..n + 1 -> Orders] /\ child'[n + 1] = none
        /\ \A i \in 1..n : child'[i] = child[i]
    BY <2>1, <2>4
  <2>6. Children = 1..n
    BY <1>1
  <2> QED
    BY <2>5, <2>6
<1>9. mirror' \in [1..n + 1 -> Mirrors] /\ Children' = 1..n + 1
  <2>1. \A i \in 1..n + 1 : mirror'[i] \in Mirrors
    <3>1. ASSUME NEW i \in 1..n + 1 PROVE mirror'[i] \in Mirrors
      <4>1. CASE i = n + 1
        BY <4>1, <1>4, <1>5
      <4>2. CASE i # n + 1
        <5>1. i \in Children
          BY <1>1, <4>2
        <5> QED
          BY <5>1, <1>5, <1>6, <1>7, <1>8, PlannedChild
      <4> QED
        BY <4>1, <4>2
    <3> QED
      BY <3>1
  <2> QED
    BY <2>1, <1>5 DEF Children
<1> HIDE DEF ms, ps, cs, n
<1>10. ASSUME NEW i \in Children
       PROVE  /\ PlacementSound(i)' /\ FillsSound(i)'
              /\ mirror'[i].terms = mirror[i].terms /\ mirror'[i].revision = mirror[i].revision
              /\ mirror'[i].state \in Over
  BY <1>4, <1>5, <1>6, <1>7, <1>8, PlannedChild
<1>11. ASSUME NEW i \in Children', i = n + 1 PROVE (PlacementSound(i) /\ FillsSound(i))'
  <2>1. MaxAttempts > 0
    BY MirrorAssumption
  <2> QED
    BY <1>4, <1>5, <1>6, <1>7, <1>8, <1>11, <2>1 DEF PlacementSound, FillsSound, NewChild
<1>12. \A i \in Children' : i \in Children \/ i = n + 1
  BY <1>1, <1>9
<1>13. ASSUME NEW i \in Children' PROVE (PlacementSound(i) /\ FillsSound(i))'
  BY <1>10, <1>11, <1>12
<1>14. /\ mirror' \in Seq(Mirrors) /\ place' \in Seq(RowState) /\ cancel' \in Seq(RowState)
       /\ child' \in Seq(Orders) /\ {Len(place'), Len(cancel'), Len(child')} = {Len(mirror')}
       /\ Len(mirror') = n + 1
  <2> HIDE DEF RowState
  <2>1. n + 1 \in Nat
    BY <1>1
  <2>2. mirror' \in Seq(Mirrors) /\ Len(mirror') = n + 1
    BY <1>9, <2>1
  <2>3. place' \in Seq(RowState) /\ Len(place') = n + 1
    BY <1>6, <2>1
  <2>4. cancel' \in Seq(RowState) /\ Len(cancel') = n + 1
    BY <1>7, <2>1
  <2>5. child' \in Seq(Orders) /\ Len(child') = n + 1
    BY <1>8, <2>1
  <2> QED
    BY <2>2, <2>3, <2>4, <2>5
<1>15. TypeOK'
  BY <1>2, <1>14 DEF MirrorInv, TypeOK
<1>16. RevisionsSound'
  <2>1. mirror'[n + 1].revision = revision /\ revision \in Nat
    BY <1>5 DEF NewChild, MirrorInv, TypeOK
  <2> QED
    BY <1>2, <1>4, <1>10, <1>12, <2>1 DEF RevisionsSound
<1>17. ViewSound'
  BY <1>2 DEF MirrorInv, ViewSound
<1>18. OneAtATime'
  BY <1>10, <1>12, <1>14 DEF OneAtATime
<1>19. Covered'
  <2> DEFINE d == [i \in Children' |-> Exposure(i)']
             e == [i \in Children |-> IF mirror[i].revision = revision THEN Shown(i, see) ELSE 0]
  <2>1. e \in [1..n -> Nat] /\ Copied(see) = Total(e)
    BY <1>1, ShownFacts DEF Copied
  <2>2. ASSUME NEW i \in Children' PROVE Exposure(i)' \in Nat
    <3>1. mirror'[i] \in Mirrors /\ child'[i] \in Orders
      BY <1>8, <1>9
    <3>2. Rounded(mirror'[i].terms, mirror'[i].qty) \in Nat
      BY <3>1, MirrorFields, RoundedBound
    <3> QED
      BY <3>1, <3>2 DEF Exposure, Orders
  <2>3. d \in [1..n + 1 -> Nat]
    BY <1>9, <2>2
  <2>4. ASSUME NEW i \in 1..n PROVE d[i] <= e[i]
    <3>1. i \in Children /\ i \in Children'
      BY <1>1, <1>9
    <3>2. mirror[i].state \in Over /\ mirror[i].revision = revision
      BY <1>4, <3>1
    <3>3. /\ PlacementSound(i) /\ FillsSound(i) /\ child[i].filled \in Nat
          /\ child[i].status \in ChildStates
      BY <3>1, ChildFacts
    <3>4. e[i] = child[i].filled
      BY <3>1, <3>2, ShownFacts
    <3>5. /\ place'[i] \notin {"pending", "sending", "admitted"}
          /\ child'[i].status \notin {"transit", "open"}
      BY <1>10, <3>1, <1>8, <3>2, <3>3 DEF PlacementSound, FillsSound
    <3>6. d[i] = child[i].filled
      BY <1>8, <3>1, <3>5 DEF Exposure
    <3> QED
      BY <3>3, <3>4, <3>6
  <2>5. n + 1 \in Children' /\ d[n + 1] = Rounded(view.terms, LeftToCopy(see))
    <3>1. n + 1 \in Children'
      BY <1>1, <1>9
    <3>2. place'[n + 1] = "pending" /\ mirror'[n + 1].qty = LeftToCopy(see)
          /\ mirror'[n + 1].terms = view.terms
      BY <1>5, <1>6 DEF NewChild
    <3> QED
      BY <3>1, <3>2 DEF Exposure
  <2> HIDE DEF d, e
  <2>6. Total(d) \in Nat /\ Total(e) \in Nat /\ Total(d) <= Total(e) + d[n + 1]
    BY <1>1, <2>1, <2>3, <2>4, TotalExtended
  <2>7. Total(d) <= Uplifted(view.terms)
    <3>1. /\ Rounded(view.terms, LeftToCopy(see)) \in Nat
          /\ Rounded(view.terms, LeftToCopy(see)) <= LeftToCopy(see) + Minimum[view.terms] - 1
      BY <1>4, RoundedBound
    <3>2. Uplifted(view.terms) = Quantity[view.terms] + Minimum[view.terms] - 1
      BY <1>4, UpliftedTyped
    <3>3. Minimum[view.terms] \in Nat
      BY <1>4, MirrorAssumption
    <3>4. Total(d) <= Total(e) + Rounded(view.terms, LeftToCopy(see))
      BY <2>5, <2>6
    <3>5. LeftToCopy(see) = Quantity[view.terms] - Total(e)
      BY <1>4, <2>1
    <3>6. Total(d) \in Nat /\ Total(e) \in Nat /\ Quantity[view.terms] \in Nat
      BY <1>4, <2>6
    <3> QED
      BY <3>1, <3>2, <3>3, <3>4, <3>5, <3>6
  <2>8. mirror'[n + 1].terms = view.terms
    BY <1>5 DEF NewChild
  <2> QED
    BY <2>5, <2>7, <2>8 DEF Covered, d
<1>20. StoppedLeavesNothing'
  BY <1>2 DEF StoppedLeavesNothing
<1> QED
  BY <1>13, <1>15, <1>16, <1>17, <1>18, <1>19, <1>20 DEF MirrorInv

-----------------------------------------------------------------------------
(* The theorems.                                                           *)

(* No child, no row, and nothing read yet. *)
LEMMA MirrorInit == Init => MirrorInv
<1> SUFFICES ASSUME Init PROVE MirrorInv
  OBVIOUS
<1>1. mirror = << >> /\ place = << >> /\ cancel = << >> /\ child = << >>
  BY DEF Init
<1>2. Children = {}
  BY <1>1 DEF Children
<1>3. TypeOK
  <2>1. source \in [status : {"open", "filled", "gone"}, terms : Terms, new : BOOLEAN]
    BY DEF Init
  <2>2. view \in ViewRecords
    BY <2>1 DEF Init, ViewRecords
  <2>3. moves \in [amends : 0..MaxAmends, requests : 0..MaxMoves]
    BY MirrorAssumption DEF Init
  <2> HIDE DEF RowState
  <2>4. /\ mirror \in Seq(Mirrors) /\ place \in Seq(RowState) /\ cancel \in Seq(RowState)
        /\ child \in Seq(Orders) /\ {Len(place), Len(cancel), Len(child)} = {Len(mirror)}
    BY <1>1
  <2> QED
    BY <2>1, <2>2, <2>3, <2>4 DEF Init, TypeOK, ViewRecords
<1>4. RevisionsSound /\ ViewSound /\ OneAtATime /\ Covered /\ StoppedLeavesNothing
  BY <1>1, <1>2 DEF Init, RevisionsSound, ViewSound, OneAtATime, Covered, StoppedLeavesNothing
<1> QED
  BY <1>2, <1>3, <1>4 DEF MirrorInv

(* A step that changes nothing. *)
LEMMA MirrorStutter ==
  ASSUME MirrorInv, UNCHANGED vars
  PROVE  MirrorInv'
<1>1. UNCHANGED << bot, granted, relation, revision, source, view, moves, mirror, place, cancel, child >>
  BY DEF vars, controlVars, mirrorVars
<1>2. TypeOK'
  BY <1>1 DEF MirrorInv, TypeOK
<1>3. RevisionsSound' /\ ViewSound' /\ StoppedLeavesNothing'
  BY <1>1 DEF MirrorInv, RevisionsSound, ViewSound, StoppedLeavesNothing, Children
<1> QED
  BY <1>1, <1>2, <1>3, NoChild

(* Every action keeps the invariant. *)
LEMMA MirrorStep ==
  ASSUME MirrorInv, [Next]_vars
  PROVE  MirrorInv'
<1>1. CASE AmendSource \/ EndSource \/ Project \/ StreamFills \/ GrowStale
  BY <1>1, AmendSourceStep, EndSourceStep, ProjectStep
<1>2. CASE Operate
  BY <1>2, StartBotStep, StopBotStep, SetPermissionStep, PauseRelationStep, ActivateRelationStep
     DEF Operate
<1>3. ASSUME NEW see \in Views, PlanTurn(see) PROVE MirrorInv'
  BY <1>3, PlanOldStep, PlanNewStep
<1>4. CASE AskAttention \/ FinishDrain \/ RestartExecutor
  BY <1>4, AskAttentionStep, FinishDrainStep, RestartExecutorStep
<1>5. ASSUME NEW i \in Children, Submit(i) PROVE MirrorInv'
  BY <1>5, ClaimPlaceStep, AdmitPlaceStep, PostPlaceStep, PlaceRefusedStep, ClaimCancelStep,
     AdmitCancelStep, PostCancelStep DEF Submit
<1>6. ASSUME NEW i \in Children, Answer(i) PROVE MirrorInv'
  BY <1>6, RecordFactStep, SettlePlaceStep, SettleCancelStep DEF Answer
<1>7. ASSUME NEW i \in Children,
             NotDispatched(i) \/ AnswerUnknown(i) \/ DrainAbsent(i)
      PROVE  MirrorInv'
  BY <1>7, NotDispatchedStep, AnswerUnknownStep, DrainAbsentStep
<1>8. ASSUME NEW i \in Children,
             PlaceLands(i) \/ CancelLands(i) \/ RequestLost(i) \/ ChildFills(i)
      PROVE  MirrorInv'
  BY <1>8, PlaceLandsStep, CancelLandsStep, RequestLostStep, ChildFillsStep
<1>9. CASE UNCHANGED vars
  BY <1>9, MirrorStutter
<1> QED
  BY <1>1, <1>2, <1>3, <1>4, <1>5, <1>6, <1>7, <1>8, <1>9 DEF Next

(* The inductive invariant holds of every behaviour of order_mirror. *)
THEOREM MirrorInvariant == Spec => []MirrorInv
<1>1. Init => MirrorInv
  BY MirrorInit
<1>2. MirrorInv /\ [Next]_vars => MirrorInv'
  BY MirrorStep
<1> QED
  BY <1>1, <1>2, PTL DEF Spec

(* Every variable has its type: venue_order_mirrors, the rows and the      *)
(* children keep one entry per child, and no cancellation is counted past  *)
(* the last attempt (store.rs:276).                                        *)
THEOREM MirrorTypeCorrect == Spec => []TypeOK
<1>1. MirrorInv => TypeOK
  BY DEF MirrorInv
<1> QED
  BY <1>1, MirrorInvariant, PTL

(* A source is never copied twice: the children of a source together can   *)
(* never hold more than the largest of the terms they were copied from and *)
(* what rounding one order up to the exchange's minimum adds, for any      *)
(* number of children, amendments and lots, any minimum and any step       *)
(* (store.rs:240, copy_risk.rs:285).                                       *)
THEOREM SourceNeverOvercopied == Spec => []NeverOvercopied
<1>1. MirrorInv => NeverOvercopied
  <2> SUFFICES ASSUME MirrorInv, mirror # << >>
               PROVE  Total([i \in Children |-> Exposure(i)])
                        <= Max({Uplifted(mirror[i].terms) : i \in Children})
    BY DEF NeverOvercopied
  <2> DEFINE n == Len(mirror)
             f == [i \in Children |-> Uplifted(mirror[i].terms)]
             e == [i \in Children |-> Exposure(i)]
  <2>1. n \in Nat /\ Children = 1..n /\ mirror \in [Children -> Mirrors]
    BY BookFacts DEF MirrorInv
  <2>2. f \in [1..n -> Nat]
    <3>1. ASSUME NEW i \in Children PROVE Uplifted(mirror[i].terms) \in Nat
      BY <2>1, MirrorFields, UpliftedTyped
    <3> QED
      BY <2>1, <3>1
  <2>3. PICK k \in Children : Total(e) <= Uplifted(mirror[k].terms)
    BY DEF MirrorInv, Covered
  <2>4. e \in [1..n -> Nat]
    BY <2>1, ExposureTyped DEF MirrorInv
  <2>5. {f[i] : i \in 1..n} = {Uplifted(mirror[i].terms) : i \in Children}
    BY <2>1
  <2>6. f[k] = Uplifted(mirror[k].terms) /\ k \in 1..n
    BY <2>1
  <2> HIDE DEF e, f, n
  <2>7. \A i \in 1..n : e[i] <= e[i] /\ e[i] \in Nat
    BY <2>4
  <2>8. Total(e) \in Nat
    BY <2>1, <2>4, <2>7, TotalMonotone
  <2>9. PICK top : top = Max({f[i] : i \in 1..n})
    OBVIOUS
  <2>10. f[k] <= top /\ top \in Nat /\ f[k] \in Nat
    BY <2>1, <2>2, <2>6, <2>9, MaxBounds
  <2>11. Total(e) <= top
    BY <2>3, <2>6, <2>8, <2>10
  <2>12. top = Max({Uplifted(mirror[i].terms) : i \in Children})
    BY <2>5, <2>9
  <2> QED
    BY <2>11, <2>12 DEF e
<1> QED
  BY <1>1, MirrorInvariant, PTL

(* A stopped bot has left nothing behind, at the exchange or in the queue  *)
(* (store.rs:130).                                                         *)
THEOREM StoppedBotLeavesNothing == Spec => []StoppedLeavesNothing
<1>1. MirrorInv => StoppedLeavesNothing
  BY DEF MirrorInv
<1> QED
  BY <1>1, MirrorInvariant, PTL

(* Only the planner withdraws a live child. *)
LEMMA OnlyPlannerWithdraws ==
  ASSUME MirrorInv, [Next]_vars, NEW i \in Children,
         mirror[i].state = "live", mirror'[i].state = "cancelling"
  PROVE  \E see \in Views : PlanTurn(see)
<1>1. mirror \in [Children -> Mirrors]
  BY BookFacts DEF MirrorInv
<1>2. SUFFICES ASSUME ~ \E see \in Views : PlanTurn(see) PROVE FALSE
  OBVIOUS
<1>3. mirror' # mirror
  OBVIOUS
<1>4. ~ (AmendSource \/ EndSource \/ Project \/ StreamFills \/ GrowStale)
  BY <1>3 DEF AmendSource, EndSource, Leader, Project, Viewed, StreamFills, GrowStale, mirrorVars
<1>5. ~ Operate
  <2>1. ~ (StartBot \/ SetPermission \/ PauseRelation \/ ActivateRelation)
    BY <1>3 DEF StartBot, SetPermission, PauseRelation, ActivateRelation, mirrorVars
  <2>2. ~ StopBot
    <3>1. [mirror[i] EXCEPT !.attempts = 0].state = mirror[i].state
      BY <1>1 DEF Mirrors
    <3> QED
      BY <3>1 DEF StopBot
  <2> QED
    BY <2>1, <2>2 DEF Operate
<1>6. ~ (AskAttention \/ FinishDrain \/ RestartExecutor \/ UNCHANGED vars)
  BY <1>3 DEF AskAttention, FinishDrain, RestartExecutor, vars, mirrorVars
<1>7. PICK j \in Children :
        \/ Submit(j) \/ NotDispatched(j) \/ AnswerUnknown(j) \/ Answer(j) \/ DrainAbsent(j)
        \/ PlaceLands(j) \/ CancelLands(j) \/ RequestLost(j) \/ ChildFills(j)
  BY <1>2, <1>4, <1>5, <1>6 DEF Next
<1>8. ~ (PlaceLands(j) \/ CancelLands(j) \/ RequestLost(j) \/ ChildFills(j) \/ AnswerUnknown(j))
  BY <1>3 DEF PlaceLands, CancelLands, RequestLost, ChildFills, AnswerUnknown, Exchange, mirrorVars
<1>9. ~ (ClaimPlace(j) \/ PostPlace(j) \/ ClaimCancel(j) \/ AdmitCancel(j) \/ PostCancel(j)
         \/ SettleCancel(j))
  BY <1>3 DEF ClaimPlace, PostPlace, ClaimCancel, AdmitCancel, PostCancel, SettleCancel
<1>10. mirror' # Blocked(j)
  <2> SUFFICES ASSUME mirror' = Blocked(j) PROVE FALSE
    OBVIOUS
  <2>1. mirror' = [mirror EXCEPT ![j] = mirror'[j]] /\ mirror'[j].state \in Over
    BY BlockedMirror
  <2> QED
    BY <1>1, <2>1
<1>11. ~ (AdmitPlace(j) \/ PlaceRefused(j) \/ NotDispatched(j))
  BY <1>3, <1>10 DEF AdmitPlace, PlaceRefused, NotDispatched
<1>12. ~ SettlePlace(j)
  <2>1. \A x \in {"live", "terminal"} : [mirror[j] EXCEPT !.state = x].state = x
    BY <1>1 DEF Mirrors
  <2>2. SettlePlace(j) => \E x \in {"live", "terminal"} :
                            mirror' = [mirror EXCEPT ![j] = [mirror[j] EXCEPT !.state = x]]
    BY <1>1 DEF SettlePlace
  <2> QED
    BY <1>1, <2>1, <2>2
<1>13. ~ DrainAbsent(j)
  <2>1. [mirror[j] EXCEPT !.state = "terminal"].state = "terminal"
    BY <1>1 DEF Mirrors
  <2>2. DrainAbsent(j) => mirror' = [mirror EXCEPT ![j] = [mirror[j] EXCEPT !.state = "terminal"]]
    BY <1>1 DEF DrainAbsent
  <2> QED
    BY <1>1, <2>1, <2>2
<1>14. ~ RecordFact(j)
  <2> SUFFICES ASSUME RecordFact(j) PROVE FALSE
    OBVIOUS
  <2>1. mirror'[j].state \in {"terminal", mirror[j].state}
    BY <1>1 DEF RecordFact, Mirrors
  <2>2. \A k \in Children \ {j} : mirror'[k] = mirror[k]
    BY <1>1 DEF RecordFact
  <2> QED
    BY <2>1, <2>2
<1> QED
  BY <1>7, <1>8, <1>9, <1>11, <1>12, <1>13, <1>14 DEF Submit, Answer

(* What the planner does to a child it finds. *)
LEMMA PlanTurnPlans ==
  ASSUME MirrorInv, NEW see, PlanTurn(see), NEW i \in Children
  PROVE  mirror'[i] = PlannedMirror(i, see)
<1> DEFINE n == Len(mirror)
           ms == [j \in Children |-> PlannedMirror(j, see)]
           S == {ms[j] : j \in Children} \cup {NewChild(see)}
<1>1. n \in Nat /\ Children = 1..n
  BY BookFacts DEF MirrorInv
<1>2. ms \in [1..n -> S] /\ NewChild(see) \in S /\ ms[i] = PlannedMirror(i, see)
  BY <1>1
<1>3. mirror' = ms \o << >> \/ mirror' = ms \o << NewChild(see) >>
  BY DEF PlanTurn
<1> HIDE DEF n, ms, S
<1>4. ms \o << >> = ms
  <2>1. ms \in Seq(S)
    BY <1>1, <1>2
  <2> QED
    BY <2>1
<1>5. ms \o << NewChild(see) >> = [j \in 1..n + 1 |-> IF j <= n THEN ms[j] ELSE NewChild(see)]
  BY <1>1, <1>2, ExtendedBook
<1> QED
  BY <1>1, <1>2, <1>3, <1>4, <1>5

(* A live child that becomes cancelling was withdrawn. *)
LEMMA CancellingWasWithdrawn ==
  ASSUME MirrorInv, NEW i \in Children, NEW see,
         mirror[i].state = "live", PlannedMirror(i, see).state = "cancelling"
  PROVE  Withdrawn(i, see)
<1> DEFINE m == Noted(i, see)
<1>1. mirror[i] \in Mirrors
  BY ChildFacts
<1>2. DOMAIN m = DOMAIN mirror[i] /\ m.state = "live"
  BY <1>1 DEF Noted, Mirrors
<1>3. "state" \in DOMAIN m /\ "exhausted" \in DOMAIN m
  BY <1>1, <1>2 DEF Mirrors
<1> HIDE DEF m
<1>4. [m EXCEPT !.exhausted = TRUE].state = "live"
  BY <1>2, <1>3
<1>5. /\ [m EXCEPT !.state = "live"].state = "live"
      /\ [m EXCEPT !.state = "blocked"].state = "blocked"
      /\ [m EXCEPT !.state = "terminal"].state = "terminal"
      /\ [m EXCEPT !.state = "terminal", !.filled = mirror[i].qty].state = "terminal"
  BY <1>3
<1> QED
  BY <1>2, <1>4, <1>5, PlannedCases DEF m, Branch

(* The planner never withdraws a child whose source filled with the terms  *)
(* that were copied and last seen, unless the fills were trimmed before a  *)
(* turn recorded them (completed_source.rs:13, private_projection.rs:392). *)
THEOREM FilledChildIsKept == Spec => FilledSourceKeepsChild
<1>1. ASSUME MirrorInv, [Next]_vars, NEW i \in Children, Withdraws(i),
             source.status = "filled", ~view.trimmed \/ mirror[i].done
      PROVE  FALSE
  <2>0. /\ mirror[i].state = "live" /\ mirror'[i].state = "cancelling"
        /\ Active /\ mirror[i].revision = revision
        /\ source.terms = mirror[i].terms /\ view.terms = mirror[i].terms
    BY <1>1 DEF Withdraws
  <2>1. PICK see \in Views : PlanTurn(see)
    BY <1>1, <2>0, OnlyPlannerWithdraws
  <2>2. Withdrawn(i, see)
    BY <1>1, <2>0, <2>1, PlanTurnPlans, CancellingWasWithdrawn
  <2>3. Obsolete(i)
    BY <2>2 DEF Withdrawn
  <2>4. source.new
    BY <1>1, <2>0 DEF MirrorInv, RevisionsSound, TypeOK
  <2>5. view.fresh /\ (Desired => view.terms # mirror[i].terms) /\ (~Desired => ~Retained(i))
    BY <2>0, <2>3 DEF Obsolete
  <2>6. ~Desired /\ ~Retained(i)
    BY <2>0, <2>5
  <2>7. ~view.open
    BY <2>0, <2>4, <2>5, <2>6 DEF Desired
  <2>8. mirror[i].done \/ view.fills = Quantity[mirror[i].terms]
    BY <1>1, <2>0, <2>5, <2>7 DEF MirrorInv, ViewSound
  <2>9. Gone(i) /\ SourceComplete(mirror[i])
    BY <2>0, <2>5, <2>6, <2>8 DEF Gone, Unplaced, SourceComplete, TermsStand
  <2> QED
    BY <2>6, <2>9 DEF Retained
<1>2. MirrorInv /\ [Next]_vars =>
        [\A i \in Children : Withdraws(i) =>
            ~(source.status = "filled" /\ (~view.trimmed \/ mirror[i].done))]_vars
  BY <1>1
<1> QED
  BY <1>2, MirrorInvariant, PTL DEF Spec, FilledSourceKeepsChild
=============================================================================
