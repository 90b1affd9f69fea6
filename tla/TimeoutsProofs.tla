--------------------------- MODULE TimeoutsProofs ---------------------------
(***************************************************************************)
(* Theorems about the timer list, for every width of the clock, every      *)
(* table of cyclic timers and every bound on how late the main loop is.    *)
(***************************************************************************)
EXTENDS Timeouts, SequenceTheorems, FiniteSetTheorems, TLAPS

Spread == MaxInterval + MaxLate

-----------------------------------------------------------------------------
(* Numbers and sequences.                                                  *)

(* A function on 1 .. n is a sequence of length n.                         *)
LEMMA FunctionIsSeq ==
  ASSUME NEW S, NEW n \in Nat, NEW f \in [1 .. n -> S]
  PROVE  f \in Seq(S) /\ Len(f) = n /\ DOMAIN f = 1 .. n
<1>1. f \in Seq(S)
  BY SeqDef, Zenon
<1>2. Len(f) \in Nat /\ DOMAIN f = 1 .. Len(f)
  BY <1>1, LenProperties
<1>3. DOMAIN f = 1 .. n
  OBVIOUS
<1>. QED
  BY <1>1, <1>2, <1>3, SMT

(* A set of natural numbers that is not empty has a least element.         *)
LEMMA LeastElement ==
  ASSUME NEW T, T \subseteq Nat, T # {}
  PROVE  \E x \in T : \A y \in T : x <= y
<1>. DEFINE R == {ss \in Nat \X Nat : ss[1] < ss[2]}
<1>1. R = OpToRel(<, Nat)
  BY Zenon DEF OpToRel
<1>2. IsWellFoundedOn(R, Nat)
  BY <1>1, NatLessThanWellFounded
<1>3. PICK x \in T : \A y \in T : ~(<<y, x>> \in R)
  <2>. HIDE DEF R
  <2>. QED BY <1>2, WFMin, Zenon
<1>4. \A y \in T : x <= y
  <2>1. ASSUME NEW y \in T, y < x PROVE FALSE
    <3>1. x \in Nat /\ y \in Nat
      OBVIOUS
    <3>2. <<y, x>> \in Nat \X Nat /\ <<y, x>>[1] = y /\ <<y, x>>[2] = x
      BY <3>1
    <3>3. <<y, x>> \in R
      BY <3>2, <2>1, Zenon
    <3>. QED BY <3>3, <1>3
  <2>2. \A y \in T : y \in Nat /\ x \in Nat
    OBVIOUS
  <2>. QED BY <2>1, <2>2
<1>. QED BY <1>4

(* The wrapped time of the moment n ticks after the clock shows c.         *)
TimeAt(c, n) == IF n < 0 THEN Sub32(c, -n) ELSE Add32(c, n)

LEMMA TimeAtType ==
  ASSUME NEW c \in 0 .. W - 1, NEW n \in Int, -Spread <= n, n <= Spread
  PROVE  TimeAt(c, n) \in 0 .. W - 1
BY TimeoutsAssumption, SMT DEF Spread, TimeAt, Sub32, Add32

LEMMA Sizes ==
  /\ W \in Nat /\ MaxInterval \in Nat /\ MaxLate \in Nat
  /\ Spread \in Nat /\ Spread = MaxInterval + MaxLate /\ 2 * Spread < W
BY TimeoutsAssumption DEF Spread

LEMMA Zero == 0 \in 0 .. W - 1 /\ 0 \in 0 .. MaxLate
BY TimeoutsAssumption

(* Two moments less than half of the clock's range apart are compared      *)
(* correctly by TIME_LESS_THAN, whatever the clock shows.                  *)
LEMMA TimeLessIsLess ==
  ASSUME NEW c \in 0 .. W - 1, NEW m \in Int, NEW n \in Int,
         -Spread <= m - n, m - n <= Spread,
         -Spread <= m, m <= Spread, -Spread <= n, n <= Spread
  PROVE  TimeLess(TimeAt(c, m), TimeAt(c, n)) <=> m < n
BY TimeoutsAssumption, SMT DEF Spread, TimeLess, TimeAt, Sub32, Add32

(* The same moment seen one tick later.                                    *)
LEMMA TimeAtTick ==
  ASSUME NEW c \in 0 .. W - 1, NEW n \in Int, -MaxLate < n, n <= Spread
  PROVE  /\ Add32(c, 1) \in 0 .. W - 1
         /\ TimeAt(Add32(c, 1), n - 1) = TimeAt(c, n)
BY TimeoutsAssumption, SMT DEF Spread, TimeAt, Sub32, Add32

LEMMA TimeAtTickPast ==
  ASSUME NEW c \in 0 .. W - 1, NEW n \in 0 .. MaxLate, n < MaxLate
  PROVE  TimeAt(Add32(c, 1), -(n + 1)) = TimeAt(c, -n)
BY TimeoutsAssumption, SMT DEF Spread, TimeAt, Sub32, Add32

(* An interval added to a moment.                                          *)
LEMMA TimeAtAdd ==
  ASSUME NEW c \in 0 .. W - 1, NEW n \in 0 .. MaxLate, NEW d \in 0 .. MaxInterval
  PROVE  Add32(TimeAt(c, -n), d) = TimeAt(c, d - n)
BY TimeoutsAssumption, SMT DEF Spread, TimeAt, Sub32, Add32

(* The distance between two moments, added to the clock.                   *)
LEMMA TimeAtRebase ==
  ASSUME NEW c \in 0 .. W - 1, NEW m \in Int, NEW n \in Int,
         0 <= m - n, m - n <= Spread,
         -Spread <= m, m <= Spread, -Spread <= n, n <= Spread
  PROVE  Add32(Sub32(TimeAt(c, m), TimeAt(c, n)), c) = TimeAt(c, m - n)
BY TimeoutsAssumption, SMT DEF Spread, TimeAt, Sub32, Add32

-----------------------------------------------------------------------------
(* The list.  Sorted and consistent with the clock, all moments within the *)
(* window in which comparisons are right.                                  *)
Ordered(l, c) ==
  /\ l \in Seq(Entry)
  /\ \A i \in 1 .. Len(l) : /\ l[i].time = TimeAt(c, l[i].left)
                             /\ -MaxLate <= l[i].left /\ l[i].left <= Spread
  /\ \A i, j \in 1 .. Len(l) : l[i].left - l[j].left <= Spread
  /\ \A i, j \in 1 .. Len(l) : i < j => l[i].left <= l[j].left

(* Where sys_timeout_abs links an entry.                                   *)
LEMMA PlaceProperties ==
  ASSUME NEW l \in Seq(Entry), NEW e \in Entry
  PROVE  /\ Place(l, e) \in 1 .. Len(l) + 1
         /\ \A i \in 1 .. Len(l) : i < Place(l, e) => ~TimeLess(e.time, l[i].time)
         /\ Place(l, e) <= Len(l) => TimeLess(e.time, l[Place(l, e)].time)
<1>. DEFINE L == LaterThan(l, e)
<1>1. Len(l) \in Nat /\ DOMAIN l = 1 .. Len(l)
  BY LenProperties
<1>2. L = {i \in 1 .. Len(l) : TimeLess(e.time, l[i].time)}
  BY <1>1 DEF LaterThan
<1>3. CASE L = {}
  BY <1>1, <1>2, <1>3 DEF Place
<1>4. CASE L # {}
  <2>1. L \subseteq Nat
    BY <1>1, <1>2
  <2>2. \E i \in L : \A j \in L : i <= j
    BY <2>1, <1>4, LeastElement
  <2>3. Place(l, e) \in L /\ \A j \in L : Place(l, e) <= j
    BY <2>2, <1>4, Zenon DEF Place
  <2>4. \A i \in 1 .. Len(l) : i < Place(l, e) => i \notin L
    BY <2>3, <2>1, <1>1
  <2>. QED BY <1>1, <1>2, <2>3, <2>4
<1>. QED BY <1>3, <1>4

LEMMA InsertProperties ==
  ASSUME NEW l \in Seq(Entry), NEW e \in Entry
  PROVE  /\ Insert(l, e) \in Seq(Entry)
         /\ Len(Insert(l, e)) = Len(l) + 1
         /\ \A i \in 1 .. Len(l) + 1 :
              Insert(l, e)[i] = IF i < Place(l, e) THEN l[i]
                                ELSE IF i = Place(l, e) THEN e ELSE l[i - 1]
<1>. DEFINE k == Place(l, e)
            f == [i \in 1 .. Len(l) + 1 |->
                    IF i < k THEN l[i] ELSE IF i = k THEN e ELSE l[i - 1]]
<1>1. Len(l) \in Nat /\ l \in [1 .. Len(l) -> Entry]
  BY LenProperties
<1>2. k \in 1 .. Len(l) + 1
  BY PlaceProperties
<1>. HIDE DEF k
<1>3. f \in [1 .. Len(l) + 1 -> Entry]
  BY <1>1, <1>2
<1>4. Len(l) + 1 \in Nat
  BY <1>1
<1>5. f \in Seq(Entry) /\ Len(f) = Len(l) + 1
  <2>. HIDE DEF f
  <2>. QED BY <1>3, <1>4, FunctionIsSeq
<1>6. Insert(l, e) = f
  BY DEF Insert, k
<1>. QED
  BY <1>5, <1>6 DEF k

(* sys_timeout_abs keeps the list in order.                                *)
LEMMA InsertOrdered ==
  ASSUME NEW l, NEW c \in 0 .. W - 1, Ordered(l, c), NEW e \in Entry,
         e.time = TimeAt(c, e.left), 0 <= e.left, e.left <= MaxInterval
  PROVE  Ordered(Insert(l, e), c)
<1>. DEFINE k == Place(l, e)
            f == Insert(l, e)
            n == Len(l)
<1>1. l \in Seq(Entry) /\ n \in Nat /\ l \in [1 .. n -> Entry]
  BY LenProperties DEF Ordered
<1>2. \A i \in 1 .. n : /\ l[i].left \in Int /\ -MaxLate <= l[i].left /\ l[i].left <= Spread
                        /\ l[i].time = TimeAt(c, l[i].left)
  BY <1>1 DEF Ordered, Entry
<1>e. e.left \in Int
  BY DEF Entry
<1>s. /\ \A i, j \in 1 .. n : l[i].left - l[j].left <= Spread
      /\ \A i, j \in 1 .. n : i < j => l[i].left <= l[j].left
  BY DEF Ordered
<1>3. \A i \in 1 .. n : TimeLess(e.time, l[i].time) <=> e.left < l[i].left
  <2>. TAKE i \in 1 .. n
  <2>. DEFINE m == l[i].left
  <2>1. m \in Int /\ -MaxLate <= m /\ m <= Spread /\ l[i].time = TimeAt(c, m)
    BY <1>2
  <2>. HIDE DEF m
  <2>2. /\ -Spread <= e.left - m /\ e.left - m <= Spread
        /\ -Spread <= e.left /\ e.left <= Spread /\ -Spread <= m
    BY <2>1, <1>e, Sizes
  <2>3. TimeLess(TimeAt(c, e.left), TimeAt(c, m)) <=> e.left < m
    BY <2>1, <2>2, <1>e, TimeLessIsLess
  <2>. QED BY <2>1, <2>3 DEF m
<1>4. /\ k \in 1 .. n + 1
      /\ \A i \in 1 .. n : i < k => l[i].left <= e.left
      /\ k <= n => e.left < l[k].left
  <2>1. /\ k \in 1 .. n + 1
        /\ \A i \in 1 .. n : i < k => ~TimeLess(e.time, l[i].time)
        /\ k <= n => TimeLess(e.time, l[k].time)
    BY <1>1, PlaceProperties
  <2>. HIDE DEF k, n
  <2>. QED BY <2>1, <1>1, <1>2, <1>3, <1>e
<1>6. /\ f \in Seq(Entry) /\ Len(f) = n + 1
      /\ \A i \in 1 .. n + 1 : f[i] = IF i < k THEN l[i] ELSE IF i = k THEN e ELSE l[i - 1]
  BY <1>1, InsertProperties
<1>. HIDE DEF k, f, n
<1>5. \A i \in 1 .. n : k <= i => e.left <= l[i].left
  BY <1>4, <1>2, <1>1, <1>s, <1>e
<1>7. \A i \in 1 .. n + 1 : \/ i < k /\ i \in 1 .. n /\ f[i] = l[i]
                            \/ i = k /\ f[i] = e
                            \/ i > k /\ i - 1 \in 1 .. n /\ f[i] = l[i - 1]
  BY <1>6, <1>4, <1>1
<1>8. \A i \in 1 .. n + 1 : /\ f[i].time = TimeAt(c, f[i].left)
                            /\ -MaxLate <= f[i].left /\ f[i].left <= Spread
  BY <1>7, <1>2, <1>e, Sizes
<1>9. \A i, j \in 1 .. n + 1 : f[i].left - f[j].left <= Spread
  <2>1. \A i \in 1 .. n : /\ l[i].left - e.left <= Spread
                          /\ e.left - l[i].left <= Spread
    BY <1>2, <1>e, Sizes
  <2>2. e.left - e.left <= Spread
    BY <1>e, Sizes
  <2>. QED BY <1>7, <1>s, <2>1, <2>2, Zenon
<1>10. \A i, j \in 1 .. n + 1 : i < j => f[i].left <= f[j].left
  <2>. SUFFICES ASSUME NEW i \in 1 .. n + 1, NEW j \in 1 .. n + 1, i < j
                PROVE  f[i].left <= f[j].left
    OBVIOUS
  <2>1. CASE j < k
    BY <2>1, <1>7, <1>1, <1>4, <1>s
  <2>2. CASE j = k
    BY <2>2, <1>7, <1>1, <1>4
  <2>3. CASE j > k /\ i = k
    BY <2>3, <1>7, <1>1, <1>4, <1>5
  <2>4. CASE j > k /\ i # k
    <3>1. f[j] = l[j - 1] /\ j - 1 \in 1 .. n
      BY <2>4, <1>7, <1>1, <1>4
    <3>2. CASE i < k
      <4>1. f[i] = l[i] /\ i \in 1 .. n /\ (i = j - 1 \/ i < j - 1)
        BY <3>2, <1>7, <1>1, <1>4
      <4>. QED BY <3>1, <4>1, <1>s, <1>2
    <3>3. CASE i > k
      <4>1. f[i] = l[i - 1] /\ i - 1 \in 1 .. n /\ i - 1 < j - 1
        BY <3>3, <1>7, <1>1, <1>4
      <4>. QED BY <3>1, <4>1, <1>s
    <3>. QED BY <3>2, <3>3, <2>4, <1>4
  <2>. QED BY <2>1, <2>2, <2>3, <2>4, <1>4
<1>. QED
  BY <1>6, <1>8, <1>9, <1>10 DEF Ordered, f

(* An entry taken out leaves the others as they are.                       *)
Without(l, k) == [i \in 1 .. Len(l) - 1 |-> IF i < k THEN l[i] ELSE l[i + 1]]

LEMMA WithoutProperties ==
  ASSUME NEW l \in Seq(Entry), NEW k \in 1 .. Len(l)
  PROVE  /\ Without(l, k) \in Seq(Entry)
         /\ Len(Without(l, k)) = Len(l) - 1
         /\ \A i \in 1 .. Len(l) - 1 :
              Without(l, k)[i] = IF i < k THEN l[i] ELSE l[i + 1]
<1>1. Len(l) \in Nat /\ l \in [1 .. Len(l) -> Entry]
  BY LenProperties
<1>2. Len(l) - 1 \in Nat
  BY <1>1
<1>3. Without(l, k) \in [1 .. Len(l) - 1 -> Entry]
  BY <1>1 DEF Without
<1>4. Without(l, k) \in Seq(Entry) /\ Len(Without(l, k)) = Len(l) - 1
  BY <1>2, <1>3, FunctionIsSeq
<1>5. \A i \in 1 .. Len(l) - 1 : Without(l, k)[i] = IF i < k THEN l[i] ELSE l[i + 1]
  BY DEF Without
<1>. QED BY <1>4, <1>5

LEMMA WithoutOrdered ==
  ASSUME NEW l, NEW c \in 0 .. W - 1, Ordered(l, c), NEW k \in 1 .. Len(l)
  PROVE  Ordered(Without(l, k), c)
<1>. DEFINE n == Len(l)
            f == Without(l, k)
<1>1. l \in Seq(Entry) /\ n \in Nat
  BY LenProperties DEF Ordered
<1>2. /\ f \in Seq(Entry) /\ Len(f) = n - 1
      /\ \A i \in 1 .. n - 1 : f[i] = IF i < k THEN l[i] ELSE l[i + 1]
  BY <1>1, WithoutProperties
<1>. DEFINE p(i) == IF i < k THEN i ELSE i + 1
<1>3. \A i \in 1 .. n - 1 : p(i) \in 1 .. n /\ f[i] = l[p(i)]
  BY <1>1, <1>2
<1>4. \A i, j \in 1 .. n - 1 : i < j => p(i) < p(j)
  BY <1>1
<1>5. /\ \A i \in 1 .. n : /\ l[i].time = TimeAt(c, l[i].left)
                           /\ -MaxLate <= l[i].left /\ l[i].left <= Spread
      /\ \A i, j \in 1 .. n : l[i].left - l[j].left <= Spread
      /\ \A i, j \in 1 .. n : i < j => l[i].left <= l[j].left
  BY DEF Ordered
<1>. HIDE DEF n, f, p
<1>6. /\ \A i \in 1 .. n - 1 : /\ f[i].time = TimeAt(c, f[i].left)
                                /\ -MaxLate <= f[i].left /\ f[i].left <= Spread
      /\ \A i, j \in 1 .. n - 1 : f[i].left - f[j].left <= Spread
      /\ \A i, j \in 1 .. n - 1 : i < j => f[i].left <= f[j].left
  BY <1>3, <1>4, <1>5, Zenon
<1>. QED
  BY <1>2, <1>6 DEF Ordered, f

(* sys_untimeout keeps the list in order.                                  *)
LEMMA UntimeoutIsWithout ==
  ASSUME NEW l \in Seq(Entry), NEW h
  PROVE  \/ SysUntimeout(l, h) = l /\ \A i \in 1 .. Len(l) : l[i].h # h
         \/ \E k \in 1 .. Len(l) : l[k].h = h /\ SysUntimeout(l, h) = Without(l, k)
<1>. DEFINE M == Matching(l, h)
            k == CHOOSE i \in M : \A j \in M : i <= j
<1>1. Len(l) \in Nat /\ DOMAIN l = 1 .. Len(l)
  BY LenProperties
<1>2. M = {i \in 1 .. Len(l) : l[i].h = h}
  BY <1>1 DEF Matching
<1>3. CASE M = {}
  BY <1>2, <1>3 DEF SysUntimeout
<1>4. CASE M # {}
  <2>1. M \subseteq Nat
    BY <1>1, <1>2
  <2>2. \E i \in M : \A j \in M : i <= j
    BY <2>1, <1>4, LeastElement
  <2>3. k \in M
    BY <2>2, Zenon
  <2>4. SysUntimeout(l, h) = Without(l, k)
    BY <1>4 DEF SysUntimeout, Without
  <2>. QED BY <1>2, <2>3, <2>4
<1>. QED BY <1>3, <1>4

LEMMA UntimeoutOrdered ==
  ASSUME NEW l, NEW c \in 0 .. W - 1, Ordered(l, c), NEW h
  PROVE  Ordered(SysUntimeout(l, h), c)
<1>1. l \in Seq(Entry)
  BY DEF Ordered
<1>. QED BY <1>1, UntimeoutIsWithout, WithoutOrdered

LEMMA TimeoutAbsOrdered ==
  ASSUME NEW l, NEW c \in 0 .. W - 1, Ordered(l, c), NEW h \in Handlers,
         NEW d \in 0 .. MaxInterval
  PROVE  Ordered(TimeoutAbs(l, TimeAt(c, d), d, h), c)
<1>. DEFINE e == [h |-> h, time |-> TimeAt(c, d), left |-> d]
<1>1. TimeAt(c, d) \in 0 .. W - 1
  BY Sizes, TimeAtType
<1>2. e \in Entry /\ e.time = TimeAt(c, e.left) /\ 0 <= e.left /\ e.left <= MaxInterval
  BY <1>1, Sizes DEF Entry
<1>3. Ordered(Insert(l, e), c)
  <2>. HIDE DEF e
  <2>. QED BY <1>2, InsertOrdered
<1>. QED BY <1>3 DEF TimeoutAbs

-----------------------------------------------------------------------------
(* The inductive invariant: the list is in order, and what a call of       *)
(* sys_check_timeouts remembers (its reading of the clock, the time at     *)
(* which the running handler was due) is consistent with the clock.        *)
Scalars ==
  /\ clock \in 0 .. W - 1
  /\ pc \in {"init", "idle", "loop", "run"}
  /\ started \in 0 .. Len(Table)
  /\ checkNow \in 0 .. W - 1 /\ checkAgo \in 0 .. MaxLate
  /\ cur \in Handlers \cup {"none"} /\ (pc = "run" <=> cur # "none")
  /\ due \in 0 .. W - 1 /\ late \in 0 .. MaxLate
  /\ tcpActive \in BOOLEAN /\ pcbs \in BOOLEAN

CheckOK ==
  pc \in {"loop", "run"} =>
    /\ checkNow = TimeAt(clock, -checkAgo)
    /\ \A i \in 1 .. Len(list) : list[i].left + checkAgo <= Spread

RunOK == pc = "run" => due = TimeAt(clock, -late)

IInv == Scalars /\ Ordered(list, clock) /\ CheckOK /\ RunOK

(* Moving two due times by the same amount keeps their distance and order. *)
LEMMA ShiftBoth ==
  ASSUME NEW a \in Int, NEW b \in Int, NEW d \in Int
  PROVE  /\ (a - d) - (b - d) = a - b
         /\ a <= b => a - d <= b - d
OBVIOUS

(* A tick that passes moves from the time left to the time gone.           *)
LEMMA TickMoves ==
  ASSUME NEW a \in Int, NEW b \in Int
  PROVE  (a - 1) + (b + 1) = a + b
OBVIOUS

(* The list one tick later.                                                *)
Older(l) == [i \in 1 .. Len(l) |-> [l[i] EXCEPT !.left = @ - 1]]

LEMMA OlderOrdered ==
  ASSUME NEW l, NEW c \in 0 .. W - 1, Ordered(l, c),
         \A i \in 1 .. Len(l) : l[i].left > -MaxLate
  PROVE  /\ Ordered(Older(l), Add32(c, 1)) /\ Len(Older(l)) = Len(l)
         /\ \A i \in 1 .. Len(l) : l[i].left \in Int /\ Older(l)[i].left = l[i].left - 1
<1>. DEFINE n == Len(l)
            f == Older(l)
<1>1. l \in Seq(Entry) /\ n \in Nat /\ \A i \in 1 .. n : l[i] \in Entry
  BY LenProperties, ElementOfSeq DEF Ordered
<1>2. \A r \in Entry : /\ [r EXCEPT !.left = @ - 1] \in Entry
                       /\ [r EXCEPT !.left = @ - 1].left = r.left - 1
                       /\ [r EXCEPT !.left = @ - 1].time = r.time
                       /\ r.left \in Int
  BY DEF Entry
<1>3. f \in [1 .. n -> Entry]
  BY <1>1, <1>2 DEF Older
<1>4. f \in Seq(Entry) /\ Len(f) = n
  BY <1>1, <1>3, FunctionIsSeq
<1>5. \A i \in 1 .. n : f[i] = [l[i] EXCEPT !.left = @ - 1]
  BY DEF Older
<1>6. \A i \in 1 .. n : l[i].left \in Int /\ f[i].left = l[i].left - 1 /\ f[i].time = l[i].time
  BY <1>1, <1>2, <1>5
<1>7. \A i \in 1 .. n : /\ l[i].time = TimeAt(c, l[i].left)
                        /\ -MaxLate < l[i].left /\ l[i].left <= Spread
  BY <1>6, Sizes DEF Ordered
<1>8. \A i \in 1 .. n : TimeAt(Add32(c, 1), l[i].left - 1) = TimeAt(c, l[i].left)
  BY <1>6, <1>7, TimeAtTick
<1>9. /\ \A i, j \in 1 .. n : l[i].left - l[j].left <= Spread
      /\ \A i, j \in 1 .. n : i < j => l[i].left <= l[j].left
  BY DEF Ordered
<1>. HIDE DEF n, f
<1>10. \A i \in 1 .. n : f[i].time = TimeAt(Add32(c, 1), f[i].left)
  BY <1>6, <1>7, <1>8
<1>11. \A i \in 1 .. n : -MaxLate <= f[i].left /\ f[i].left <= Spread
  <2>. TAKE i \in 1 .. n
  <2>1. /\ l[i].left \in Int /\ f[i].left = l[i].left - 1
        /\ -MaxLate < l[i].left /\ l[i].left <= Spread
    BY <1>6, <1>7
  <2>. QED BY <2>1, Sizes
<1>12. \A i, j \in 1 .. n : f[i].left - f[j].left <= Spread
  <2>. TAKE i, j \in 1 .. n
  <2>1. /\ l[i].left \in Int /\ f[i].left = l[i].left - 1
        /\ l[j].left \in Int /\ f[j].left = l[j].left - 1
        /\ l[i].left - l[j].left <= Spread
    BY <1>6, <1>9
  <2>2. (l[i].left - 1) - (l[j].left - 1) = l[i].left - l[j].left
    <3>1. 1 \in Int
      OBVIOUS
    <3>. QED BY <2>1, <3>1, ShiftBoth, Zenon
  <2>3. (l[i].left - 1) - (l[j].left - 1) <= Spread
    BY <2>1, <2>2, Zenon
  <2>. QED BY <2>1, <2>3, Zenon
<1>13. \A i, j \in 1 .. n : i < j => f[i].left <= f[j].left
  <2>. SUFFICES ASSUME NEW i \in 1 .. n, NEW j \in 1 .. n, i < j
                PROVE  f[i].left <= f[j].left
    OBVIOUS
  <2>1. /\ l[i].left \in Int /\ f[i].left = l[i].left - 1
        /\ l[j].left \in Int /\ f[j].left = l[j].left - 1
        /\ l[i].left <= l[j].left
    BY <1>6, <1>9
  <2>. QED BY <2>1
<1>. QED BY <1>4, <1>6, <1>10, <1>11, <1>12, <1>13 DEF Ordered, n, f

(* The list after sys_restart_timeouts.                                    *)
Rebased(l, c) ==
  [i \in 1 .. Len(l) |-> [l[i] EXCEPT !.time = Add32(Sub32(@, l[1].time), c),
                                      !.left = @ - l[1].left]]

LEMMA RebasedOrdered ==
  ASSUME NEW l, NEW c \in 0 .. W - 1, Ordered(l, c), Len(l) > 0
  PROVE  Ordered(Rebased(l, c), c)
<1>. DEFINE n == Len(l)
            f == Rebased(l, c)
            first == l[1].left
<1>1. l \in Seq(Entry) /\ n \in Nat /\ 1 \in 1 .. n /\ \A i \in 1 .. n : l[i] \in Entry
  BY LenProperties, ElementOfSeq DEF Ordered
<1>2. \A i \in 1 .. n : /\ l[i].left \in Int /\ l[i].time = TimeAt(c, l[i].left)
                        /\ -Spread <= l[i].left /\ l[i].left <= Spread
  BY <1>1, Sizes DEF Ordered, Entry
<1>3. /\ \A i, j \in 1 .. n : l[i].left - l[j].left <= Spread
      /\ \A i, j \in 1 .. n : i < j => l[i].left <= l[j].left
  BY DEF Ordered
<1>4. first \in Int /\ l[1].time = TimeAt(c, first) /\ -Spread <= first /\ first <= Spread
  BY <1>1, <1>2
<1>5. \A i \in 1 .. n : 0 <= l[i].left - first /\ l[i].left - first <= Spread
  BY <1>1, <1>2, <1>3
<1>. DEFINE time(i) == Add32(Sub32(l[i].time, l[1].time), c)
<1>6. \A i \in 1 .. n : time(i) = TimeAt(c, l[i].left - first)
  <2>. TAKE i \in 1 .. n
  <2>. DEFINE m == l[i].left
  <2>1. /\ m \in Int /\ l[i].time = TimeAt(c, m) /\ -Spread <= m /\ m <= Spread
        /\ 0 <= m - first /\ m - first <= Spread
    BY <1>2, <1>5
  <2>. HIDE DEF m, first
  <2>. QED BY <2>1, <1>4, TimeAtRebase DEF m
<1>7. \A i \in 1 .. n : TimeAt(c, l[i].left - first) \in 0 .. W - 1
  <2>. TAKE i \in 1 .. n
  <2>1. l[i].left - first \in Int /\ -Spread <= l[i].left - first /\ l[i].left - first <= Spread
    BY <1>2, <1>4, <1>5, Sizes
  <2>. QED BY <2>1, TimeAtType
<1>. HIDE DEF time
<1>8. f = [i \in 1 .. n |-> [l[i] EXCEPT !.time = time(i), !.left = @ - first]]
  BY DEF Rebased, time
<1>9. \A i \in 1 .. n : /\ f[i] \in Entry
                        /\ f[i].left = l[i].left - first
                        /\ f[i].time = time(i)
  <2>. TAKE i \in 1 .. n
  <2>. HIDE DEF f, first
  <2>1. l[i] \in Entry /\ time(i) \in 0 .. W - 1 /\ l[i].left - first \in Int
    BY <1>1, <1>2, <1>4, <1>6, <1>7
  <2>2. f[i] = [l[i] EXCEPT !.time = time(i), !.left = @ - first]
    BY <1>8, Zenon
  <2>. QED BY <2>1, <2>2 DEF Entry
<1>10. f \in Seq(Entry) /\ Len(f) = n
  <2>1. f \in [1 .. n -> Entry]
    BY <1>8, <1>9
  <2>. QED BY <2>1, <1>1, FunctionIsSeq
<1>. HIDE DEF n, f, first
<1>11. \A i \in 1 .. n : /\ f[i].time = TimeAt(c, f[i].left)
                         /\ -MaxLate <= f[i].left /\ f[i].left <= Spread
  <2>. TAKE i \in 1 .. n
  <2>1. /\ f[i].left = l[i].left - first /\ l[i].left \in Int /\ first \in Int
        /\ 0 <= l[i].left - first /\ l[i].left - first <= Spread
        /\ f[i].time = TimeAt(c, l[i].left - first)
    BY <1>2, <1>4, <1>5, <1>6, <1>9
  <2>2. -MaxLate <= 0
    BY Sizes
  <2>3. f[i].left \in Int /\ 0 <= f[i].left /\ f[i].left <= Spread /\ f[i].time = TimeAt(c, f[i].left)
    BY <2>1
  <2>4. -MaxLate <= f[i].left
    BY <2>2, <2>3, Sizes
  <2>. QED BY <2>3, <2>4
<1>12. \A i, j \in 1 .. n : f[i].left - f[j].left <= Spread /\ (i < j => f[i].left <= f[j].left)
  <2>. TAKE i, j \in 1 .. n
  <2>1. /\ l[i].left \in Int /\ f[i].left = l[i].left - first /\ first \in Int
        /\ l[j].left \in Int /\ f[j].left = l[j].left - first
        /\ l[i].left - l[j].left <= Spread /\ (i < j => l[i].left <= l[j].left)
    BY <1>2, <1>3, <1>4, <1>9
  <2>2. /\ (l[i].left - first) - (l[j].left - first) = l[i].left - l[j].left
        /\ l[i].left <= l[j].left => l[i].left - first <= l[j].left - first
    BY <2>1, ShiftBoth, Zenon
  <2>3. f[i].left - f[j].left <= Spread
    BY <2>1, <2>2, Zenon
  <2>. QED BY <2>1, <2>2, <2>3, Zenon
<1>. QED BY <1>10, <1>11, <1>12 DEF Ordered, f, n

LEMMA Constants ==
  /\ Cyclic \subseteq Handlers /\ OneShots \subseteq Handlers /\ "tcp" \in Handlers
  /\ "none" \notin Handlers /\ "tcp" \notin Cyclic \cup OneShots
  /\ \A h \in Cyclic \cup {"tcp"} : Interval[h] \in 1 .. MaxInterval
  /\ Len(Table) \in Nat /\ \A i \in 1 .. Len(Table) : Table[i] \in Cyclic
<1>1. Len(Table) \in Nat /\ DOMAIN Table = 1 .. Len(Table)
  BY TimeoutsAssumption, LenProperties
<1>2. \A i \in 1 .. Len(Table) : Table[i] \in Cyclic
  BY <1>1 DEF Cyclic
<1>. QED
  BY <1>1, <1>2, TimeoutsAssumption DEF Handlers

(* An entry added within the interval stays in the window of the call.     *)
LEMMA InsertWindow ==
  ASSUME NEW l \in Seq(Entry), NEW ago \in 0 .. MaxLate,
         \A i \in 1 .. Len(l) : l[i].left + ago <= Spread,
         NEW h \in Handlers, NEW time \in 0 .. W - 1, NEW d \in 0 .. MaxInterval
  PROVE  \A i \in 1 .. Len(TimeoutAbs(l, time, d, h)) :
            TimeoutAbs(l, time, d, h)[i].left + ago <= Spread
<1>. DEFINE e == [h |-> h, time |-> time, left |-> d]
            k == Place(l, e)
            f == Insert(l, e)
<1>1. e \in Entry /\ e.left = d
  BY Sizes DEF Entry
<1>. HIDE DEF e
<1>2. Len(l) \in Nat /\ k \in 1 .. Len(l) + 1
  BY <1>1, PlaceProperties, LenProperties
<1>3. /\ Len(f) = Len(l) + 1
      /\ \A i \in 1 .. Len(l) + 1 : f[i] = IF i < k THEN l[i] ELSE IF i = k THEN e ELSE l[i - 1]
  BY <1>1, InsertProperties
<1>. HIDE DEF k, f
<1>4. \A i \in 1 .. Len(l) + 1 : \/ i \in 1 .. Len(l) /\ f[i] = l[i]
                                 \/ f[i] = e
                                 \/ i - 1 \in 1 .. Len(l) /\ f[i] = l[i - 1]
  BY <1>2, <1>3
<1>6. e.left + ago <= Spread
  BY <1>1, Sizes
<1>5. \A i \in 1 .. Len(f) : f[i].left + ago <= Spread
  BY <1>2, <1>3, <1>4, <1>6
<1>. QED BY <1>5 DEF TimeoutAbs, f, e

LEMMA UntimeoutWindow ==
  ASSUME NEW l \in Seq(Entry), NEW ago \in 0 .. MaxLate,
         \A i \in 1 .. Len(l) : l[i].left + ago <= Spread, NEW h
  PROVE  \A i \in 1 .. Len(SysUntimeout(l, h)) : SysUntimeout(l, h)[i].left + ago <= Spread
<1>1. ASSUME NEW k \in 1 .. Len(l)
      PROVE  \A i \in 1 .. Len(Without(l, k)) : Without(l, k)[i].left + ago <= Spread
  <2>1. Len(l) \in Nat
    BY LenProperties
  <2>2. /\ Len(Without(l, k)) = Len(l) - 1
        /\ \A i \in 1 .. Len(l) - 1 : Without(l, k)[i] = IF i < k THEN l[i] ELSE l[i + 1]
    BY WithoutProperties
  <2>. QED BY <2>1, <2>2
<1>. QED BY <1>1, UntimeoutIsWithout

(* A list that is in order remains so when one more timer is started with  *)
(* sys_timeout, in every context a handler may call it from.               *)
LEMMA SysTimeoutStep ==
  ASSUME Scalars, NEW l, Ordered(l, clock), NEW h \in Handlers, NEW d \in 0 .. MaxInterval
  PROVE  /\ Ordered(SysTimeout(l, d, h), clock)
         /\ (\A i \in 1 .. Len(l) : l[i].left + checkAgo <= Spread) =>
              \A i \in 1 .. Len(SysTimeout(l, d, h)) :
                SysTimeout(l, d, h)[i].left + checkAgo <= Spread
<1>1. Add32(clock, d) = TimeAt(clock, d) /\ clock \in 0 .. W - 1 /\ checkAgo \in 0 .. MaxLate
  BY Sizes DEF TimeAt, Scalars
<1>2. TimeAt(clock, d) \in 0 .. W - 1
  BY <1>1, Sizes, TimeAtType
<1>3. l \in Seq(Entry)
  BY DEF Ordered
<1>4. Ordered(TimeoutAbs(l, TimeAt(clock, d), d, h), clock)
  BY <1>1, TimeoutAbsOrdered
<1>. QED
  BY <1>1, <1>2, <1>3, <1>4, InsertWindow DEF SysTimeout

LEMMA InitIInv == Init => IInv
<1>. SUFFICES ASSUME Init PROVE IInv
  OBVIOUS
<1>1. Scalars
  <2>1. started \in 0 .. Len(Table)
    BY Constants DEF Init
  <2>. QED BY <2>1, Zero, Zenon DEF Init, Scalars
<1>2. list \in Seq(Entry) /\ Len(list) = 0
  BY DEF Init
<1>3. Ordered(list, clock)
  BY <1>2 DEF Ordered
<1>. QED
  BY <1>1, <1>3 DEF Init, IInv, CheckOK, RunOK

(* Every step keeps the invariant.                                         *)
LEMMA NextIInv == IInv /\ [Next]_vars => IInv'
<1>. SUFFICES ASSUME IInv, [Next]_vars PROVE IInv'
  OBVIOUS
<1>. USE DEF HandlerOver, MayCall
<1>0. /\ Scalars /\ Ordered(list, clock) /\ CheckOK /\ RunOK
      /\ list \in Seq(Entry) /\ Len(list) \in Nat /\ DOMAIN list = 1 .. Len(list)
  BY LenProperties DEF IInv, Ordered
<1>1. CASE InitTimer
  <2>1. Table[started + 1] \in Cyclic /\ started + 1 \in 0 .. Len(Table)
    BY <1>0, <1>1, Constants DEF InitTimer, Scalars
  <2>2. /\ Interval[Table[started + 1]] \in 0 .. MaxInterval
        /\ Table[started + 1] \in Handlers
    BY <2>1, Constants, Sizes
  <2>3. Ordered(list', clock)
    BY <2>2, <1>0, <1>1, SysTimeoutStep DEF InitTimer
  <2>4. UNCHANGED <<clock, pc, checkNow, checkAgo, cur, due, late, tcpActive, pcbs>>
    BY <1>1 DEF InitTimer, checkVars, runVars, tcpVars
  <2>. QED BY <2>1, <2>3, <2>4, <1>0, <1>1 DEF InitTimer, IInv, Scalars, CheckOK, RunOK
<1>2. CASE InitDone
  BY <1>0, <1>2 DEF InitDone, checkVars, runVars, tcpVars, IInv, Scalars, CheckOK, RunOK
<1>3. CASE Tick
  <2>1. /\ \A i \in 1 .. Len(list) : list[i].left > -MaxLate
        /\ list' = Older(list)
        /\ clock' = Add32(clock, 1) /\ clock \in 0 .. W - 1
        /\ UNCHANGED <<pc, started, checkNow, cur, due, tcpActive, pcbs>>
    BY <1>0, <1>3 DEF Tick, tcpVars, Scalars, Older
  <2>2. /\ Ordered(list', clock') /\ Len(list') = Len(list)
        /\ \A i \in 1 .. Len(list) : list[i].left \in Int /\ list'[i].left = list[i].left - 1
    BY <2>1, <1>0, OlderOrdered
  <2>3. clock' \in 0 .. W - 1
    BY <2>1, Sizes DEF Add32
  <2>4. /\ checkAgo \in 0 .. MaxLate /\ late \in 0 .. MaxLate
        /\ pc \in {"loop", "run"} => checkAgo < MaxLate /\ checkAgo' = checkAgo + 1
        /\ pc \notin {"loop", "run"} => checkAgo' = checkAgo
        /\ pc = "run" => late < MaxLate /\ late' = late + 1
        /\ pc # "run" => late' = late
    BY <1>0, <1>3 DEF Tick, Scalars
  <2>5. checkAgo' \in 0 .. MaxLate /\ late' \in 0 .. MaxLate
    BY <2>4, Sizes
  <2>6. Scalars'
    BY <2>1, <2>3, <2>5, <1>0, Zenon DEF Scalars
  <2>7. CheckOK'
    <3>. SUFFICES ASSUME pc \in {"loop", "run"}
                  PROVE  /\ checkNow = TimeAt(clock', -checkAgo')
                         /\ \A i \in 1 .. Len(list') : list'[i].left + checkAgo' <= Spread
      BY <2>1, Zenon DEF CheckOK
    <3>1. checkAgo' = checkAgo + 1 /\ checkAgo \in 0 .. MaxLate /\ checkAgo < MaxLate
      BY <2>4
    <3>2. /\ checkNow = TimeAt(clock, -checkAgo)
          /\ \A i \in 1 .. Len(list) : list[i].left + checkAgo <= Spread
      BY <1>0 DEF CheckOK
    <3>3. checkNow = TimeAt(clock', -checkAgo')
      BY <2>1, <3>1, <3>2, TimeAtTickPast
    <3>4. \A i \in 1 .. Len(list) : list'[i].left + checkAgo' <= Spread
      <4>. TAKE i \in 1 .. Len(list)
      <4>1. checkAgo \in Int
        BY <3>1, Sizes
      <4>2. list[i].left \in Int /\ list'[i].left = list[i].left - 1
        BY <2>2, Zenon
      <4>3. list'[i].left + checkAgo' = (list[i].left - 1) + (checkAgo + 1)
        BY <3>1, <4>2, Zenon
      <4>4. (list[i].left - 1) + (checkAgo + 1) = list[i].left + checkAgo
        BY <4>1, <4>2, TickMoves, Zenon
      <4>. QED BY <3>2, <4>3, <4>4, Zenon
    <3>. QED BY <3>3, <3>4, <2>2, Zenon
  <2>8. RunOK'
    <3>. SUFFICES ASSUME pc = "run" PROVE due = TimeAt(clock', -late')
      BY <2>1, Zenon DEF RunOK
    <3>1. late' = late + 1 /\ late \in 0 .. MaxLate /\ late < MaxLate
      BY <2>4
    <3>2. due = TimeAt(clock, -late)
      BY <1>0 DEF RunOK
    <3>. QED BY <2>1, <3>1, <3>2, TimeAtTickPast
  <2>. QED BY <2>2, <2>6, <2>7, <2>8 DEF IInv
<1>4. ASSUME NEW h \in OneShots, StopTimer(h) PROVE IInv'
  <2>1. Ordered(list', clock)
    BY <1>4, <1>0, UntimeoutOrdered DEF StopTimer, Scalars
  <2>2. UNCHANGED <<clock, pc, started, checkNow, checkAgo, cur, due, late, tcpActive, pcbs>>
    BY <1>4 DEF StopTimer, checkVars, runVars, tcpVars
  <2>3. CheckOK'
    BY <2>2, <1>4, <1>0, UntimeoutWindow DEF StopTimer, CheckOK, Scalars
  <2>. QED BY <2>1, <2>2, <2>3, <1>0 DEF IInv, Scalars, RunOK
<1>5. ASSUME NEW h \in OneShots, NEW ms \in Delays, StartTimer(h, ms) PROVE IInv'
  <2>. DEFINE l == SysUntimeout(list, h)
  <2>1. h \in Handlers /\ ms \in 0 .. MaxInterval /\ list' = SysTimeout(l, ms, h)
    BY <1>5, Constants, TimeoutsAssumption DEF StartTimer
  <2>2. Ordered(l, clock)
    BY <1>0, UntimeoutOrdered DEF Scalars
  <2>3. pc \in {"loop", "run"} => \A i \in 1 .. Len(l) : l[i].left + checkAgo <= Spread
    BY <1>0, UntimeoutWindow DEF CheckOK, Scalars
  <2>4. UNCHANGED <<clock, pc, started, checkNow, checkAgo, cur, due, late, tcpActive, pcbs>>
    BY <1>5 DEF StartTimer, checkVars, runVars, tcpVars
  <2>. HIDE DEF l
  <2>5. Ordered(list', clock)
    BY <2>1, <2>2, <1>0, SysTimeoutStep
  <2>6. CheckOK'
    BY <2>1, <2>2, <2>3, <2>4, <1>0, SysTimeoutStep DEF CheckOK
  <2>. QED BY <2>4, <2>5, <2>6, <1>0 DEF IInv, Scalars, RunOK
<1>6. CASE TcpTimerNeeded
  <2>1. "tcp" \in Handlers /\ Interval["tcp"] \in 0 .. MaxInterval
    BY Constants, Sizes
  <2>2. Ordered(list', clock)
    BY <2>1, <1>0, <1>6, SysTimeoutStep DEF TcpTimerNeeded
  <2>3. /\ UNCHANGED <<clock, pc, started, checkNow, checkAgo, cur, due, late>>
        /\ tcpActive' \in BOOLEAN /\ pcbs' \in BOOLEAN
    BY <1>6, Zenon DEF TcpTimerNeeded, checkVars, runVars
  <2>4. CheckOK'
    BY <2>1, <2>3, <1>0, <1>6, SysTimeoutStep DEF TcpTimerNeeded, CheckOK
  <2>5. Scalars' /\ RunOK'
    BY <2>3, <1>0, Zenon DEF Scalars, RunOK
  <2>. QED BY <2>2, <2>3, <2>4, <2>5 DEF IInv
<1>7. CASE TcpPcbsGone
  <2>1. /\ UNCHANGED <<clock, list, pc, started, checkNow, checkAgo, cur, due, late, tcpActive>>
        /\ pcbs' \in BOOLEAN
    BY <1>7, Zenon DEF TcpPcbsGone, checkVars, runVars
  <2>. QED BY <2>1, <1>0, Zenon DEF IInv, Scalars, CheckOK, RunOK
<1>8. CASE RestartTimeouts
  <2>1. list' = Rebased(list, clock) /\ Len(list) > 0 /\ pc = "idle"
    <3>1. list # <<>> /\ pc = "idle" /\ DOMAIN list = 1 .. Len(list)
      BY <1>8, <1>0 DEF RestartTimeouts
    <3>2. Len(list) > 0
      BY <3>1, <1>0
    <3>3. list' = Rebased(list, clock)
      BY <1>8, <3>1, Zenon DEF RestartTimeouts, Rebased
    <3>. QED BY <3>1, <3>2, <3>3
  <2>2. UNCHANGED <<clock, pc, started, checkNow, checkAgo, cur, due, late, tcpActive, pcbs>>
    BY <1>8 DEF RestartTimeouts, checkVars, runVars, tcpVars
  <2>3. Ordered(list', clock)
    BY <2>1, <1>0, RebasedOrdered DEF Scalars
  <2>. QED BY <2>1, <2>2, <2>3, <1>0 DEF IInv, Scalars, CheckOK, RunOK
<1>9. CASE CheckBegin
  <2>1. /\ pc' = "loop" /\ pc = "idle" /\ checkNow' = clock /\ checkAgo' = 0
        /\ UNCHANGED <<clock, list, started, cur, due, late, tcpActive, pcbs>>
    BY <1>9 DEF CheckBegin, runVars, tcpVars
  <2>2. Scalars'
    BY <2>1, <1>0, Zero DEF Scalars
  <2>3. TimeAt(clock, -0) = clock
    BY <1>0, Sizes DEF TimeAt, Add32, Scalars
  <2>4. \A i \in 1 .. Len(list) : list[i].left + 0 <= Spread
    <3>. TAKE i \in 1 .. Len(list)
    <3>1. list[i] \in Entry /\ list[i].left <= Spread
      BY <1>0, ElementOfSeq DEF Ordered
    <3>2. list[i].left \in Int
      BY <3>1 DEF Entry
    <3>. QED BY <3>1, <3>2
  <2>. QED BY <2>1, <2>2, <2>3, <2>4, <1>0 DEF IInv, CheckOK, RunOK
<1>10. CASE CheckEnd
  <2>1. /\ pc' = "idle" /\ pc = "loop" /\ checkNow' = 0 /\ checkAgo' = 0
        /\ UNCHANGED <<clock, list, started, cur, due, late, tcpActive, pcbs>>
    BY <1>10 DEF CheckEnd, runVars, tcpVars
  <2>2. Scalars'
    BY <2>1, <1>0, Zero DEF Scalars
  <2>. QED BY <2>1, <2>2, <1>0 DEF IInv, CheckOK, RunOK
<1>11. CASE CheckFire
  <2>1. /\ pc = "loop" /\ list # <<>> /\ ~TimeLess(checkNow, list[1].time)
        /\ pc' = "run" /\ cur' = list[1].h /\ due' = list[1].time
        /\ late' = -list[1].left /\ list' = Tail(list)
        /\ UNCHANGED <<clock, started, checkNow, checkAgo, tcpActive, pcbs>>
    BY <1>11 DEF CheckFire, checkVars, tcpVars
  <2>2. 1 \in 1 .. Len(list) /\ list[1] \in Entry
    BY <2>1, <1>0, ElementOfSeq
  <2>. DEFINE a == list[1].left
  <2>3. /\ a \in Int /\ list[1].h \in Handlers /\ list[1].time \in 0 .. W - 1
        /\ list[1].time = TimeAt(clock, a) /\ -MaxLate <= a /\ a <= Spread
        /\ a + checkAgo <= Spread /\ checkNow = TimeAt(clock, -checkAgo)
        /\ checkAgo \in 0 .. MaxLate /\ clock \in 0 .. W - 1
    BY <2>1, <2>2, <1>0 DEF Entry, Ordered, CheckOK, Scalars
  <2>. HIDE DEF a
  <2>4. ~(-checkAgo < a)
    <3>1. /\ -checkAgo \in Int /\ -Spread <= -checkAgo - a /\ -checkAgo - a <= Spread
          /\ -Spread <= -checkAgo /\ -checkAgo <= Spread /\ -Spread <= a
      BY <2>3, Sizes
    <3>2. TimeLess(TimeAt(clock, -checkAgo), TimeAt(clock, a)) <=> -checkAgo < a
      BY <2>3, <3>1, TimeLessIsLess
    <3>. QED BY <2>1, <2>3, <3>2
  <2>5. late' \in 0 .. MaxLate /\ a = -late'
    <3>1. late' = -a
      BY <2>1 DEF a
    <3>. QED BY <3>1, <2>3, <2>4, Sizes
  <2>6. Scalars'
    BY <2>1, <2>3, <2>5, <1>0, Constants DEF Scalars
  <2>7. Without(list, 1) = Tail(list)
    <3>1. /\ Without(list, 1) \in Seq(Entry) /\ Len(Without(list, 1)) = Len(list) - 1
          /\ \A i \in 1 .. Len(list) - 1 : Without(list, 1)[i] = list[i + 1]
      <4>1. /\ Without(list, 1) \in Seq(Entry) /\ Len(Without(list, 1)) = Len(list) - 1
            /\ \A i \in 1 .. Len(list) - 1 :
                 Without(list, 1)[i] = IF i < 1 THEN list[i] ELSE list[i + 1]
        BY <1>0, <2>2, WithoutProperties
      <4>2. \A i \in 1 .. Len(list) - 1 : ~(i < 1)
        BY <1>0
      <4>. QED BY <4>1, <4>2
    <3>2. /\ Tail(list) \in Seq(Entry) /\ Len(Tail(list)) = Len(list) - 1
          /\ \A i \in 1 .. Len(list) - 1 : Tail(list)[i] = list[i + 1]
      BY <1>0, <2>1, HeadTailProperties
    <3>. QED BY <3>1, <3>2, SeqEqual
  <2>8. Ordered(list', clock)
    BY <2>1, <2>2, <2>7, <1>0, WithoutOrdered DEF Scalars
  <2>9. \A i \in 1 .. Len(list') : list'[i].left + checkAgo <= Spread
    BY <2>1, <1>0, HeadTailProperties DEF CheckOK
  <2>10. CheckOK' /\ RunOK'
    BY <2>1, <2>3, <2>5, <2>9 DEF CheckOK, RunOK
  <2>. QED BY <2>1, <2>6, <2>8, <2>10 DEF IInv
<1>12. CASE CyclicDone
  <2>. DEFINE int == Interval[cur]
  <2>1. /\ pc = "run" /\ pc' = "loop" /\ cur \in Cyclic /\ cur' = "none" /\ due' = 0 /\ late' = 0
        /\ UNCHANGED <<clock, started, checkNow, checkAgo, tcpActive, pcbs>>
    BY <1>12 DEF CyclicDone, checkVars, tcpVars
  <2>2. /\ cur \in Handlers /\ int \in 1 .. MaxInterval /\ late \in 0 .. MaxLate
        /\ clock \in 0 .. W - 1 /\ checkAgo \in 0 .. MaxLate /\ due = TimeAt(clock, -late)
    BY <2>1, <1>0, Constants DEF Scalars, RunOK
  <2>3. list' = IF TimeLess(Add32(due, int), clock)
                THEN TimeoutAbs(list, Add32(clock, int), int, cur)
                ELSE TimeoutAbs(list, Add32(due, int), int - late, cur)
    BY <1>12 DEF CyclicDone
  <2>. HIDE DEF int
  <2>4. Add32(due, int) = TimeAt(clock, int - late) /\ Add32(clock, int) = TimeAt(clock, int)
    <3>1. int \in 0 .. MaxInterval
      BY <2>2, Sizes
    <3>. QED BY <2>2, <3>1, TimeAtAdd DEF TimeAt
  <2>5. TimeLess(Add32(due, int), clock) <=> int - late < 0
    <3>1. clock = TimeAt(clock, 0)
      BY <2>2, Sizes DEF TimeAt, Add32
    <3>2. /\ int - late \in Int /\ -Spread <= int - late - 0 /\ int - late - 0 <= Spread
          /\ -Spread <= int - late /\ int - late <= Spread /\ -Spread <= 0 /\ 0 <= Spread
      BY <2>2, Sizes
    <3>. QED BY <2>2, <2>4, <3>1, <3>2, TimeLessIsLess
  <2>6. \E d \in 0 .. MaxInterval : list' = TimeoutAbs(list, TimeAt(clock, d), d, cur)
    <3>1. CASE int - late < 0
      BY <2>2, <2>3, <2>4, <2>5, <3>1, Sizes
    <3>2. CASE ~(int - late < 0)
      <4>1. int - late \in 0 .. MaxInterval
        BY <2>2, <3>2, Sizes
      <4>. QED BY <2>3, <2>4, <2>5, <3>2, <4>1
    <3>. QED BY <3>1, <3>2
  <2>7. PICK d \in 0 .. MaxInterval : list' = TimeoutAbs(list, TimeAt(clock, d), d, cur)
    BY <2>6
  <2>8. Ordered(list', clock)
    BY <2>2, <2>7, <1>0, TimeoutAbsOrdered
  <2>9. \A i \in 1 .. Len(list') : list'[i].left + checkAgo <= Spread
    <3>1. TimeAt(clock, d) \in 0 .. W - 1
      BY <2>2, Sizes, TimeAtType
    <3>. QED BY <3>1, <2>1, <2>2, <2>7, <1>0, InsertWindow DEF CheckOK
  <2>10. Scalars'
    BY <2>1, <1>0, Zero DEF Scalars
  <2>. QED BY <2>1, <2>8, <2>9, <2>10, <1>0 DEF IInv, CheckOK, RunOK
<1>13. CASE TcpDone
  <2>1. "tcp" \in Handlers /\ Interval["tcp"] \in 0 .. MaxInterval
    BY Constants, Sizes
  <2>2. /\ pc = "run" /\ pc' = "loop" /\ cur' = "none" /\ due' = 0 /\ late' = 0
        /\ UNCHANGED <<clock, started, checkNow, checkAgo, pcbs>> /\ tcpActive' = pcbs
    BY <1>13 DEF TcpDone, checkVars
  <2>3. Ordered(list', clock)
    BY <2>1, <1>0, <1>13, SysTimeoutStep DEF TcpDone
  <2>4. \A i \in 1 .. Len(list') : list'[i].left + checkAgo <= Spread
    BY <2>1, <2>2, <1>0, <1>13, SysTimeoutStep DEF TcpDone, CheckOK
  <2>5. Scalars'
    BY <2>2, <1>0, Zero, Zenon DEF Scalars
  <2>. QED BY <2>2, <2>3, <2>4, <2>5, <1>0 DEF IInv, CheckOK, RunOK
<1>14. CASE OneShotDone
  <2>1. /\ pc = "run" /\ pc' = "loop" /\ cur' = "none" /\ due' = 0 /\ late' = 0
        /\ UNCHANGED <<clock, list, started, checkNow, checkAgo, tcpActive, pcbs>>
    BY <1>14 DEF OneShotDone, checkVars, tcpVars
  <2>2. Scalars'
    BY <2>1, <1>0, Zero DEF Scalars
  <2>. QED BY <2>1, <2>2, <1>0 DEF IInv, CheckOK, RunOK
<1>15. CASE UNCHANGED vars
  BY <1>0, <1>15 DEF vars, checkVars, runVars, tcpVars, IInv, Scalars, CheckOK, RunOK
<1>. QED
  BY <1>1, <1>2, <1>3, <1>4, <1>5, <1>6, <1>7, <1>8, <1>9, <1>10, <1>11, <1>12,
     <1>13, <1>14, <1>15, Zenon DEF Next, CheckStep

-----------------------------------------------------------------------------
LEMMA SpecIInv == Spec => []IInv
BY InitIInv, NextIInv, PTL DEF Spec

(* The variables keep their types: no handler is ever later than MaxLate,  *)
(* so that none is called before it is due.                                *)
THEOREM TypeCorrect == Spec => []TypeOK
<1>1. IInv => TypeOK
  BY Zenon DEF IInv, Scalars, Ordered, TypeOK
<1>. QED BY <1>1, SpecIInv, PTL

(* The list is sorted by the moments the timers are really due, although   *)
(* the code only compares times that wrap around.                          *)
THEOREM AlwaysSorted == Spec => []SortedByDueTime
<1>1. IInv => SortedByDueTime
  <2>. SUFFICES ASSUME IInv PROVE SortedByDueTime
    OBVIOUS
  <2>1. DOMAIN list = 1 .. Len(list)
    BY LenProperties DEF IInv, Ordered
  <2>. QED BY <2>1, Zenon DEF IInv, Ordered, SortedByDueTime, TimeAt, TimeOf
<1>. QED BY <1>1, SpecIInv, PTL

(* sys_check_timeouts calls no handler that was not due when it was        *)
(* entered.                                                                *)
THEOREM NeverEarly == Spec => FiresOnlyExpired
<1>1. IInv /\ [Next]_vars => [pc = "loop" /\ pc' = "run" => list[1].left + checkAgo <= 0]_vars
  <2>. SUFFICES ASSUME IInv, [Next]_vars, pc = "loop", pc' = "run"
                PROVE  list[1].left + checkAgo <= 0
    OBVIOUS
  <2>1. CheckFire
    BY DEF Next, CheckStep, InitTimer, InitDone, Tick, StopTimer, StartTimer, TcpTimerNeeded,
           TcpPcbsGone, RestartTimeouts, CheckBegin, CheckEnd, CyclicDone, TcpDone, OneShotDone,
           HandlerOver, MayCall, vars
  <2>. DEFINE a == list[1].left
  <2>2. list \in Seq(Entry) /\ list # <<>> /\ ~TimeLess(checkNow, list[1].time)
    BY <2>1 DEF CheckFire, IInv, Ordered
  <2>3. 1 \in 1 .. Len(list) /\ list[1] \in Entry
    BY <2>2, LenProperties, ElementOfSeq
  <2>4. /\ a \in Int /\ list[1].time = TimeAt(clock, a) /\ -MaxLate <= a /\ a <= Spread
        /\ a + checkAgo <= Spread /\ checkNow = TimeAt(clock, -checkAgo)
        /\ checkAgo \in 0 .. MaxLate /\ clock \in 0 .. W - 1
    BY <2>3 DEF IInv, Entry, Ordered, CheckOK, Scalars
  <2>. HIDE DEF a
  <2>5. /\ -checkAgo \in Int /\ -Spread <= -checkAgo - a /\ -checkAgo - a <= Spread
        /\ -Spread <= -checkAgo /\ -checkAgo <= Spread /\ -Spread <= a
    BY <2>4, Sizes
  <2>6. TimeLess(TimeAt(clock, -checkAgo), TimeAt(clock, a)) <=> -checkAgo < a
    BY <2>4, <2>5, TimeLessIsLess
  <2>7. ~(-checkAgo < a)
    BY <2>2, <2>4, <2>6
  <2>8. a + checkAgo <= 0
    BY <2>7, <2>4, Sizes
  <2>. QED BY <2>8 DEF a
<1>. QED BY <1>1, SpecIInv, PTL DEF Spec, FiresOnlyExpired

(* sys_timeouts_sleeptime is exact for every width of the clock.           *)
THEOREM SleepTimeCorrect == Spec => []SleepTimeExact
<1>1. IInv => SleepTimeExact
  <2>. SUFFICES ASSUME IInv, list # <<>>
                PROVE  SleepTime = (IF list[1].left < 0 THEN 0 ELSE list[1].left)
    BY DEF SleepTimeExact
  <2>. DEFINE a == list[1].left
  <2>1. 1 \in 1 .. Len(list) /\ list[1] \in Entry
    BY LenProperties, ElementOfSeq DEF IInv, Ordered
  <2>2. /\ a \in Int /\ list[1].time = TimeAt(clock, a) /\ -MaxLate <= a /\ a <= Spread
        /\ clock \in 0 .. W - 1
    BY <2>1 DEF IInv, Entry, Ordered, Scalars
  <2>3. SleepTime = IF TimeLess(TimeAt(clock, a), clock) THEN 0 ELSE Sub32(TimeAt(clock, a), clock)
    BY <2>2 DEF SleepTime
  <2>. HIDE DEF a
  <2>4. TimeLess(TimeAt(clock, a), clock) <=> a < 0
    <3>1. clock = TimeAt(clock, 0)
      BY <2>2, Sizes DEF TimeAt, Add32
    <3>2. /\ -Spread <= a - 0 /\ a - 0 <= Spread /\ -Spread <= a /\ -Spread <= 0 /\ 0 <= Spread
      BY <2>2, Sizes
    <3>. QED BY <2>2, <3>1, <3>2, TimeLessIsLess
  <2>5. a >= 0 => Sub32(TimeAt(clock, a), clock) = a
    BY <2>2, Sizes DEF TimeAt, Add32, Sub32
  <2>. QED BY <2>2, <2>3, <2>4, <2>5 DEF a
<1>. QED BY <1>1, SpecIInv, PTL

-----------------------------------------------------------------------------
(* No timer is lost or started twice.                                      *)
Names(l) == {l[i].h : i \in 1 .. Len(l)}
Distinct(l) == \A i, j \in 1 .. Len(l) : l[i].h = l[j].h => i = j

LEMMA InsertNames ==
  ASSUME NEW l \in Seq(Entry), NEW e \in Entry, Distinct(l), e.h \notin Names(l)
  PROVE  Distinct(Insert(l, e)) /\ Names(Insert(l, e)) = Names(l) \cup {e.h}
<1>. DEFINE k == Place(l, e)
            f == Insert(l, e)
            n == Len(l)
<1>1. n \in Nat /\ k \in 1 .. n + 1
  BY PlaceProperties, LenProperties
<1>2. /\ Len(f) = n + 1
      /\ \A i \in 1 .. n + 1 : f[i] = IF i < k THEN l[i] ELSE IF i = k THEN e ELSE l[i - 1]
  BY InsertProperties
<1>3. \A i, j \in 1 .. n : l[i].h = l[j].h => i = j
  BY DEF Distinct
<1>4. \A i \in 1 .. n : l[i].h # e.h
  BY DEF Names
<1>. HIDE DEF k, f, n
<1>5. \A i \in 1 .. n + 1 : \/ i < k /\ i \in 1 .. n /\ f[i] = l[i]
                            \/ i = k /\ f[i] = e
                            \/ i > k /\ i - 1 \in 1 .. n /\ f[i] = l[i - 1]
  BY <1>1, <1>2
<1>6. \A i, j \in 1 .. n + 1 : f[i].h = f[j].h => i = j
  <2>. SUFFICES ASSUME NEW i \in 1 .. n + 1, NEW j \in 1 .. n + 1, f[i].h = f[j].h, i < j
                PROVE  FALSE
    BY <1>1
  <2>1. CASE j <= k
    <3>1. i < k /\ i \in 1 .. n /\ f[i] = l[i]
      BY <2>1, <1>1, <1>5
    <3>. QED BY <3>1, <2>1, <1>1, <1>3, <1>4, <1>5
  <2>2. CASE j > k
    <3>1. j - 1 \in 1 .. n /\ f[j] = l[j - 1]
      BY <2>2, <1>1, <1>5
    <3>2. CASE i < k
      <4>1. i \in 1 .. n /\ f[i] = l[i] /\ i # j - 1
        BY <2>2, <3>2, <1>1, <1>5
      <4>. QED BY <4>1, <3>1, <1>3
    <3>3. CASE i = k
      BY <3>1, <3>3, <1>1, <1>4, <1>5
    <3>4. CASE i > k
      <4>1. i - 1 \in 1 .. n /\ f[i] = l[i - 1] /\ i - 1 # j - 1
        BY <3>4, <1>1, <1>5
      <4>. QED BY <4>1, <3>1, <1>3
    <3>. QED BY <3>2, <3>3, <3>4, <1>1
  <2>. QED BY <2>1, <2>2, <1>1
<1>7. \A i \in 1 .. n + 1 : f[i].h \in Names(l) \cup {e.h}
  BY <1>5 DEF Names, n
<1>8. \A i \in 1 .. n : \E j \in 1 .. n + 1 : f[j] = l[i]
  <2>. TAKE i \in 1 .. n
  <2>1. CASE i < k
    BY <2>1, <1>1, <1>2
  <2>2. CASE i >= k
    <3>1. i + 1 \in 1 .. n + 1 /\ i + 1 > k /\ (i + 1) - 1 = i
      BY <2>2, <1>1
    <3>. QED BY <3>1, <1>1, <1>5
  <2>. QED BY <2>1, <2>2, <1>1
<1>9. f[k] = e
  BY <1>1, <1>2
<1>10. Names(f) = Names(l) \cup {e.h}
  <2>1. Names(f) = {f[i].h : i \in 1 .. n + 1} /\ Names(l) = {l[i].h : i \in 1 .. n}
    BY <1>2 DEF Names, n
  <2>2. \A x \in Names(l) : x \in Names(f)
    BY <2>1, <1>8
  <2>3. e.h \in Names(f)
    BY <2>1, <1>1, <1>9
  <2>4. \A x \in Names(f) : x \in Names(l) \cup {e.h}
    BY <2>1, <1>7
  <2>. QED BY <2>2, <2>3, <2>4
<1>. QED BY <1>2, <1>6, <1>10 DEF Distinct, f

LEMMA WithoutNames ==
  ASSUME NEW l \in Seq(Entry), NEW k \in 1 .. Len(l), Distinct(l)
  PROVE  Distinct(Without(l, k)) /\ Names(Without(l, k)) = Names(l) \ {l[k].h}
<1>. DEFINE f == Without(l, k)
            n == Len(l)
<1>1. n \in Nat
  BY LenProperties
<1>2. /\ Len(f) = n - 1
      /\ \A i \in 1 .. n - 1 : f[i] = IF i < k THEN l[i] ELSE l[i + 1]
  BY WithoutProperties
<1>3. \A i, j \in 1 .. n : l[i].h = l[j].h => i = j
  BY DEF Distinct
<1>. DEFINE p(i) == IF i < k THEN i ELSE i + 1
<1>4. \A i \in 1 .. n - 1 : p(i) \in 1 .. n /\ p(i) # k /\ f[i] = l[p(i)]
  BY <1>1, <1>2
<1>5. \A i, j \in 1 .. n - 1 : p(i) = p(j) => i = j
  BY <1>1
<1>6. \A i \in 1 .. n : i # k => \E j \in 1 .. n - 1 : p(j) = i
  <2>. SUFFICES ASSUME NEW i \in 1 .. n, i # k PROVE \E j \in 1 .. n - 1 : p(j) = i
    OBVIOUS
  <2>1. CASE i < k
    BY <2>1, <1>1
  <2>2. CASE i > k
    <3>1. i - 1 \in 1 .. n - 1 /\ p(i - 1) = i
      BY <2>2, <1>1
    <3>. QED BY <3>1
  <2>. QED BY <2>1, <2>2, <1>1
<1>. HIDE DEF f, n, p
<1>7. \A i, j \in 1 .. n - 1 : f[i].h = f[j].h => i = j
  BY <1>3, <1>4, <1>5
<1>8. \A i \in 1 .. n - 1 : f[i].h \in Names(l) \ {l[k].h}
  BY <1>3, <1>4, Zenon DEF Names, n
<1>9. \A i \in 1 .. n : l[i].h # l[k].h => \E j \in 1 .. n - 1 : f[j].h = l[i].h
  BY <1>4, <1>6
<1>10. Names(f) = Names(l) \ {l[k].h}
  <2>1. Names(f) = {f[i].h : i \in 1 .. n - 1} /\ Names(l) = {l[i].h : i \in 1 .. n}
    BY <1>2 DEF Names, n
  <2>2. \A x \in Names(l) : x # l[k].h => x \in Names(f)
    BY <2>1, <1>9
  <2>3. \A x \in Names(f) : x \in Names(l) \ {l[k].h}
    BY <2>1, <1>8
  <2>. QED BY <2>2, <2>3
<1>. QED BY <1>2, <1>7, <1>10 DEF Distinct, f

LEMMA UntimeoutNames ==
  ASSUME NEW l \in Seq(Entry), NEW h, Distinct(l)
  PROVE  /\ SysUntimeout(l, h) \in Seq(Entry) /\ Distinct(SysUntimeout(l, h))
         /\ Names(SysUntimeout(l, h)) = Names(l) \ {h}
<1>1. CASE SysUntimeout(l, h) = l /\ \A i \in 1 .. Len(l) : l[i].h # h
  BY <1>1 DEF Names
<1>2. CASE \E k \in 1 .. Len(l) : l[k].h = h /\ SysUntimeout(l, h) = Without(l, k)
  BY <1>2, WithoutNames, WithoutProperties
<1>. QED BY <1>1, <1>2, UntimeoutIsWithout

(* A pool with room for every handler is never empty when a handler that   *)
(* is not in the list is to be added.                                      *)
PoolSuffices == IsFiniteSet(Handlers) /\ Cardinality(Handlers) <= PoolSize

LEMMA RoomLeft ==
  ASSUME PoolSuffices, NEW l \in Seq(Entry), Distinct(l), NEW h \in Handlers, h \notin Names(l)
  PROVE  Len(l) < PoolSize
<1>. DEFINE n == Len(l)
            f == [i \in 1 .. n + 1 |-> IF i <= n THEN l[i].h ELSE h]
<1>1. n \in Nat /\ \A i \in 1 .. n : l[i] \in Entry
  BY LenProperties, ElementOfSeq
<1>2. \A i \in 1 .. n : l[i].h \in Handlers /\ l[i].h # h
  BY <1>1 DEF Entry, Names
<1>3. \A i, j \in 1 .. n : l[i].h = l[j].h => i = j
  BY DEF Distinct
<1>. HIDE DEF n
<1>4. f \in [1 .. n + 1 -> Handlers]
  BY <1>1, <1>2
<1>5. \A i, j \in 1 .. n + 1 : f[i] = f[j] => i = j
  BY <1>1, <1>2, <1>3
<1>6. f \in Injection(1 .. n + 1, Handlers)
  <2>. HIDE DEF f
  <2>. QED BY <1>4, <1>5 DEF Injection, IsInjective
<1>7. Cardinality(1 .. n + 1) <= Cardinality(Handlers)
  BY <1>6, FS_Injection DEF PoolSuffices
<1>8. Cardinality(1 .. n + 1) = n + 1
  <2>1. 1 \in Int /\ n + 1 \in Int /\ ~(1 > n + 1) /\ (n + 1) - 1 + 1 = n + 1
    BY <1>1
  <2>. QED BY <2>1, FS_Interval
<1>9. Cardinality(Handlers) \in Nat
  BY FS_CardinalityType DEF PoolSuffices
<1>. QED BY <1>1, <1>7, <1>8, <1>9, TimeoutsAssumption DEF PoolSuffices, n

LEMMA TimeoutNames ==
  ASSUME PoolSuffices, NEW l \in Seq(Entry), Distinct(l),
         NEW h \in Handlers, h \notin Names(l), NEW time \in 0 .. W - 1, NEW d \in Int
  PROVE  /\ Distinct(TimeoutAbs(l, time, d, h))
         /\ Names(TimeoutAbs(l, time, d, h)) = Names(l) \cup {h}
<1>. DEFINE e == [h |-> h, time |-> time, left |-> d]
<1>1. e \in Entry /\ e.h = h
  BY DEF Entry
<1>2. Len(l) < PoolSize /\ Len(l) \in Nat /\ PoolSize \in Nat
  BY RoomLeft, LenProperties, TimeoutsAssumption
<1>3. TimeoutAbs(l, time, d, h) = Insert(l, e)
  BY <1>2 DEF TimeoutAbs
<1>. HIDE DEF e
<1>. QED BY <1>1, <1>3, InsertNames

(* Lists whose entries have the same handlers in the same places.          *)
LEMMA SameNames ==
  ASSUME NEW l, NEW f, Len(f) = Len(l), \A i \in 1 .. Len(l) : f[i].h = l[i].h
  PROVE  Names(f) = Names(l) /\ (Distinct(l) => Distinct(f))
BY DEF Names, Distinct

LEMMA OlderNames ==
  ASSUME NEW l \in Seq(Entry)
  PROVE  Names(Older(l)) = Names(l) /\ (Distinct(l) => Distinct(Older(l)))
<1>1. Len(l) \in Nat /\ \A i \in 1 .. Len(l) : l[i] \in Entry
  BY LenProperties, ElementOfSeq
<1>2. \A r \in Entry : [r EXCEPT !.left = @ - 1] \in Entry /\ [r EXCEPT !.left = @ - 1].h = r.h
  BY DEF Entry
<1>3. Older(l) \in [1 .. Len(l) -> Entry] /\ \A i \in 1 .. Len(l) : Older(l)[i].h = l[i].h
  BY <1>1, <1>2 DEF Older
<1>4. Len(Older(l)) = Len(l)
  BY <1>1, <1>3, FunctionIsSeq
<1>. QED BY <1>3, <1>4, SameNames

LEMMA RebasedNames ==
  ASSUME NEW l \in Seq(Entry), NEW c
  PROVE  Names(Rebased(l, c)) = Names(l) /\ (Distinct(l) => Distinct(Rebased(l, c)))
<1>. DEFINE f == Rebased(l, c)
            S == {f[i] : i \in 1 .. Len(l)}
<1>1. Len(l) \in Nat /\ \A i \in 1 .. Len(l) : l[i] \in Entry
  BY LenProperties, ElementOfSeq
<1>2. \A r \in Entry : \A t, d : [r EXCEPT !.time = t, !.left = d].h = r.h
  BY DEF Entry
<1>3. \A i \in 1 .. Len(l) : f[i].h = l[i].h
  BY <1>1, <1>2, Zenon DEF Rebased
<1>4. f \in [1 .. Len(l) -> S]
  BY DEF Rebased
<1>5. Len(f) = Len(l)
  BY <1>1, <1>4, FunctionIsSeq
<1>. QED BY <1>3, <1>5, SameNames

(* The invariant in terms of the handlers that are in the list.            *)
Once ==
  /\ Distinct(list)
  /\ cur \in Names(list) => cur \in OneShots
  /\ \A i \in 1 .. started : Table[i] \in Names(list) \/ cur = Table[i]
  /\ tcpActive <=> "tcp" \in Names(list) \/ cur = "tcp"
  /\ pcbs => tcpActive
  /\ pc = "init" => cur = "none" /\ \A h \in Names(list) : \E i \in 1 .. started : h = Table[i]

LEMMA InitOnce == Init => Once
BY Constants DEF Init, Once, Names, Distinct

(* sys_timeout of a handler that is not in the list.                       *)
LEMMA SysTimeoutNames ==
  ASSUME PoolSuffices, Scalars, NEW l \in Seq(Entry), Distinct(l),
         NEW h \in Handlers, h \notin Names(l), NEW d \in 0 .. MaxInterval
  PROVE  /\ Distinct(SysTimeout(l, d, h))
         /\ Names(SysTimeout(l, d, h)) = Names(l) \cup {h}
<1>1. Add32(clock, d) \in 0 .. W - 1 /\ d \in Int
  BY Sizes DEF Scalars, Add32
<1>. QED BY <1>1, TimeoutNames DEF SysTimeout

LEMMA NextOnce ==
  ASSUME PoolSuffices, IInv, Once, [Next]_vars
  PROVE  Once'
<1>. USE DEF HandlerOver, MayCall
<1>0. /\ Scalars /\ list \in Seq(Entry) /\ Len(list) \in Nat /\ DOMAIN list = 1 .. Len(list)
      /\ Distinct(list) /\ Ordered(list, clock)
  BY LenProperties DEF IInv, Ordered, Once
<1>h. \A h \in Names(list) : h \in Handlers
  <2>1. \A i \in 1 .. Len(list) : list[i] \in Entry
    BY <1>0, ElementOfSeq
  <2>2. \A r \in Entry : r.h \in Handlers
    BY DEF Entry
  <2>. QED BY <2>1, <2>2, Zenon DEF Names
<1>1. CASE InitTimer
  <2>. DEFINE c == Table[started + 1]
  <2>1. /\ started \in Nat /\ started + 1 \in 1 .. Len(Table) /\ c \in Cyclic /\ pc = "init"
    BY <1>0, <1>1, Constants DEF InitTimer, Scalars
  <2>2. c \in Handlers /\ c # "tcp" /\ Interval[c] \in 0 .. MaxInterval
    BY <2>1, Constants, Sizes
  <2>3. c \notin Names(list)
    <3>1. DOMAIN Table = 1 .. Len(Table)
      BY TimeoutsAssumption, LenProperties
    <3>2. \A i \in 1 .. started : i \in 1 .. Len(Table) /\ i # started + 1
      BY <2>1, <1>0, Constants DEF Scalars
    <3>3. \A i \in 1 .. started : Table[i] # c
      BY <3>1, <3>2, <2>1, TimeoutsAssumption
    <3>. QED BY <3>3, <2>1 DEF Once
  <2>4. /\ list' = SysTimeout(list, Interval[c], c) /\ started' = started + 1
        /\ UNCHANGED <<clock, pc, cur, tcpActive, pcbs>>
    BY <1>1 DEF InitTimer, runVars, tcpVars
  <2>. HIDE DEF c
  <2>5. Distinct(list') /\ Names(list') = Names(list) \cup {c}
    BY <2>2, <2>3, <2>4, <1>0, SysTimeoutNames
  <2>6. \A i \in 1 .. started' : i \in 1 .. started \/ i = started + 1
    BY <2>1, <2>4
  <2>7. \A i \in 1 .. started' : Table[i] \in Names(list') \/ cur' = Table[i]
    BY <2>4, <2>5, <2>6 DEF Once, c
  <2>8. \A h \in Names(list') : \E i \in 1 .. started' : h = Table[i]
    BY <2>1, <2>4, <2>5 DEF Once, c
  <2>. QED BY <2>1, <2>2, <2>4, <2>5, <2>7, <2>8, Constants, Zenon DEF Once
<1>2. CASE InitDone
  BY <1>2, SMTT(60) DEF InitDone, Once, runVars, tcpVars, Names, Distinct
<1>3. CASE Tick
  <2>1. list' = Older(list) /\ UNCHANGED <<pc, started, cur, tcpActive, pcbs>>
    BY <1>0, <1>3 DEF Tick, tcpVars, Older
  <2>2. Names(list') = Names(list) /\ Distinct(list')
    BY <2>1, <1>0, OlderNames
  <2>. QED BY <2>1, <2>2, Zenon DEF Once
<1>4. ASSUME NEW h \in OneShots, StopTimer(h) PROVE Once'
  <2>1. /\ list' = SysUntimeout(list, h) /\ UNCHANGED <<started, cur, tcpActive, pcbs>>
        /\ pc' # "init" /\ h \notin Cyclic \cup {"tcp"}
    BY <1>4, TimeoutsAssumption, Constants DEF StopTimer, runVars, tcpVars
  <2>2. Distinct(list') /\ Names(list') = Names(list) \ {h}
    BY <2>1, <1>0, UntimeoutNames
  <2>3. \A i \in 1 .. started : Table[i] \in Cyclic
    BY <1>0, Constants DEF Scalars
  <2>. QED BY <2>1, <2>2, <2>3 DEF Once
<1>5. ASSUME NEW h \in OneShots, NEW ms \in Delays, StartTimer(h, ms) PROVE Once'
  <2>. DEFINE l == SysUntimeout(list, h)
  <2>1. /\ list' = SysTimeout(l, ms, h) /\ UNCHANGED <<started, cur, tcpActive, pcbs>>
        /\ pc' # "init" /\ h \notin Cyclic \cup {"tcp"} /\ h \in Handlers
        /\ ms \in 0 .. MaxInterval
    BY <1>5, TimeoutsAssumption, Constants DEF StartTimer, runVars, tcpVars
  <2>2. l \in Seq(Entry) /\ Distinct(l) /\ Names(l) = Names(list) \ {h}
    BY <1>0, UntimeoutNames
  <2>. HIDE DEF l
  <2>3. Distinct(list') /\ Names(list') = Names(list) \cup {h}
    BY <2>1, <2>2, <1>0, SysTimeoutNames
  <2>. QED BY <2>1, <2>3 DEF Once
<1>6. CASE TcpTimerNeeded
  <2>1. "tcp" \in Handlers /\ Interval["tcp"] \in 0 .. MaxInterval /\ "tcp" \notin OneShots
    BY Constants, Sizes
  <2>2. /\ UNCHANGED <<started, cur>> /\ tcpActive' = TRUE /\ pcbs' = TRUE /\ pc' # "init"
    BY <1>6 DEF TcpTimerNeeded, runVars
  <2>3. CASE tcpActive
    BY <2>2, <2>3, <1>6, Zenon DEF TcpTimerNeeded, Once
  <2>4. CASE ~tcpActive
    <3>1. list' = SysTimeout(list, Interval["tcp"], "tcp") /\ "tcp" \notin Names(list) /\ cur # "tcp"
      BY <2>4, <1>6, Zenon DEF TcpTimerNeeded, Once
    <3>2. Distinct(list') /\ Names(list') = Names(list) \cup {"tcp"}
      BY <3>1, <2>1, <1>0, SysTimeoutNames
    <3>. QED BY <3>1, <3>2, <2>2, Zenon DEF Once
  <2>. QED BY <2>3, <2>4
<1>7. CASE TcpPcbsGone
  <2>1. UNCHANGED <<list, pc, started, cur, tcpActive>> /\ pcbs' = FALSE
    BY <1>7 DEF TcpPcbsGone, runVars
  <2>. QED BY <2>1, Zenon DEF Once
<1>8. CASE RestartTimeouts
  <2>1. list' = Rebased(list, clock) /\ UNCHANGED <<pc, started, cur, tcpActive, pcbs>>
    BY <1>8, <1>0, Zenon DEF RestartTimeouts, Rebased, runVars, tcpVars
  <2>2. Names(list') = Names(list) /\ Distinct(list')
    BY <2>1, <1>0, RebasedNames
  <2>. QED BY <2>1, <2>2, Zenon DEF Once
<1>9. CASE CheckBegin \/ CheckEnd
  <2>1. UNCHANGED <<list, started, cur, tcpActive, pcbs>> /\ pc' # "init"
    BY <1>9 DEF CheckBegin, CheckEnd, runVars, tcpVars
  <2>. QED BY <2>1, Zenon DEF Once
<1>11. CASE CheckFire
  <2>1. /\ list # <<>> /\ pc = "loop" /\ pc' = "run" /\ cur' = list[1].h /\ list' = Tail(list)
        /\ UNCHANGED <<started, tcpActive, pcbs>>
    BY <1>11 DEF CheckFire, tcpVars
  <2>2. 1 \in 1 .. Len(list) /\ cur = "none"
    BY <2>1, <1>0 DEF Scalars
  <2>3. list' = Without(list, 1)
    <3>1. /\ Without(list, 1) \in Seq(Entry) /\ Len(Without(list, 1)) = Len(list) - 1
          /\ \A i \in 1 .. Len(list) - 1 :
               Without(list, 1)[i] = IF i < 1 THEN list[i] ELSE list[i + 1]
      BY <1>0, <2>2, WithoutProperties
    <3>2. \A i \in 1 .. Len(list) - 1 : ~(i < 1)
      BY <1>0
    <3>3. /\ Tail(list) \in Seq(Entry) /\ Len(Tail(list)) = Len(list) - 1
          /\ \A i \in 1 .. Len(list) - 1 : Tail(list)[i] = list[i + 1]
      BY <1>0, <2>1, HeadTailProperties
    <3>4. \A i \in 1 .. Len(list) - 1 : Without(list, 1)[i] = list[i + 1]
      BY <3>1, <3>2
    <3>. QED BY <2>1, <3>1, <3>3, <3>4, SeqEqual
  <2>4. Distinct(list') /\ Names(list') = Names(list) \ {cur'}
    BY <2>1, <2>2, <2>3, <1>0, WithoutNames
  <2>5. cur' \in Names(list)
    BY <2>1, <2>2 DEF Names
  <2>6. \A i \in 1 .. started : Table[i] \in Names(list)
    <3>1. \A i \in 1 .. started : Table[i] # "none"
      BY <1>0, Constants DEF Scalars
    <3>. QED BY <3>1, <2>2 DEF Once
  <2>. QED BY <2>1, <2>2, <2>4, <2>5, <2>6, Zenon DEF Once
<1>12. CASE CyclicDone
  <2>1. /\ pc = "run" /\ pc' = "loop" /\ cur \in Cyclic /\ cur' = "none"
        /\ UNCHANGED <<started, tcpActive, pcbs>>
    BY <1>12 DEF CyclicDone, tcpVars
  <2>2. /\ Interval[cur] \in 1 .. MaxInterval /\ late \in 0 .. MaxLate /\ cur \in Handlers
        /\ clock \in 0 .. W - 1 /\ due \in 0 .. W - 1 /\ cur \notin OneShots /\ cur # "tcp"
    BY <2>1, <1>0, Constants, TimeoutsAssumption DEF Scalars
  <2>3. /\ Add32(due, Interval[cur]) \in 0 .. W - 1 /\ Add32(clock, Interval[cur]) \in 0 .. W - 1
        /\ Interval[cur] \in Int /\ Interval[cur] - late \in Int
    BY <2>2, Sizes DEF Add32
  <2>4. \E t \in 0 .. W - 1, d \in Int : list' = TimeoutAbs(list, t, d, cur)
    BY <2>3, <1>12, Zenon DEF CyclicDone
  <2>5. cur \notin Names(list)
    BY <2>2, Zenon DEF Once
  <2>6. Distinct(list') /\ Names(list') = Names(list) \cup {cur}
    BY <2>2, <2>4, <2>5, <1>0, TimeoutNames
  <2>7. "none" \notin Names(list')
    BY <2>2, <2>6, <1>h, Constants
  <2>. QED BY <2>1, <2>2, <2>6, <2>7, Zenon DEF Once
<1>13. CASE TcpDone
  <2>1. /\ pc = "run" /\ pc' = "loop" /\ cur = "tcp" /\ cur' = "none" /\ UNCHANGED <<started, pcbs>>
        /\ tcpActive' = pcbs
        /\ list' = IF pcbs THEN SysTimeout(list, Interval["tcp"], "tcp") ELSE list
    BY <1>13 DEF TcpDone
  <2>2. "tcp" \in Handlers /\ Interval["tcp"] \in 0 .. MaxInterval /\ "tcp" \notin OneShots \cup Cyclic
    BY Constants, Sizes
  <2>3. "tcp" \notin Names(list)
    BY <2>1, <2>2, Zenon DEF Once
  <2>4. \A i \in 1 .. started : Table[i] # "tcp"
    BY <2>2, <1>0, Constants DEF Scalars
  <2>5. CASE pcbs
    <3>1. Distinct(list') /\ Names(list') = Names(list) \cup {"tcp"}
      BY <2>1, <2>2, <2>3, <2>5, <1>0, SysTimeoutNames
    <3>2. "none" \notin Names(list')
      BY <3>1, <1>h, Constants
    <3>. QED BY <2>1, <2>4, <2>5, <3>1, <3>2, Zenon DEF Once
  <2>6. CASE ~pcbs
    <3>1. list' = list /\ "none" \notin Names(list)
      BY <2>1, <2>6, <1>h, Constants
    <3>. QED BY <2>1, <2>3, <2>4, <2>6, <3>1, Zenon DEF Once
  <2>. QED BY <2>5, <2>6
<1>14. CASE OneShotDone
  <2>1. /\ pc = "run" /\ pc' = "loop" /\ cur \in OneShots /\ cur' = "none"
        /\ UNCHANGED <<list, started, tcpActive, pcbs>>
    BY <1>14 DEF OneShotDone, tcpVars
  <2>2. "none" \notin Names(list) /\ cur \notin Cyclic \cup {"tcp"}
    BY <2>1, <1>h, Constants, TimeoutsAssumption
  <2>3. \A i \in 1 .. started : Table[i] \in Cyclic
    BY <1>0, Constants DEF Scalars
  <2>. QED BY <2>1, <2>2, <2>3, Zenon DEF Once
<1>15. CASE UNCHANGED vars
  BY <1>15, Zenon DEF vars, runVars, tcpVars, Once
<1>. QED
  BY <1>1, <1>2, <1>3, <1>4, <1>5, <1>6, <1>7, <1>8, <1>9, <1>11, <1>12,
     <1>13, <1>14, <1>15, Zenon DEF Next, CheckStep

(* With a pool that has room for every handler, no timer is ever lost and  *)
(* none is started twice.  In lwipopts.h the pool has 8 entries; see       *)
(* README.md for who competes for them.                                    *)
THEOREM NoTimerLost ==
  ASSUME PoolSuffices
  PROVE  Spec => []EveryTimerOnce
<1>1. IInv /\ Once => EveryTimerOnce
  <2>. SUFFICES ASSUME IInv, Once PROVE EveryTimerOnce
    OBVIOUS
  <2>1. DOMAIN list = 1 .. Len(list)
    BY LenProperties DEF IInv, Ordered
  <2>2. \A h : Pending(h) <=> h \in Names(list)
    BY <2>1 DEF Pending, Matching, Names
  <2>. QED BY <2>1, <2>2 DEF Once, EveryTimerOnce, Distinct, Names
<1>2. IInv /\ Once /\ [Next]_vars => Once'
  BY NextOnce
<1>. QED BY <1>1, <1>2, InitOnce, SpecIInv, PTL DEF Spec

=============================================================================
