--------------------------- MODULE AlignmentProofs ---------------------------
(***************************************************************************)
(* Proofs about Alignment for any requests whose series, limits and        *)
(* options have the types that RequestTypes names: the search keeps to its *)
(* limits and to distinct windows, sampling covers its range, the path is  *)
(* the cheapest of all the ways through the band, the mapping follows the  *)
(* path and keeps times in order, and no call fails of what the engine has *)
(* made up itself.                                                         *)
(*                                                                         *)
(* Loops are functions over an interval, and induction over an interval is *)
(* by the least element of a finite set of numbers: the lemmas on Loop say *)
(* what each computes.  The cheapest path rests on Follows: a cell costs   *)
(* what the best step to it does.  Along a way the cells never cost more   *)
(* than the way (no way is cheaper than its cell), and the way back from a *)
(* cell costs what the cell does.                                          *)
(*                                                                         *)
(* The mapping rests on Splitting, what the stack of simplifyRdp holds at  *)
(* every step, and on Spaced: samples never come closer than a nanosecond, *)
(* so that rounding to nanoseconds leaves the points apart.                *)
(***************************************************************************)
EXTENDS Alignment, FiniteSetTheorems, SequenceTheorems, WellFoundedInduction, TLAPS

-----------------------------------------------------------------------------
(* Least elements, induction over an interval, and what a loop computes.   *)

(* A finite set of numbers that is not empty has a least one.              *)
LEMMA FiniteMin ==
  ASSUME NEW S \in SUBSET Int, IsFiniteSet(S), S # {}
  PROVE  \E m \in S : \A n \in S : m <= n
<1> DEFINE Below(x) == {y \in S : y <= x}
           T == {t \in SUBSET S : \E x \in S : t = Below(x)}
<1>1. T \subseteq FiniteSubsetsOf(S)
  BY FS_Subset DEF FiniteSubsetsOf
<1>2. T # {}
  <2>1. PICK x \in S : TRUE
    OBVIOUS
  <2>2. Below(x) \in T
    BY <2>1
  <2> QED BY <2>2
<1>3. IsWellFoundedOn(StrictSubsetOrdering(S), FiniteSubsetsOf(S))
  BY FS_StrictSubsetOrderingWellFounded
<1>4. \E t \in T : \A u \in T : ~(<<u, t>> \in StrictSubsetOrdering(S))
  <2> HIDE DEF T
  <2> QED BY <1>1, <1>2, <1>3, WFMin
<1>5. PICK m \in S : \A u \in T : ~(<<u, Below(m)>> \in StrictSubsetOrdering(S))
  BY <1>4
<1>6. ASSUME NEW n \in S, n < m PROVE FALSE
  <2>1. Below(n) \in T
    OBVIOUS
  <2>2. Below(n) \subseteq Below(m) /\ Below(n) # Below(m) /\ Below(m) \subseteq S
    <3>1. m \in Below(m) /\ m \notin Below(n)
      BY <1>6
    <3>2. \A y \in Below(n) : y \in Below(m)
      BY <1>6
    <3> QED BY <3>1, <3>2
  <2>3. <<Below(n), Below(m)>> \in StrictSubsetOrdering(S)
    BY <2>2 DEF StrictSubsetOrdering
  <2> QED BY <1>5, <2>1, <2>3
<1> QED BY <1>6

(* A least element is what Min returns.                                    *)
LEMMA MinOf ==
  ASSUME NEW S \in SUBSET Int, NEW m \in S, \A n \in S : m <= n
  PROVE  Min(S) = m
<1>1. Min(S) \in S /\ \A n \in S : Min(S) <= n
  BY DEF Min
<1>2. Min(S) \in Int /\ m \in Int /\ Min(S) <= m /\ m <= Min(S)
  BY <1>1
<1> QED BY <1>2

(* A greatest element is what Max returns.                                 *)
LEMMA MaxOf ==
  ASSUME NEW S \in SUBSET Int, NEW m \in S, \A n \in S : n <= m
  PROVE  Max(S) = m
<1>1. Max(S) \in S /\ \A n \in S : Max(S) >= n
  BY DEF Max
<1>2. Max(S) \in Int /\ m \in Int /\ Max(S) <= m /\ m <= Max(S)
  BY <1>1
<1> QED BY <1>2

(* Min of a finite set is its least element.                               *)
LEMMA MinIs ==
  ASSUME NEW S \in SUBSET Int, IsFiniteSet(S), S # {}
  PROVE  Min(S) \in S /\ \A n \in S : Min(S) <= n
BY FiniteMin DEF Min

(* Max of a finite set is its greatest element.                            *)
LEMMA MaxIs ==
  ASSUME NEW S \in SUBSET Int, IsFiniteSet(S), S # {}
  PROVE  Max(S) \in S /\ \A n \in S : n <= Max(S)
<1> DEFINE T == {-x : x \in S}
<1>1. T \in SUBSET Int /\ T # {}
  <2>1. \A x \in S : -x \in Int
    OBVIOUS
  <2>2. PICK x \in S : TRUE
    OBVIOUS
  <2>3. -x \in T
    BY <2>2
  <2> QED BY <2>1, <2>3
<1>2. IsFiniteSet(T)
  <2> DEFINE f == [x \in S |-> -x]
  <2>1. f \in Surjection(S, T)
    BY DEF Surjection
  <2> HIDE DEF f, T
  <2> QED BY <2>1, FS_Surjection
<1>3. PICK m \in T : \A n \in T : m <= n
  BY <1>1, <1>2, FiniteMin
<1>4. PICK x \in S : m = -x
  OBVIOUS
<1>5. \A n \in S : n <= x
  <2> TAKE n \in S
  <2>1. -n \in T
    OBVIOUS
  <2> QED BY <1>3, <1>4, <2>1
<1> QED BY <1>4, <1>5 DEF Max

(* Min and Max of two numbers.                                             *)
LEMMA MinMaxTwo ==
  ASSUME NEW x \in Int, NEW y \in Int
  PROVE  /\ Min({x, y}) = IF x <= y THEN x ELSE y
         /\ Max({x, y}) = IF x <= y THEN y ELSE x
<1>1. Min({x, y}) = IF x <= y THEN x ELSE y
  <2> DEFINE m == IF x <= y THEN x ELSE y
  <2>1. m \in {x, y} /\ {x, y} \in SUBSET Int /\ \A n \in {x, y} : m <= n
    OBVIOUS
  <2> HIDE DEF m
  <2>2. Min({x, y}) = m
    BY <2>1, MinOf
  <2> QED BY <2>2 DEF m
<1>2. Max({x, y}) = IF x <= y THEN y ELSE x
  <2> DEFINE m == IF x <= y THEN y ELSE x
  <2>1. m \in {x, y} /\ {x, y} \in SUBSET Int /\ \A n \in {x, y} : n <= m
    OBVIOUS
  <2> HIDE DEF m
  <2>2. Max({x, y}) = m
    BY <2>1, MaxOf
  <2> QED BY <2>2 DEF m
<1> QED BY <1>1, <1>2

(* Min and Max of an interval are its ends.                                *)
LEMMA MinMaxInterval ==
  ASSUME NEW a \in Int, NEW b \in Int, a <= b
  PROVE  Min(a..b) = a /\ Max(a..b) = b
<1>0. /\ a..b \in SUBSET Int /\ a \in a..b /\ b \in a..b
      /\ \A n \in a..b : a <= n /\ n <= b
  OBVIOUS
<1>1. Min(a..b) = a
  BY <1>0, MinOf
<1>2. Max(a..b) = b
  BY <1>0, MaxOf
<1> QED BY <1>1, <1>2

(* Induction over an interval, on a set of its elements.                   *)
LEMMA IntervalInduction ==
  ASSUME NEW a \in Int, NEW b \in Int, NEW S,
         a <= b => a \in S,
         \A k \in (a + 1)..b : k - 1 \in S => k \in S
  PROVE  \A k \in a..b : k \in S
<1> SUFFICES ASSUME NEW d \in a..b, d \notin S PROVE FALSE
  OBVIOUS
<1> DEFINE T == {k \in a..b : k \notin S}
<1>1. T \in SUBSET Int /\ T # {}
  OBVIOUS
<1>2. IsFiniteSet(T)
  BY FS_Interval, FS_Subset
<1>3. PICK m \in T : \A n \in T : m <= n
  <2> HIDE DEF T
  <2> QED BY <1>1, <1>2, FiniteMin
<1>4. m # a /\ m \in (a + 1)..b
  OBVIOUS
<1>5. m - 1 \notin T /\ m - 1 \in a..b
  BY <1>3, <1>4
<1> QED BY <1>4, <1>5

(* What a loop has at the first index, and at each of the others from the  *)
(* one before.                                                             *)
LEMMA LoopComputes ==
  ASSUME NEW a \in Int, NEW b \in Int, a <= b, NEW V, NEW initial \in V,
         NEW next \in [(a + 1)..b -> [V -> V]]
  PROVE  /\ Loop(a, b, initial, next) \in [a..b -> V]
         /\ Loop(a, b, initial, next)[a] = initial
         /\ \A k \in (a + 1)..b :
                Loop(a, b, initial, next)[k] = next[k][Loop(a, b, initial, next)[k - 1]]
<1> DEFINE Is(g, c) == g = [k \in a..c |-> IF k = a THEN initial ELSE next[k][g[k - 1]]]
           S == {c \in a..b : \E g \in [a..c -> V] : Is(g, c)}
<1>1. a \in S
  <2> DEFINE g == [k \in a..a |-> initial]
  <2>1. g \in [a..a -> V]
    OBVIOUS
  <2>2. Is(g, a)
    OBVIOUS
  <2>3. a \in a..b
    OBVIOUS
  <2> HIDE DEF g
  <2>4. \E e \in [a..a -> V] : Is(e, a)
    BY <2>1, <2>2
  <2> QED BY <2>3, <2>4
<1>2. ASSUME NEW c \in (a + 1)..b, c - 1 \in S PROVE c \in S
  <2>1. PICK g \in [a..(c - 1) -> V] : Is(g, c - 1)
    BY <1>2
  <2> DEFINE h == [k \in a..c |-> IF k = c THEN next[c][g[c - 1]] ELSE g[k]]
  <2>2. c - 1 \in a..(c - 1) /\ c \in (a + 1)..b /\ next[c] \in [V -> V] /\ g[c - 1] \in V
    BY <1>2
  <2>3. h \in [a..c -> V]
    BY <2>1, <2>2
  <2>4. ASSUME NEW k \in a..c PROVE h[k] = IF k = a THEN initial ELSE next[k][h[k - 1]]
    <3>1. CASE k = c
      <4>1. h[k - 1] = g[c - 1] /\ k # a
        BY <1>2, <3>1
      <4> QED BY <3>1, <4>1
    <3>2. CASE k # c
      <4>1. k \in a..(c - 1) /\ h[k] = g[k]
        BY <3>2
      <4>2. k # a => k - 1 \in a..c /\ k - 1 # c /\ h[k - 1] = g[k - 1]
        BY <3>2
      <4>3. g[k] = IF k = a THEN initial ELSE next[k][g[k - 1]]
        BY <2>1, <4>1
      <4> QED BY <4>1, <4>2, <4>3
    <3> QED BY <3>1, <3>2
  <2>5. Is(h, c)
    <3> HIDE DEF h
    <3>1. h = [k \in a..c |-> h[k]]
      BY <2>3
    <3> QED BY <2>4, <3>1
  <2> HIDE DEF h
  <2>6. \E e \in [a..c -> V] : Is(e, c)
    BY <2>3, <2>5
  <2>7. c \in a..b
    OBVIOUS
  <2> QED BY <2>6, <2>7
<1>3. b \in S
  <2> HIDE DEF S
  <2>1. \A k \in a..b : k \in S
    BY <1>1, <1>2, IntervalInduction
  <2> QED BY <2>1
<1>4. PICK g \in [a..b -> V] : Is(g, b)
  BY <1>3
<1> DEFINE L == Loop(a, b, initial, next)
<1>5. L = CHOOSE at : Is(at, b)
  BY DEF Loop
<1>6. Is(L, b)
  <2> HIDE DEF L
  <2> QED BY <1>4, <1>5
<1> DEFINE R == {k \in a..b : L[k] \in V}
<1> HIDE DEF L
<1>7. a \in R
  BY <1>6
<1>8. ASSUME NEW k \in (a + 1)..b, k - 1 \in R PROVE k \in R
  <2>1. k \in a..b /\ k # a /\ L[k] = next[k][L[k - 1]]
    BY <1>6
  <2>2. next[k] \in [V -> V] /\ L[k - 1] \in V
    BY <1>8
  <2> QED BY <2>1, <2>2
<1>9. \A k \in a..b : L[k] \in V
  <2>1. \A k \in a..b : k \in R
    <3> HIDE DEF R
    <3> QED BY <1>7, <1>8, IntervalInduction
  <2> QED BY <2>1
<1>10. L \in [a..b -> V]
  BY <1>6, <1>9
<1>11. L[a] = initial /\ \A k \in (a + 1)..b : L[k] = next[k][L[k - 1]]
  BY <1>6
<1> QED BY <1>10, <1>11 DEF L
(* The same from 0.                                                        *)
LEMMA Induction ==
  ASSUME NEW n \in Nat, NEW S, 0 \in S,
         \A k \in 1..n : k - 1 \in S => k \in S
  PROVE  \A k \in 0..n : k \in S
<1>1. 0 \in Int /\ n \in Int /\ (0 + 1)..n = 1..n
  OBVIOUS
<1> QED BY <1>1, IntervalInduction

(* The same, of a loop from 0.                                             *)
LEMMA LoopFromZero ==
  ASSUME NEW n \in Nat, NEW V, NEW initial \in V,
         NEW next \in [1..n -> [V -> V]]
  PROVE  /\ Loop(0, n, initial, next) \in [0..n -> V]
         /\ Loop(0, n, initial, next)[0] = initial
         /\ \A k \in 1..n : Loop(0, n, initial, next)[k] = next[k][Loop(0, n, initial, next)[k - 1]]
<1>1. 0 \in Int /\ n \in Int /\ 0 <= n /\ (0 + 1)..n = 1..n
  OBVIOUS
<1> QED BY <1>1, LoopComputes

(* The same, of a loop from 1.                                             *)
LEMMA LoopFromOne ==
  ASSUME NEW n \in Nat, n >= 1, NEW V, NEW initial \in V,
         NEW next \in [2..n -> [V -> V]]
  PROVE  /\ Loop(1, n, initial, next) \in [1..n -> V]
         /\ Loop(1, n, initial, next)[1] = initial
         /\ \A k \in 2..n : Loop(1, n, initial, next)[k] = next[k][Loop(1, n, initial, next)[k - 1]]
<1>1. 1 \in Int /\ n \in Int /\ 1 <= n /\ (1 + 1)..n = 2..n
  OBVIOUS
<1> QED BY <1>1, LoopComputes

-----------------------------------------------------------------------------
(* Binary search.                                                          *)

(* A strictly ascending array of integers ascends by one at least at every *)
(* index.                                                                  *)
LEMMA AscendingGaps ==
  ASSUME NEW a \in Int, NEW b \in Int, NEW f \in [a..b -> Int],
         \A i \in (a + 1)..b : f[i - 1] < f[i]
  PROVE  \A i, j \in a..b : i <= j => f[j] - f[i] >= j - i
<1> SUFFICES ASSUME NEW i \in a..b
             PROVE  \A j \in i..b : f[j] - f[i] >= j - i
  OBVIOUS
<1> DEFINE S == {j \in i..b : f[j] - f[i] >= j - i}
<1>1. i \in S
  OBVIOUS
<1>2. ASSUME NEW j \in (i + 1)..b, j - 1 \in S PROVE j \in S
  <2>1. j \in (a + 1)..b /\ j - 1 \in a..b /\ j \in a..b
    OBVIOUS
  <2>2. f[j - 1] < f[j] /\ f[j - 1] \in Int /\ f[j] \in Int /\ f[i] \in Int
    BY <2>1
  <2>3. f[j - 1] - f[i] >= (j - 1) - i
    BY <1>2
  <2> QED BY <2>1, <2>2, <2>3
<1>3. i \in Int /\ b \in Int
  OBVIOUS
<1>4. \A j \in i..b : j \in S
  <2> HIDE DEF S
  <2> QED BY <1>1, <1>2, <1>3, IntervalInduction
<1> QED BY <1>4

(* The middle of an interval lies in it, below its end.                    *)
LEMMA MiddleIsBetween ==
  ASSUME NEW low \in Int, NEW high \in Int, low < high
  PROVE  /\ (low + high) \div 2 \in Int
         /\ low <= (low + high) \div 2 /\ (low + high) \div 2 < high
OBVIOUS

(* The binary search finds where the values of an interval reach the       *)
(* target.                                                                 *)
LEMMA SearchFinds ==
  ASSUME NEW a \in Int, NEW b \in Int, NEW values \in [a..b -> Int], NEW target \in Int,
         \A i, j \in a..b : i <= j => values[i] <= values[j],
         NEW low \in Int, NEW high \in Int, a <= low, low <= high, high <= b + 1
  PROVE  /\ SearchFrom(values, target, low, high) \in low..high
         /\ \A i \in low..(SearchFrom(values, target, low, high) - 1) : values[i] < target
         /\ \A i \in SearchFrom(values, target, low, high)..(high - 1) : target <= values[i]
<1> DEFINE V == (low..high) \X (low..high)
           next == [k \in 1..(high - low) |-> [v \in V |-> Narrowed(values, target, v[1], v[2])]]
           L == Loop(0, high - low, <<low, high>>, next)
<1>1. ASSUME NEW l \in low..high, NEW h \in low..high
      PROVE  /\ Narrowed(values, target, l, h) \in V
             /\ l < h => (l + h) \div 2 \in a..b /\ values[(l + h) \div 2] \in Int
  <2>1. CASE l < h
    <3>1. /\ (l + h) \div 2 \in Int /\ l <= (l + h) \div 2 /\ (l + h) \div 2 < h
      BY <2>1, MiddleIsBetween
    <3> QED BY SMTT(30), <2>1, <3>1 DEF Narrowed
  <2>2. CASE ~(l < h)
    BY <2>2 DEF Narrowed
  <2> QED BY <2>1, <2>2
<1>2. next \in [1..(high - low) -> [V -> V]]
  <2>1. \A v \in V : Narrowed(values, target, v[1], v[2]) \in V
    BY <1>1
  <2> HIDE DEF V
  <2> QED BY <2>1
<1>3. /\ L \in [0..(high - low) -> V] /\ L[0] = <<low, high>>
      /\ \A k \in 1..(high - low) : L[k] = next[k][L[k - 1]]
  <2> DEFINE start == <<low, high>>
  <2>1. high - low \in Nat /\ start \in V
    OBVIOUS
  <2> HIDE DEF next, V, start
  <2>2. /\ Loop(0, high - low, start, next) \in [0..(high - low) -> V]
        /\ Loop(0, high - low, start, next)[0] = start
        /\ \A k \in 1..(high - low) :
               Loop(0, high - low, start, next)[k] = next[k][Loop(0, high - low, start, next)[k - 1]]
    BY <1>2, <2>1, LoopFromZero
  <2> QED BY <2>2 DEF start
<1> DEFINE Good(k) ==
             /\ L[k][1] <= L[k][2]
             /\ L[k][2] - L[k][1] <= high - low - k \/ L[k][1] = L[k][2]
             /\ \A i \in low..(L[k][1] - 1) : values[i] < target
             /\ \A i \in L[k][2]..(high - 1) : target <= values[i]
           S == {k \in 0..(high - low) : Good(k)}
<1> HIDE DEF L
<1>4. 0 \in S
  BY <1>3
<1>5. ASSUME NEW k \in 1..(high - low), k - 1 \in S PROVE k \in S
  <2>1. k - 1 \in 0..(high - low) /\ k \in 0..(high - low)
    OBVIOUS
  <2>2. PICK l \in low..high, h \in low..high : L[k - 1] = <<l, h>>
    <3>1. L[k - 1] \in V
      <4> HIDE DEF V, next
      <4> QED BY <1>3, <2>1
    <3>2. \A w \in V : \E l, h \in low..high : w = <<l, h>>
      OBVIOUS
    <3> HIDE DEF V
    <3> QED BY <3>1, <3>2
  <2>3. L[k] = Narrowed(values, target, l, h)
    <3>1. <<l, h>> \in V
      OBVIOUS
    <3>2. next[k][<<l, h>>] = Narrowed(values, target, l, h)
      BY <3>1
    <3> QED BY <1>3, <2>2, <3>2
  <2>4. Good(k - 1)
    BY <1>5
  <2>5. /\ l <= h
        /\ h - l <= high - low - (k - 1) \/ l = h
        /\ \A i \in low..(l - 1) : values[i] < target
        /\ \A i \in h..(high - 1) : target <= values[i]
    BY <2>2, <2>4
  <2>6. CASE l >= h
    <3>1. L[k] = <<l, h>> /\ l = h
      BY <2>3, <2>5, <2>6 DEF Narrowed
    <3> QED BY <2>1, <2>5, <3>1
  <2>7. CASE l < h
    <3> DEFINE m == (l + h) \div 2
    <3>1. m \in Int /\ l <= m /\ m < h /\ m \in a..b /\ values[m] \in Int
      BY <1>1, <2>7, MiddleIsBetween
    <3> HIDE DEF m
    <3>2. CASE values[m] < target
      <4>1. L[k] = <<m + 1, h>>
        BY <2>3, <2>7, <3>2 DEF Narrowed, m
      <4>2. \A i \in low..m : values[i] < target
        <5> TAKE i \in low..m
        <5>1. i \in a..b /\ i <= m
          BY <3>1
        <5>2. values[i] <= values[m] /\ values[i] \in Int
          BY <3>1, <5>1
        <5> QED BY <3>1, <3>2, <5>2
      <4> QED BY <2>1, <2>5, <2>7, <3>1, <4>1, <4>2
    <3>3. CASE ~(values[m] < target)
      <4>1. L[k] = <<l, m>>
        BY <2>3, <2>7, <3>3 DEF Narrowed, m
      <4>2. \A i \in m..(high - 1) : target <= values[i]
        <5> TAKE i \in m..(high - 1)
        <5>1. i \in a..b /\ m <= i
          BY <3>1
        <5>2. values[m] <= values[i] /\ values[i] \in Int
          BY <3>1, <5>1
        <5> QED BY <3>1, <3>3, <5>2
      <4> QED BY <2>1, <2>5, <2>7, <3>1, <4>1, <4>2
    <3> QED BY <3>2, <3>3
  <2> QED BY <2>6, <2>7
<1>6. \A k \in 0..(high - low) : k \in S
  <2> HIDE DEF S
  <2>1. high - low \in Nat
    OBVIOUS
  <2> QED BY <1>4, <1>5, <2>1, Induction
<1>7. Good(high - low)
  <2>1. high - low \in 0..(high - low)
    OBVIOUS
  <2>2. high - low \in S
    BY <1>6, <2>1
  <2> QED BY <2>2
<1>8. PICK l \in low..high, h \in low..high : L[high - low] = <<l, h>>
  <2>1. high - low \in 0..(high - low)
    OBVIOUS
  <2>2. L[high - low] \in V
    <3> HIDE DEF V, next
    <3> QED BY <1>3, <2>1
  <2> QED BY <2>2
<1>9. l = h
  BY <1>7, <1>8
<1>10. SearchFrom(values, target, low, high) = L[high - low][1]
  BY DEF SearchFrom, L
<1>11. L[high - low][1] = l /\ L[high - low][2] = l
  BY <1>8, <1>9
<1> HIDE DEF next, V
<1> QED BY <1>7, <1>9, <1>10, <1>11

-----------------------------------------------------------------------------
(* Quotients.                                                              *)

(* A product ascends with its factor.                                      *)
LEMMA Products ==
  ASSUME NEW x \in Int, NEW y \in Int, NEW z \in Nat, x <= y
  PROVE  x * z <= y * z /\ x * z \in Int /\ y * z \in Int
OBVIOUS

(* A quotient is rounded down.                                             *)
LEMMA Quotient ==
  ASSUME NEW x \in Int, NEW y \in Nat \ {0}
  PROVE  /\ x \div y \in Int
         /\ (x \div y) * y <= x /\ x < (x \div y) * y + y
OBVIOUS

(* A multiple that fits bounds the quotient below.                         *)
LEMMA QuotientAtLeast ==
  ASSUME NEW x \in Int, NEW y \in Nat \ {0}, NEW k \in Int, k * y <= x
  PROVE  k <= x \div y
<1> DEFINE q == x \div y
<1>1. q \in Int /\ x < q * y + y
  BY Quotient
<1> HIDE DEF q
<1>2. CASE q + 1 <= k
  <2>1. (q + 1) * y <= k * y
    BY <1>1, <1>2, Products
  <2>2. (q + 1) * y = q * y + y
    BY <1>1
  <2> QED BY <1>1, <2>1, <2>2
<1> QED BY <1>1, <1>2 DEF q

(* A multiple that covers bounds the quotient above.                       *)
LEMMA QuotientAtMost ==
  ASSUME NEW x \in Int, NEW y \in Nat \ {0}, NEW k \in Int, x <= k * y
  PROVE  x \div y <= k
<1> DEFINE q == x \div y
<1>1. q \in Int /\ q * y <= x
  BY Quotient
<1> HIDE DEF q
<1>2. CASE k + 1 <= q
  <2>1. (k + 1) * y <= q * y
    BY <1>1, <1>2, Products
  <2>2. (k + 1) * y = k * y + y
    OBVIOUS
  <2> QED BY <1>1, <2>1, <2>2
<1> QED BY <1>1, <1>2 DEF q

(* A quotient ascends with its dividend.                                   *)
LEMMA QuotientMonotone ==
  ASSUME NEW x \in Int, NEW z \in Int, NEW y \in Nat \ {0}, x <= z
  PROVE  x \div y <= z \div y
<1>1. x \div y \in Int /\ (x \div y) * y <= z
  BY Quotient
<1> QED BY <1>1, QuotientAtLeast

(* A step that is no shorter than the divisor raises the quotient.         *)
LEMMA QuotientRises ==
  ASSUME NEW x \in Int, NEW z \in Int, NEW y \in Nat \ {0}, x + y <= z
  PROVE  x \div y < z \div y
<1>1. x \div y \in Int /\ (x \div y) * y <= x /\ z \div y \in Int
  BY Quotient
<1>2. (x \div y + 1) * y = (x \div y) * y + y
  BY <1>1
<1>3. x \div y + 1 <= z \div y
  BY <1>1, <1>2, QuotientAtLeast
<1> QED BY <1>1, <1>3

-----------------------------------------------------------------------------
(* Series.                                                                 *)

Rising(times) == \A i \in 1..(Count(times) - 1) : times[i - 1] < times[i]

(* A series that has been validated.                                       *)
Valid(s) == IsSeries(s) /\ Count(s.timestamps) >= 2 /\ Rising(s.timestamps)

(* Count is the length of an array from 0.                                 *)
LEMMA CountOf ==
  ASSUME NEW n \in Nat, NEW f, DOMAIN f = 0..(n - 1)
  PROVE  Count(f) = n
<1>1. Cardinality(0..(n - 1)) = n
  BY FS_Interval
<1> QED BY <1>1 DEF Count

(* The parts of a valid series: as many times as values, and the times     *)
(* ascend.                                                                 *)
LEMMA ValidParts ==
  ASSUME NEW s, Valid(s), NEW n, n = Count(s.timestamps)
  PROVE  /\ n \in Nat /\ n >= 2
         /\ s.timestamps \in [0..(n - 1) -> Int] /\ s.values \in [0..(n - 1) -> Int]
         /\ Count(s.values) = n
         /\ Final(s.timestamps) = s.timestamps[n - 1] /\ Final(s.values) = s.values[n - 1]
         /\ \A i, j \in 0..(n - 1) : i <= j => s.timestamps[j] - s.timestamps[i] >= j - i
         /\ \A i, j \in 0..(n - 1) : i <= j => s.timestamps[i] <= s.timestamps[j]
         /\ \A i, j \in 0..(n - 1) : i < j => s.timestamps[i] < s.timestamps[j]
         /\ 0 \in 0..(n - 1) /\ n - 1 \in 0..(n - 1)
<1>1. /\ n \in Nat /\ n >= 2
      /\ s \in [timestamps : [0..(n - 1) -> Int], values : [0..(n - 1) -> Int]]
  BY DEF Valid, IsSeries
<1>2. s.timestamps \in [0..(n - 1) -> Int] /\ s.values \in [0..(n - 1) -> Int]
  BY <1>1
<1>3. Count(s.values) = n
  BY <1>1, <1>2, CountOf
<1> DEFINE f == s.timestamps
<1>4. \A i, j \in 0..(n - 1) : i <= j => f[j] - f[i] >= j - i
  <2>1. \A i \in (0 + 1)..(n - 1) : f[i - 1] < f[i]
    BY <1>1 DEF Valid, Rising
  <2>2. 0 \in Int /\ n - 1 \in Int /\ f \in [0..(n - 1) -> Int]
    BY <1>1, <1>2
  <2> HIDE DEF f
  <2> QED BY <2>1, <2>2, AscendingGaps
<1>5. \A i \in 0..(n - 1) : f[i] \in Int
  BY <1>2
<1> HIDE DEF f
<1>6. ASSUME NEW i \in 0..(n - 1), NEW j \in 0..(n - 1)
      PROVE  /\ i <= j => f[i] <= f[j]
             /\ i < j => f[i] < f[j]
  BY <1>1, <1>4, <1>5
<1> QED BY <1>1, <1>2, <1>3, <1>4, <1>6 DEF f, Final

(* lowerBound: the times before it are earlier, the others are not.        *)
LEMMA LowerBound ==
  ASSUME NEW s, Valid(s), NEW n, n = Count(s.timestamps), NEW t \in Int
  PROVE  /\ lowerBound(s.timestamps, t) \in 0..n
         /\ \A i \in 0..(n - 1) : i < lowerBound(s.timestamps, t) => s.timestamps[i] < t
         /\ \A i \in 0..(n - 1) : lowerBound(s.timestamps, t) <= i => t <= s.timestamps[i]
<1> DEFINE r == lowerBound(s.timestamps, t)
           f == s.timestamps
<1>1. n \in Nat /\ f \in [0..(n - 1) -> Int] /\ \A i, j \in 0..(n - 1) : i <= j => f[i] <= f[j]
  BY ValidParts
<1>2. r = SearchFrom(f, t, 0, n)
  BY DEF lowerBound
<1>3. 0 \in Int /\ n - 1 \in Int /\ n \in Int /\ 0 <= n /\ n <= (n - 1) + 1 /\ 0 <= 0
  BY <1>1
<1> HIDE DEF r, f
<1>4. /\ r \in 0..n
      /\ \A i \in 0..(r - 1) : f[i] < t
      /\ \A i \in r..(n - 1) : t <= f[i]
  BY <1>1, <1>2, <1>3, SearchFinds
<1> QED BY <1>4 DEF r, f

(* Where a time inside a series is: at the left of its lower bound all     *)
(* times are earlier.                                                      *)
LEMMA Inside ==
  ASSUME NEW s, Valid(s), NEW n, n = Count(s.timestamps), NEW t \in Int,
         s.timestamps[0] < t, t <= s.timestamps[n - 1]
  PROVE  /\ lowerBound(s.timestamps, t) \in 1..(n - 1)
         /\ s.timestamps[lowerBound(s.timestamps, t) - 1] < t
         /\ t <= s.timestamps[lowerBound(s.timestamps, t)]
<1> DEFINE r == lowerBound(s.timestamps, t)
           f == s.timestamps
<1>1. /\ n \in Nat /\ n >= 2 /\ f \in [0..(n - 1) -> Int] /\ 0 \in 0..(n - 1) /\ n - 1 \in 0..(n - 1)
  BY ValidParts
<1>2. /\ r \in 0..n
      /\ \A i \in 0..(n - 1) : i < r => f[i] < t
      /\ \A i \in 0..(n - 1) : r <= i => t <= f[i]
  BY LowerBound
<1> HIDE DEF r, f
<1>3. f[0] < t /\ t <= f[n - 1] /\ f[0] \in Int /\ f[n - 1] \in Int
  BY <1>1 DEF f
<1>4. r # 0
  BY <1>1, <1>2, <1>3
<1>5. r # n
  <2> SUFFICES ASSUME r = n PROVE FALSE
    OBVIOUS
  <2>1. n - 1 < r
    BY <1>1
  <2>2. f[n - 1] < t
    BY <1>1, <1>2, <2>1
  <2> QED BY <1>3, <2>2
<1>6. r \in 1..(n - 1) /\ r - 1 \in 0..(n - 1) /\ r \in 0..(n - 1) /\ r - 1 < r /\ r <= r
  BY <1>1, <1>2, <1>4, <1>5
<1>7. f[r - 1] < t /\ t <= f[r]
  BY <1>2, <1>6
<1> QED BY <1>6, <1>7 DEF r, f

(* A line between two points stays between them.                           *)
LEMMA LineBetween ==
  ASSUME NEW x1 \in Int, NEW x2 \in Int, x1 < x2, NEW x \in x1..x2, NEW y1 \in Int, NEW y2 \in Int
  PROVE  /\ Line(x1, y1, x2, y2, x) \in Int
         /\ y1 <= y2 => y1 <= Line(x1, y1, x2, y2, x) /\ Line(x1, y1, x2, y2, x) <= y2
         /\ y2 <= y1 => y2 <= Line(x1, y1, x2, y2, x) /\ Line(x1, y1, x2, y2, x) <= y1
<1> DEFINE d == y2 - y1
           p == d * (x - x1)
           w == x2 - x1
<1>1. d \in Int /\ w \in Nat \ {0} /\ x - x1 \in Nat /\ p \in Int /\ w \in Nat /\ x - x1 <= w
  OBVIOUS
<1>2. Line(x1, y1, x2, y2, x) = y1 + (p \div w) /\ p \div w \in Int
  BY <1>1, Quotient DEF Line
<1>3. CASE y1 <= y2
  <2>1. d \in Nat
    BY <1>3
  <2>2. 0 * d <= (x - x1) * d /\ (x - x1) * d <= w * d /\ (x - x1) * d = p
    <3> HIDE DEF d, w
    <3> QED BY <1>1, <2>1, Products
  <2>3. 0 * w <= p /\ p <= d * w
    <3> HIDE DEF p
    <3> QED BY <1>1, <2>1, <2>2
  <2>4. 0 <= p \div w /\ p \div w <= d
    <3> HIDE DEF p, w, d
    <3> QED BY <1>1, <2>3, QuotientAtLeast, QuotientAtMost
  <2> HIDE DEF p, w
  <2> QED BY <1>2, <1>3, <2>4
<1>4. CASE y2 <= y1
  <2> DEFINE e == y1 - y2
  <2>1. e \in Nat /\ d = -e
    BY <1>4
  <2>2. 0 * e <= (x - x1) * e /\ (x - x1) * e <= w * e
    <3> HIDE DEF d, w, e
    <3> QED BY <1>1, <2>1, Products
  <2>3. (x - x1) * e = -p /\ w * e = -(d * w)
    <3> HIDE DEF e
    <3> QED BY <1>1, <2>1
  <2>4. d * w <= p /\ p <= 0 * w
    <3> HIDE DEF p, d, e
    <3> QED BY <1>1, <2>1, <2>2, <2>3
  <2>5. d <= p \div w /\ p \div w <= 0
    <3> HIDE DEF p, w, d
    <3> QED BY <1>1, <2>4, QuotientAtLeast, QuotientAtMost
  <2> HIDE DEF p, w
  <2> QED BY <1>2, <1>4, <2>5
<1> QED BY <1>2, <1>3, <1>4

(* A value between two others.                                             *)
Between(v, x, y) == (x <= v /\ v <= y) \/ (y <= v /\ v <= x)

(* An interpolated value is between those around its time.                 *)
LEMMA Interpolated ==
  ASSUME NEW s, Valid(s), NEW n, n = Count(s.timestamps), NEW t \in Int
  PROVE  /\ interpolateVectorAt(s, t) \in Int
         /\ \A k \in 1..(n - 1) : s.timestamps[k - 1] <= t /\ t <= s.timestamps[k] =>
                Between(interpolateVectorAt(s, t), s.values[k - 1], s.values[k])
<1> DEFINE f == s.timestamps
           v == s.values
           r == lowerBound(f, t)
           x == interpolateVectorAt(s, t)
<1>1. /\ n \in Nat /\ n >= 2 /\ f \in [0..(n - 1) -> Int] /\ v \in [0..(n - 1) -> Int]
      /\ 0 \in 0..(n - 1) /\ n - 1 \in 0..(n - 1)
      /\ Final(f) = f[n - 1] /\ Final(v) = v[n - 1]
      /\ \A i, j \in 0..(n - 1) : i < j => f[i] < f[j]
  BY ValidParts
<1>2. x = IF t <= f[0] THEN v[0]
          ELSE IF t >= f[n - 1] THEN v[n - 1]
          ELSE IF f[r] = t THEN v[r]
          ELSE Line(f[r - 1], v[r - 1], f[r], v[r], t)
  BY <1>1 DEF interpolateVectorAt
<1>3. f[0] < t /\ t < f[n - 1] => r \in 1..(n - 1) /\ f[r - 1] < t /\ t <= f[r]
  <2>1. f[n - 1] \in Int
    BY <1>1
  <2> SUFFICES ASSUME f[0] < t, t < f[n - 1] PROVE r \in 1..(n - 1) /\ f[r - 1] < t /\ t <= f[r]
    OBVIOUS
  <2>2. t <= f[n - 1]
    BY <2>1
  <2> QED BY <2>2, Inside
<1> HIDE DEF x, r, f, v
<1>4. \A i \in 0..(n - 1) : f[i] \in Int /\ v[i] \in Int
  BY <1>1
<1>5. ASSUME NEW k \in 1..(n - 1) PROVE k - 1 \in 0..(n - 1) /\ k \in 0..(n - 1)
  BY <1>1
<1>6. CASE t <= f[0]
  <2>1. x = v[0] /\ x \in Int
    BY <1>1, <1>2, <1>4, <1>6
  <2>2. ASSUME NEW k \in 1..(n - 1), f[k - 1] <= t PROVE k - 1 = 0
    <3>1. k - 1 # 0 => f[0] < f[k - 1]
      BY <1>1, <1>5
    <3>2. f[0] \in Int /\ f[k - 1] \in Int
      BY <1>1, <1>4, <1>5
    <3> QED BY <1>6, <2>2, <3>1, <3>2
  <2>3. ASSUME NEW k \in 1..(n - 1), f[k - 1] <= t PROVE Between(x, v[k - 1], v[k])
    BY <1>4, <1>5, <2>1, <2>2, <2>3 DEF Between
  <2> QED BY <2>1, <2>3 DEF x, f, v
<1>7. CASE f[0] < t /\ f[n - 1] <= t
  <2>1. x = v[n - 1] /\ x \in Int
    BY <1>1, <1>2, <1>4, <1>7
  <2>2. ASSUME NEW k \in 1..(n - 1), t <= f[k] PROVE k = n - 1
    <3>1. k # n - 1 => f[k] < f[n - 1]
      BY <1>1, <1>5
    <3>2. f[k] \in Int /\ f[n - 1] \in Int
      BY <1>1, <1>4, <1>5
    <3> QED BY <1>7, <2>2, <3>1, <3>2
  <2>3. ASSUME NEW k \in 1..(n - 1), t <= f[k] PROVE Between(x, v[k - 1], v[k])
    BY <1>4, <1>5, <2>1, <2>2, <2>3 DEF Between
  <2> QED BY <2>1, <2>3 DEF x, f, v
<1>8. CASE f[0] < t /\ t < f[n - 1]
  <2>1. r \in 1..(n - 1) /\ r - 1 \in 0..(n - 1) /\ r \in 0..(n - 1) /\ f[r - 1] < t /\ t <= f[r]
    BY <1>3, <1>5, <1>8
  <2>2. ASSUME NEW k \in 1..(n - 1), f[k - 1] <= t, t <= f[k]
        PROVE  k = r \/ (k - 1 = r /\ f[r] = t)
    <3>1. k < r => f[k] < t
      <4>1. k < r - 1 => f[k] < f[r - 1]
        BY <1>1, <1>5, <2>1
      <4> QED BY <1>4, <1>5, <2>1, <4>1
    <3>2. r < k - 1 => f[r] < f[k - 1]
      BY <1>1, <1>5, <2>1
    <3> QED BY <1>4, <1>5, <2>1, <2>2, <3>1, <3>2
  <2>3. CASE f[r] = t
    <3>1. x = v[r] /\ x \in Int
      BY <1>1, <1>2, <1>4, <1>8, <2>1, <2>3
    <3>2. ASSUME NEW k \in 1..(n - 1), f[k - 1] <= t, t <= f[k] PROVE Between(x, v[k - 1], v[k])
      <4>1. k = r \/ k - 1 = r
        BY <2>2, <3>2
      <4>2. v[k - 1] \in Int /\ v[k] \in Int
        <5>1. k - 1 \in 0..(n - 1) /\ k \in 0..(n - 1)
          BY <1>1
        <5> HIDE DEF x, f, v, r
        <5> QED BY <1>1, <5>1
      <4> HIDE DEF x, f, v, r
      <4> QED BY <3>1, <4>1, <4>2 DEF Between
    <3> QED BY <3>1, <3>2 DEF x, f, v
  <2>4. CASE f[r] # t
    <3>1. x = Line(f[r - 1], v[r - 1], f[r], v[r], t)
      BY <1>1, <1>2, <1>4, <1>8, <2>1, <2>4
    <3>2. /\ f[r - 1] \in Int /\ f[r] \in Int /\ f[r - 1] < f[r] /\ t \in f[r - 1]..f[r]
          /\ v[r - 1] \in Int /\ v[r] \in Int
      BY <1>4, <2>1
    <3>3. x \in Int /\ Between(x, v[r - 1], v[r])
      <4> DEFINE a == f[r - 1]
                 b == f[r]
                 y == v[r - 1]
                 z == v[r]
      <4>1. a \in Int /\ b \in Int /\ a < b /\ t \in a..b /\ y \in Int /\ z \in Int /\ x = Line(a, y, b, z, t)
        BY <3>1, <3>2
      <4> HIDE DEF a, b, y, z
      <4>2. x \in Int /\ (y <= z => y <= x /\ x <= z) /\ (z <= y => z <= x /\ x <= y)
        BY <4>1, LineBetween
      <4>3. Between(x, y, z)
        BY <4>1, <4>2 DEF Between
      <4> QED BY <4>2, <4>3 DEF y, z
    <3>4. ASSUME NEW k \in 1..(n - 1), f[k - 1] <= t, t <= f[k] PROVE Between(x, v[k - 1], v[k])
      BY <2>2, <2>4, <3>3, <3>4
    <3> QED BY <3>3, <3>4 DEF x, f, v
  <2> QED BY <2>3, <2>4
<1> QED BY <1>1, <1>4, <1>6, <1>7, <1>8

(* Times from a start to an end, in order if there is room for them.       *)
TimesOf(f, start, end, count) ==
    /\ f \in [0..(count - 1) -> Int]
    /\ f[0] = start /\ f[count - 1] = end
    /\ \A i \in 0..(count - 1) : start <= f[i] /\ f[i] <= end
    /\ end - start >= count - 1 => \A i \in 1..(count - 1) : f[i - 1] < f[i]

(* The sample times run from the start to the end and ascend.              *)
LEMMA SampledTimes ==
  ASSUME NEW start \in Int, NEW end \in Int, NEW count \in Nat, count >= 2, start < end
  PROVE  TimesOf(SampleTimes(start, end, count), start, end, count)
<1> DEFINE d == end - start
           m == count - 1
           f == SampleTimes(start, end, count)
<1>1. d \in Nat \ {0} /\ m \in Nat \ {0} /\ count - 1 = m /\ d \in Nat
  OBVIOUS
<1>2. f = [i \in 0..m |-> start + ((d * i) \div m)]
  BY DEF SampleTimes
<1> HIDE DEF f, d, m
<1>3. ASSUME NEW i \in 0..m
      PROVE  d * i \in Int /\ (d * i) \div m \in Int /\ 0 <= (d * i) \div m /\ (d * i) \div m <= d
  <2>1. 0 * d <= i * d /\ i * d <= m * d /\ d * i = i * d /\ d * i \in Int /\ m * d = d * m /\ 0 * d = 0 /\ 0 * m = 0
    BY <1>1, Products
  <2>2. (d * i) \div m \in Int
    BY <1>1, <2>1, Quotient
  <2>3. 0 <= (d * i) \div m
    BY <1>1, <2>1, QuotientAtLeast
  <2>4. (d * i) \div m <= d
    BY <1>1, <2>1, QuotientAtMost
  <2> QED BY <2>1, <2>2, <2>3, <2>4
<1>4. f \in [0..m -> Int]
  BY <1>2, <1>3
<1>5. (d * 0) \div m = 0 /\ (d * m) \div m = d
  <2>1. d * 0 = 0 * m /\ d * m \in Int /\ d * 0 \in Int
    BY <1>1
  <2>2. 0 <= (d * 0) \div m /\ (d * 0) \div m <= 0 /\ (d * 0) \div m \in Int
    BY <1>1, <2>1, QuotientAtLeast, QuotientAtMost, Quotient
  <2>3. d <= (d * m) \div m /\ (d * m) \div m <= d /\ (d * m) \div m \in Int
    BY <1>1, <2>1, QuotientAtLeast, QuotientAtMost, Quotient
  <2> QED BY <1>1, <2>2, <2>3
<1>6. f[0] = start /\ f[m] = end
  <2>1. 0 \in 0..m /\ m \in 0..m /\ start + d = end
    BY <1>1 DEF d
  <2> QED BY <1>2, <1>5, <2>1
<1>7. \A i \in 0..m : start <= f[i] /\ f[i] <= end
  <2>1. start + d = end
    BY DEF d
  <2> TAKE i \in 0..m
  <2>2. f[i] = start + ((d * i) \div m)
    BY <1>2
  <2> QED BY <1>1, <1>3, <2>1, <2>2
<1>8. ASSUME d >= m, NEW i \in 1..m PROVE f[i - 1] < f[i]
  <2>1. i \in 0..m /\ i - 1 \in 0..m
    BY <1>1
  <2>2. d * (i - 1) + m <= d * i
    <3>1. d * i = d * (i - 1) + d /\ d * (i - 1) \in Int
      BY <1>1, <2>1
    <3> QED BY <1>1, <1>8, <3>1
  <2>3. (d * (i - 1)) \div m < (d * i) \div m
    BY <1>1, <1>3, <2>1, <2>2, QuotientRises
  <2> QED BY <1>2, <1>3, <2>1, <2>3
<1> QED BY <1>1, <1>4, <1>6, <1>7, <1>8 DEF f, d, m, TimesOf

(* There are no more samples than whole units in a range.                  *)
LEMMA NaturalCounts ==
  ASSUME NEW s, Valid(s), NEW start \in Int, NEW end \in Int, InRange(s, start, end)
  PROVE  /\ NaturalCount(s, start, end) \in Int
         /\ NaturalCount(s, start, end) >= 2
         /\ NaturalCount(s, start, end) <= end - start + 1
<1> DEFINE f == s.timestamps
           n == Count(f)
           first == lowerBound(f, start)
           last == lowerBound(f, end)
           points == (IF f[last] = end THEN last + 1 ELSE last) - first
           more == (IF f[first] = start THEN 0 ELSE 1) + (IF f[last] = end THEN 0 ELSE 1)
<1>1. /\ n \in Nat /\ n >= 2 /\ f \in [0..(n - 1) -> Int]
      /\ 0 \in 0..(n - 1) /\ n - 1 \in 0..(n - 1) /\ Final(f) = f[n - 1]
      /\ \A i, j \in 0..(n - 1) : i <= j => f[j] - f[i] >= j - i
  BY ValidParts
<1>2. /\ first \in 0..n /\ last \in 0..n
      /\ \A i \in 0..(n - 1) : i < first => f[i] < start
      /\ \A i \in 0..(n - 1) : first <= i => start <= f[i]
      /\ \A i \in 0..(n - 1) : i < last => f[i] < end
      /\ \A i \in 0..(n - 1) : last <= i => end <= f[i]
  <2>1. n = Count(s.timestamps)
    OBVIOUS
  <2>2. /\ first \in 0..n
        /\ \A i \in 0..(n - 1) : i < first => f[i] < start
        /\ \A i \in 0..(n - 1) : first <= i => start <= f[i]
    BY <2>1, LowerBound
  <2>3. /\ last \in 0..n
        /\ \A i \in 0..(n - 1) : i < last => f[i] < end
        /\ \A i \in 0..(n - 1) : last <= i => end <= f[i]
    BY <2>1, LowerBound
  <2> HIDE DEF f, n, first, last
  <2> QED BY <2>2, <2>3
<1>3. start < end /\ f[0] <= start /\ end <= f[n - 1]
  <2>1. start >= s.timestamps[0] /\ start < end /\ end <= Final(f)
    BY DEF InRange
  <2> QED BY <1>1, <2>1
<1>4. NaturalCount(s, start, end) = Max({2, points + more})
  <2>1. NaturalCount(s, start, end) =
            Max({2, points + (IF f[first] = start THEN 0 ELSE 1) + (IF f[last] = end THEN 0 ELSE 1)})
    BY DEF NaturalCount
  <2>2. points + more = points + (IF f[first] = start THEN 0 ELSE 1) + (IF f[last] = end THEN 0 ELSE 1)
    <3>1. points \in Int
      <4> HIDE DEF f, first, last, n
      <4> QED BY <1>1, <1>2
    <3> HIDE DEF points, f, first, last
    <3> QED BY <3>1
  <2> HIDE DEF points, more, f, first, last
  <2> QED BY <2>1, <2>2
<1> HIDE DEF f, n, first, last
<1>5. \A i \in 0..(n - 1) : f[i] \in Int
  BY <1>1
<1>6. first # n /\ last # n
  <2>1. first = n => f[n - 1] < start
    BY <1>1, <1>2
  <2>2. last = n => f[n - 1] < end
    BY <1>1, <1>2
  <2> QED BY <1>1, <1>3, <1>5, <2>1, <2>2
<1>7. first \in 0..(n - 1) /\ last \in 0..(n - 1) /\ start <= f[first] /\ end <= f[last]
      /\ f[first] \in Int /\ f[last] \in Int
  BY <1>1, <1>2, <1>5, <1>6
<1>8. first <= last
  <2>1. last < first => f[last] < start
    BY <1>2, <1>7
  <2> QED BY <1>2, <1>3, <1>7, <2>1
<1>9. points + more \in Int /\ points + more <= end - start + 1
  <2>1. CASE first = last
    <3>1. f[first] = start => f[last] # end
      BY <1>3, <1>7, <2>1
    <3> QED BY <1>1, <1>3, <1>7, <2>1, <3>1
  <2>2. CASE first < last
    <3>1. last - 1 \in 0..(n - 1) /\ f[last - 1] \in Int /\ first <= last - 1
      BY <1>1, <1>5, <1>7, <2>2
    <3>2. f[last - 1] - f[first] >= (last - 1) - first
      BY <1>1, <1>7, <3>1
    <3>3. f[last - 1] < end
      BY <1>2, <1>7, <3>1
    <3>4. first \in Int /\ last \in Int
      BY <1>7
    <3>5. last - first <= end - f[first]
      <4>1. \A x, y, a, b, z \in Int : x - y >= (a - 1) - b /\ x < z => a - b <= z - y
        OBVIOUS
      <4> HIDE DEF f, first, last
      <4> QED BY <1>7, <3>1, <3>2, <3>3, <3>4, <4>1
    <3>6. CASE f[first] = start /\ f[last] = end
      BY <1>3, <3>4, <3>5, <3>6
    <3>7. CASE f[first] = start /\ f[last] # end
      BY <1>3, <3>4, <3>5, <3>7
    <3>8. CASE f[first] # start /\ f[last] = end
      BY <1>3, <1>7, <3>4, <3>5, <3>8
    <3>9. CASE f[first] # start /\ f[last] # end
      BY <1>3, <1>7, <3>4, <3>5, <3>9
    <3> QED BY <3>6, <3>7, <3>8, <3>9
  <2> QED BY <1>1, <1>7, <1>8, <2>1, <2>2
<1> DEFINE sum == points + more
<1>10. sum \in Int /\ sum <= end - start + 1 /\ NaturalCount(s, start, end) = Max({2, sum})
  BY <1>4, <1>9
<1> HIDE DEF sum
<1>11. Max({2, sum}) = IF 2 <= sum THEN sum ELSE 2
  BY <1>10, MinMaxTwo
<1> QED BY <1>3, <1>10, <1>11

(* A sampled series is valid, keeps to the limit, and runs over the whole  *)
(* range.                                                                  *)
LEMMA SampledSeries ==
  ASSUME NEW s, Valid(s), NEW start \in Int, NEW end \in Int, InRange(s, start, end),
         NEW maximum \in Nat, maximum >= 2,
         NEW x, x = sampleSeriesRange(s, start, end, maximum)
  PROVE  /\ Valid(x)
         /\ Count(x.timestamps) <= maximum
         /\ x.timestamps[0] = start /\ Final(x.timestamps) = end
         /\ \A i \in DOMAIN x.timestamps : x.timestamps[i] \in Int
         /\ \A i \in DOMAIN x.timestamps : x.values[i] = interpolateVectorAt(s, x.timestamps[i])
         /\ DOMAIN x.timestamps = 0..(Count(x.timestamps) - 1)
<1> DEFINE count == Max({2, Min({maximum, NaturalCount(s, start, end)})})
           times == SampleTimes(start, end, count)
<1>1. /\ NaturalCount(s, start, end) \in Int
      /\ NaturalCount(s, start, end) >= 2
      /\ NaturalCount(s, start, end) <= end - start + 1
  BY NaturalCounts
<1>2. count \in Nat /\ count >= 2 /\ count <= maximum /\ count - 1 <= end - start
  <2> DEFINE k == NaturalCount(s, start, end)
             m == Min({maximum, k})
  <2>0. k \in Int /\ k >= 2 /\ k <= end - start + 1
    BY <1>1
  <2> HIDE DEF k
  <2>1. m = IF maximum <= k THEN maximum ELSE k
    BY <2>0, MinMaxTwo
  <2>2. m \in Int
    BY <2>0, <2>1
  <2> HIDE DEF m
  <2>3. Max({2, m}) = IF 2 <= m THEN m ELSE 2
    BY <2>2, MinMaxTwo
  <2> QED BY <2>0, <2>1, <2>3 DEF m, k
<1>3. start < end
  BY DEF InRange
<1> HIDE DEF count
<1>4. /\ times \in [0..(count - 1) -> Int]
      /\ times[0] = start /\ times[count - 1] = end
      /\ \A i \in 1..(count - 1) : times[i - 1] < times[i]
  <2>1. end - start >= count - 1
    BY <1>2
  <2>2. count \in Nat /\ count >= 2
    BY <1>2
  <2>3. TimesOf(times, start, end, count)
    BY <1>3, <2>2, SampledTimes
  <2> HIDE DEF times
  <2> QED BY <2>1, <2>3 DEF TimesOf
<1>5. x = [timestamps |-> times, values |-> [i \in 0..(count - 1) |-> interpolateVectorAt(s, times[i])]]
  BY DEF sampleSeriesRange, count
<1> HIDE DEF times
<1>6. Count(times) = count
  BY <1>2, <1>4, CountOf
<1>7. \A i \in 0..(count - 1) : times[i] \in Int /\ interpolateVectorAt(s, times[i]) \in Int
  BY <1>4, Interpolated
<1>8. Valid(x)
  <2>1. x.timestamps = times /\ x.values = [i \in 0..(count - 1) |-> interpolateVectorAt(s, times[i])]
    BY <1>5
  <2>2. x.values \in [0..(count - 1) -> Int]
    BY <1>7, <2>1
  <2>3. x \in [timestamps : [0..(count - 1) -> Int], values : [0..(count - 1) -> Int]]
    BY <1>4, <1>5, <2>1, <2>2
  <2>4. IsSeries(x) /\ Count(x.timestamps) = count
    BY <1>2, <1>6, <2>1, <2>3 DEF IsSeries
  <2>5. Rising(x.timestamps)
    BY <1>4, <2>1, <2>4 DEF Rising
  <2> QED BY <1>2, <2>4, <2>5 DEF Valid
<1> QED BY <1>2, <1>4, <1>5, <1>6, <1>7, <1>8 DEF Final

(* A sample of the search is nearest to its target.                        *)
LEMMA Nearest ==
  ASSUME NEW s, Valid(s), NEW n, n = Count(s.timestamps), NEW t \in Int
  PROVE  /\ nearestIndex(s.timestamps, t) \in 0..(n - 1)
         /\ \A j \in 0..(n - 1) :
                Distance(s.timestamps[nearestIndex(s.timestamps, t)], t) <= Distance(s.timestamps[j], t)
<1> DEFINE f == s.timestamps
           low == SearchFrom(f, t, 0, n - 1)
           k == nearestIndex(f, t)
<1>1. /\ n \in Nat /\ n >= 2 /\ f \in [0..(n - 1) -> Int]
      /\ \A i, j \in 0..(n - 1) : i <= j => f[i] <= f[j]
  BY ValidParts
<1>2. k = IF low = 0 THEN 0 ELSE IF Distance(f[low], t) < Distance(f[low - 1], t) THEN low ELSE low - 1
  BY DEF nearestIndex
<1> HIDE DEF f, k
<1>3. /\ low \in 0..(n - 1)
      /\ \A i \in 0..(low - 1) : f[i] < t
      /\ \A i \in low..((n - 1) - 1) : t <= f[i]
  <2>1. 0 \in Int /\ n - 1 \in Int /\ 0 <= 0 /\ 0 <= n - 1 /\ n - 1 <= (n - 1) + 1
    BY <1>1
  <2> QED BY <1>1, <2>1, SearchFinds
<1> HIDE DEF low
<1>4. \A i \in 0..(n - 1) : f[i] \in Int /\ Distance(f[i], t) = IF f[i] < t THEN t - f[i] ELSE f[i] - t
  BY <1>1 DEF Distance
<1>5. low # 0 => low - 1 \in 0..(n - 1) /\ low - 1 \in 0..(low - 1) /\ f[low - 1] < t
  BY <1>1, <1>3
<1>6. k \in 0..(n - 1)
  BY <1>1, <1>2, <1>3, <1>5
<1>7. ASSUME NEW j \in 0..(n - 1), low <= j
      PROVE  Distance(f[low], t) <= Distance(f[j], t) \/ (low # 0 /\ Distance(f[low - 1], t) <= Distance(f[j], t))
                \/ (low = 0 /\ Distance(f[low], t) <= Distance(f[j], t))
  <2>1. f[low] <= f[j] /\ f[low] \in Int /\ f[j] \in Int
    BY <1>1, <1>3, <1>4, <1>7
  <2>2. CASE t <= f[low]
    BY <1>3, <1>4, <2>1, <2>2
  <2>3. CASE f[low] < t
    <3>1. low = n - 1
      <4>1. low \notin low..((n - 1) - 1)
        BY <1>3, <2>1, <2>3
      <4> QED BY <1>1, <1>3, <4>1
    <3>2. j = low
      BY <1>1, <1>7, <3>1
    <3> QED BY <1>3, <1>4, <2>1, <3>2
  <2> QED BY <2>1, <2>2, <2>3
<1>8. ASSUME NEW j \in 0..(n - 1), j < low
      PROVE  Distance(f[low - 1], t) <= Distance(f[j], t)
  <2>1. low # 0 /\ j <= low - 1 /\ j \in 0..(low - 1)
    BY <1>3, <1>8
  <2>2. f[j] <= f[low - 1] /\ f[j] < t /\ f[low - 1] < t
    BY <1>1, <1>3, <1>5, <2>1
  <2> QED BY <1>4, <1>5, <2>1, <2>2
<1>9. ASSUME NEW j \in 0..(n - 1)
      PROVE  Distance(f[k], t) <= Distance(f[j], t)
  <2>1. Distance(f[j], t) \in Int /\ Distance(f[low], t) \in Int
    BY <1>3, <1>4
  <2>2. low # 0 => Distance(f[low - 1], t) \in Int
    BY <1>4, <1>5
  <2>3. CASE low = 0
    BY <1>2, <1>3, <1>7, <2>1, <2>3
  <2>4. CASE low # 0
    BY <1>2, <1>3, <1>7, <1>8, <2>1, <2>2, <2>4
  <2> QED BY <2>3, <2>4
<1> QED BY <1>6, <1>9 DEF f, k

-----------------------------------------------------------------------------
(* The band, the table of the warping and its rows.                        *)

(* What the warping of a candidate starts from.                            *)
Sampling(s) ==
    /\ Valid(s.ref) /\ Valid(s.dut)
    /\ s.start \in 0..(Count(s.dut.timestamps) - 1) /\ s.end \in 0..(Count(s.dut.timestamps) - 1)
    /\ s.radius \in Nat /\ s.radius >= 3
    /\ s.transition \in Nat /\ s.endpoint \in Nat

(* Every row of the band is an interval of the samples of DUT, and not     *)
(* empty.                                                                  *)
LEMMA BandShape ==
  ASSUME NEW s, Sampling(s), NEW i \in 0..LastRow(s)
  PROVE  /\ LastRow(s) \in Nat /\ LastRow(s) >= 1 /\ Count(s.ref.timestamps) = LastRow(s) + 1
         /\ BandStart(s, i) \in Nat /\ BandEnd(s, i) \in Nat
         /\ BandStart(s, i) <= BandEnd(s, i)
         /\ BandEnd(s, i) <= Count(s.dut.timestamps) - 1
         /\ BandRange(s, i) \subseteq 0..(Count(s.dut.timestamps) - 1)
<1> DEFINE r == LastRow(s)
           n == Count(s.dut.timestamps)
           w == Span(s)
           p == w * i
           q == p \div r
           c == Ceiling(p, r)
           low == s.start + q - s.radius
           high == s.start + c + s.radius
<1>1. r \in Nat /\ r >= 1 /\ Count(s.ref.timestamps) = r + 1 /\ r \in Nat \ {0} /\ i \in 0..r
      /\ n \in Nat /\ n >= 2
  <2>1. Valid(s.ref) /\ Valid(s.dut)
    BY DEF Sampling
  <2>2. Count(s.ref.timestamps) \in Nat /\ Count(s.ref.timestamps) >= 2
    BY <2>1, ValidParts
  <2>3. n \in Nat /\ n >= 2
    BY <2>1, ValidParts
  <2> HIDE DEF n
  <2> QED BY <2>2, <2>3 DEF LastRow
<1>2. w = (IF 1 <= s.end - s.start THEN s.end - s.start ELSE 1)
  <2>1. s.end - s.start \in Int
    BY <1>1 DEF Sampling
  <2> QED BY <2>1, MinMaxTwo DEF Span
<1>3. w \in Nat /\ s.start + w - s.radius <= n - 1 /\ s.start \in Nat /\ s.radius \in Nat /\ s.start \in Int /\ s.radius \in Int
  BY <1>1, <1>2 DEF Sampling
<1> HIDE DEF r, n, w
<1>4. p \in Nat /\ p <= w * r
  <2>1. 0 * w <= i * w /\ i * w <= r * w /\ i * w \in Int /\ r * w \in Int
    BY <1>1, <1>3, Products
  <2> QED BY <1>1, <1>3, <2>1
<1>5. c = (p + r - 1) \div r
  BY DEF Ceiling
<1> HIDE DEF p
<1>6. q \in Int /\ c \in Int /\ 0 <= q /\ q <= w /\ q <= c
  <2>1. q \in Int /\ c \in Int
    BY <1>1, <1>4, <1>5, Quotient
  <2>2. 0 <= q
    <3>1. 0 * r <= p /\ p \in Int
      BY <1>1, <1>4
    <3> QED BY <1>1, <3>1, QuotientAtLeast
  <2>3. q <= w
    <3>1. p \in Int /\ w \in Int
      BY <1>3, <1>4
    <3> QED BY <1>1, <1>4, <3>1, QuotientAtMost
  <2>4. q <= c
    <3>1. p \in Int /\ p + r - 1 \in Int /\ p <= p + r - 1
      BY <1>1, <1>4
    <3> QED BY <1>1, <1>5, <3>1, QuotientMonotone
  <2> QED BY <2>1, <2>2, <2>3, <2>4
<1> HIDE DEF q, c
<1>7. low \in Int /\ high \in Int /\ low <= high /\ low <= n - 1 /\ 0 <= high
  BY <1>1, <1>3, <1>6
<1>8. BandStart(s, i) = Max({0, low}) /\ BandEnd(s, i) = Min({n - 1, high})
  BY DEF BandStart, BandEnd, low, high, q, c, p, w, r, n
<1> HIDE DEF low, high
<1>9. /\ BandStart(s, i) = IF 0 <= low THEN low ELSE 0
      /\ BandEnd(s, i) = IF n - 1 <= high THEN n - 1 ELSE high
  <2>1. Max({0, low}) = IF 0 <= low THEN low ELSE 0
    BY <1>7, MinMaxTwo
  <2>2. Min({n - 1, high}) = IF n - 1 <= high THEN n - 1 ELSE high
    <3>1. n - 1 \in Int
      BY <1>1
    <3> QED BY <1>7, <3>1, MinMaxTwo
  <2> QED BY <1>8, <2>1, <2>2
<1>10. /\ BandStart(s, i) \in Nat /\ BandEnd(s, i) \in Nat
       /\ BandStart(s, i) <= BandEnd(s, i) /\ BandEnd(s, i) <= n - 1
  BY <1>1, <1>7, <1>9
<1>11. BandRange(s, i) \subseteq 0..(n - 1)
  BY <1>1, <1>10 DEF BandRange
<1> QED BY <1>1, <1>10, <1>11 DEF r, n

(* There are two rows at least.                                            *)
LEMMA LastRows ==
  ASSUME NEW s, Sampling(s)
  PROVE  LastRow(s) \in Nat /\ LastRow(s) >= 1 /\ Count(s.ref.timestamps) = LastRow(s) + 1
<1>1. Valid(s.ref)
  BY DEF Sampling
<1>2. Count(s.ref.timestamps) \in Nat /\ Count(s.ref.timestamps) >= 2
  BY <1>1, ValidParts
<1> QED BY <1>2 DEF LastRow

(* A distance of two samples is a natural number.                          *)
LEMMA Distances ==
  ASSUME NEW s, Sampling(s), NEW i \in 0..LastRow(s), NEW j \in 0..(Count(s.dut.timestamps) - 1)
  PROVE  localDistance(s, i, j) \in Nat
<1> DEFINE x == s.ref.values[i] - s.dut.values[j]
           m == Min({80, x})
           d == Max({-80, m})
<1>1. i \in 0..(Count(s.ref.timestamps) - 1)
  BY DEF LastRow
<1>2. s.ref.values \in [0..(Count(s.ref.timestamps) - 1) -> Int] /\ s.dut.values \in [0..(Count(s.dut.timestamps) - 1) -> Int]
  BY ValidParts DEF Sampling
<1>3. x \in Int
  <2>1. s.ref.values[i] \in Int
    BY <1>1, <1>2
  <2>2. s.dut.values[j] \in Int
    BY <1>2
  <2> QED BY <2>1, <2>2
<1> HIDE DEF x
<1>4. m \in Int
  BY <1>3, MinMaxTwo
<1> HIDE DEF m
<1>5. d \in Int
  <2>1. d = IF -80 <= m THEN m ELSE -80
    BY <1>4, MinMaxTwo
  <2> QED BY <1>4, <2>1
<1>6. localDistance(s, i, j) = d * d
  BY DEF localDistance, Clamp, d, m, x
<1> HIDE DEF d
<1> QED BY <1>5, <1>6

(* A penalty at an end is a natural number.                                *)
LEMMA Penalties ==
  ASSUME NEW s, Sampling(s), NEW j \in Int, NEW k \in Int
  PROVE  EndPenalty(s, j, k) \in Nat
<1> DEFINE p == s.endpoint * Distance(j, k)
<1>1. s.radius \in Nat \ {0} /\ s.endpoint \in Nat
  BY DEF Sampling
<1>2. p \in Nat
  <2>1. Distance(j, k) \in Nat
    BY DEF Distance
  <2> QED BY <1>1, <2>1
<1> HIDE DEF p
<1>3. p \div s.radius \in Int /\ 0 <= p \div s.radius
  <2>1. 0 * s.radius <= p /\ p \in Int
    BY <1>1, <1>2
  <2> QED BY <1>1, <2>1, Quotient, QuotientAtLeast
<1> QED BY <1>3 DEF EndPenalty, p

(* The better of three steps.                                              *)
LEMMA BestOf ==
  ASSUME NEW diagonal \in Cost, NEW up \in Cost, NEW left \in Cost
  PROVE  /\ BestStep(diagonal, up, left) \in [cost : Cost, direction : Directions]
         /\ ~Less(diagonal, BestStep(diagonal, up, left).cost)
         /\ ~Less(up, BestStep(diagonal, up, left).cost)
         /\ ~Less(left, BestStep(diagonal, up, left).cost)
         /\ BestStep(diagonal, up, left).direction = "diagonal" => BestStep(diagonal, up, left).cost = diagonal
         /\ BestStep(diagonal, up, left).direction = "up" => BestStep(diagonal, up, left).cost = up
         /\ BestStep(diagonal, up, left).direction = "left" => BestStep(diagonal, up, left).cost = left
<1>1. CASE Less(left, diagonal) /\ Less(left, up)
  BY <1>1 DEF BestStep, Less, Cost, Infinity, Directions
<1>2. CASE ~(Less(left, diagonal) /\ Less(left, up)) /\ Less(up, diagonal)
  BY <1>2 DEF BestStep, Less, Cost, Infinity, Directions
<1>3. CASE ~(Less(left, diagonal) /\ Less(left, up)) /\ ~Less(up, diagonal)
  BY <1>3 DEF BestStep, Less, Cost, Infinity, Directions
<1> QED BY <1>1, <1>2, <1>3

Cell == [cost : Cost, direction : Directions \cup {"start"}]

(* The first rows of the table of a sampling.                              *)
TableOf(s, table, n) ==
    /\ \A i \in 0..(n - 1) : table[i + 1] \in [BandRange(s, i) -> Cell]
    /\ n > 0 => table[1] = FirstRow(s)
    /\ \A i \in 1..(n - 1) : \A j \in BandRange(s, i) :
            table[i + 1][j] = CellAt(s, table[i], i, j, valueAt(table[i + 1], j - 1))

(* A cost with something added is infinite only if it was.                 *)
LEMMA Plusses ==
  ASSUME NEW x \in Cost, NEW y \in Nat
  PROVE  /\ Plus(x, y) \in Cost
         /\ Plus(x, y) = Infinity <=> x = Infinity
         /\ x # Infinity => x \in Nat /\ Plus(x, y) = x + y
BY DEF Plus, Cost, Infinity

(* A cell computed from the row above and the cost to the left is a cell.  *)
LEMMA CellTypes ==
  ASSUME NEW s, Sampling(s), NEW i \in 1..LastRow(s), NEW above, NEW B, above \in [B -> Cell],
         NEW j \in BandRange(s, i), NEW left \in Cost
  PROVE  CellAt(s, above, i, j, left) \in [cost : Cost, direction : Directions]
<1>1. \A k : valueAt(above, k) \in Cost
  BY DEF valueAt, Cell, Cost
<1>2. s.transition \in Nat
  BY DEF Sampling
<1> DEFINE diagonal == valueAt(above, j - 1)
           up == Plus(valueAt(above, j), s.transition)
           side == Plus(left, s.transition)
           best == BestStep(diagonal, up, side)
<1>3. diagonal \in Cost /\ up \in Cost /\ side \in Cost
  <2>1. diagonal \in Cost /\ valueAt(above, j) \in Cost
    BY <1>1
  <2> QED BY <1>2, <2>1, Plusses
<1>4. CellAt(s, above, i, j, left) = [cost |-> Plus(best.cost, localDistance(s, i, j)), direction |-> best.direction]
  BY DEF CellAt
<1> HIDE DEF diagonal, up, side
<1>5. best \in [cost : Cost, direction : Directions]
  BY <1>3, BestOf
<1> HIDE DEF best
<1>6. localDistance(s, i, j) \in Nat
  <2>1. i \in 0..LastRow(s)
    OBVIOUS
  <2>2. j \in 0..(Count(s.dut.timestamps) - 1)
    BY <2>1, BandShape
  <2> QED BY <2>1, <2>2, Distances
<1>7. Plus(best.cost, localDistance(s, i, j)) \in Cost
  BY <1>5, <1>6, Plusses
<1> QED BY <1>4, <1>5, <1>7

(* The cells of the first row cost their distance and the penalty, and are *)
(* finite.                                                                 *)
LEMMA FirstRowTypes ==
  ASSUME NEW s, Sampling(s)
  PROVE  /\ FirstRow(s) \in [BandRange(s, 0) -> Cell]
         /\ \A j \in BandRange(s, 0) : FirstRow(s)[j].cost = localDistance(s, 0, j) + EndPenalty(s, j, s.start)
         /\ \A j \in BandRange(s, 0) : FirstRow(s)[j].cost \in Nat
<1>1. 0 \in 0..LastRow(s)
  <2>1. Valid(s.ref) /\ Count(s.ref.timestamps) \in Nat /\ Count(s.ref.timestamps) >= 2
    BY ValidParts DEF Sampling
  <2> QED BY <2>1 DEF LastRow
<1>2. BandRange(s, 0) \subseteq 0..(Count(s.dut.timestamps) - 1)
  BY <1>1, BandShape
<1>3. s.start \in Int
  BY DEF Sampling
<1>4. ASSUME NEW j \in BandRange(s, 0) PROVE localDistance(s, 0, j) + EndPenalty(s, j, s.start) \in Nat
  <2>1. j \in 0..(Count(s.dut.timestamps) - 1) /\ j \in Int
    BY <1>2
  <2>2. localDistance(s, 0, j) \in Nat
    BY <1>1, <2>1, Distances
  <2>3. EndPenalty(s, j, s.start) \in Nat
    BY <1>3, <2>1, Penalties
  <2> QED BY <2>2, <2>3
<1> QED BY <1>4 DEF FirstRow, Cell, Cost

(* Every cell of a row is computed from the row above and the cell to the  *)
(* left of it.                                                             *)
LEMMA RowFollows ==
  ASSUME NEW s, Sampling(s), NEW i \in 1..LastRow(s), NEW above, NEW B, above \in [B -> Cell],
         NEW row, row = RowOf(s, above, i)
  PROVE  /\ row \in [BandRange(s, i) -> Cell]
         /\ \A j \in BandRange(s, i) : row[j] = CellAt(s, above, i, j, valueAt(row, j - 1))
<1> DEFINE first == BandStart(s, i)
           last == BandEnd(s, i)
           V == [cost : Cost, direction : Directions]
           next == [j \in (first + 1)..last |-> [before \in V |-> CellAt(s, above, i, j, before.cost)]]
           initial == CellAt(s, above, i, first, Infinity)
<1>1. first \in Int /\ last \in Int /\ first <= last /\ BandRange(s, i) = first..last
  <2>1. i \in 0..LastRow(s)
    OBVIOUS
  <2> QED BY <2>1, BandShape DEF BandRange
<1>2. row = Loop(first, last, initial, next)
  BY DEF RowOf
<1> HIDE DEF first, last
<1>3. initial \in V
  <2>1. first \in BandRange(s, i) /\ Infinity \in Cost
    BY <1>1 DEF Cost
  <2> QED BY <2>1, CellTypes
<1>4. next \in [(first + 1)..last -> [V -> V]]
  <2>1. ASSUME NEW j \in (first + 1)..last, NEW before \in V
        PROVE  CellAt(s, above, i, j, before.cost) \in V
    <3>1. j \in BandRange(s, i) /\ before.cost \in Cost
      BY <1>1
    <3> QED BY <3>1, CellTypes
  <2> QED BY <2>1
<1>5. \A j \in (first + 1)..last : \A before \in V : next[j][before] = CellAt(s, above, i, j, before.cost)
  OBVIOUS
<1> HIDE DEF V, next, initial
<1>6. /\ row \in [first..last -> V]
      /\ row[first] = initial
      /\ \A j \in (first + 1)..last : row[j] = next[j][row[j - 1]]
  BY <1>1, <1>2, <1>3, <1>4, LoopComputes
<1>7. ASSUME NEW j \in first..last PROVE row[j] = CellAt(s, above, i, j, valueAt(row, j - 1))
  <2>1. CASE j = first
    <3>1. j - 1 \notin DOMAIN row
      BY <1>1, <1>6, <2>1
    <3> QED BY <1>6, <2>1, <3>1 DEF initial, valueAt
  <2>2. CASE j # first
    <3>1. j \in (first + 1)..last /\ j - 1 \in first..last /\ row[j - 1] \in V
      BY <1>1, <1>6, <2>2
    <3>2. row[j] = CellAt(s, above, i, j, row[j - 1].cost)
      BY <1>5, <1>6, <3>1
    <3>3. valueAt(row, j - 1) = row[j - 1].cost
      BY <1>6, <3>1 DEF valueAt
    <3> QED BY <3>2, <3>3
  <2> QED BY <2>1, <2>2
<1>8. V \subseteq Cell
  BY DEF V, Cell
<1> QED BY <1>1, <1>6, <1>7, <1>8

-----------------------------------------------------------------------------
(* Every cell costs what its best step does.                               *)

CostAt(table, c) == valueAt(table[c[1] + 1], c[2])

(* The cells that a step to a cell comes from.                             *)
Behind(c) == {<<c[1] - 1, c[2] - 1>>, <<c[1] - 1, c[2]>>, <<c[1], c[2] - 1>>}

(* A cell costs what the best step to it does.                             *)
Follows(s, table, c) ==
    /\ CostAt(table, c) # Infinity =>
            /\ Came(table, c) \in Behind(c)
            /\ CostAt(table, Came(table, c)) # Infinity
            /\ CostAt(table, c) = CostAt(table, Came(table, c)) + StepCost(s, Came(table, c), c)
    /\ \A p \in Behind(c) : CostAt(table, p) # Infinity =>
            /\ CostAt(table, c) # Infinity
            /\ CostAt(table, c) <= CostAt(table, p) + StepCost(s, p, c)

(* The costs in a table; outside of the band they are infinite.            *)
LEMMA CostsInTable ==
  ASSUME NEW s, Sampling(s), NEW n \in Nat, n <= LastRow(s) + 1, NEW table, TableOf(s, table, n),
         NEW i \in 0..(n - 1), NEW j \in Int
  PROVE  /\ valueAt(table[i + 1], j) \in Cost
         /\ DOMAIN table[i + 1] = BandRange(s, i)
         /\ valueAt(table[i + 1], j) # Infinity => j \in BandRange(s, i)
<1>1. table[i + 1] \in [BandRange(s, i) -> Cell]
  BY DEF TableOf
<1> QED BY <1>1 DEF valueAt, Cell, Cost

(* A cell of a later row costs what its best step does.                    *)
LEMMA CellFollows ==
  ASSUME NEW s, Sampling(s), NEW n \in Nat, n <= LastRow(s) + 1, NEW table, TableOf(s, table, n),
         NEW i \in 1..(n - 1), NEW j \in BandRange(s, i)
  PROVE  Follows(s, table, <<i, j>>)
<1> DEFINE d == localDistance(s, i, j)
           t == s.transition
           x == valueAt(table[i], j - 1)
           y == valueAt(table[i], j)
           z == valueAt(table[i + 1], j - 1)
           best == BestStep(x, Plus(y, t), Plus(z, t))
           cell == table[i + 1][j]
<1>1. i \in 0..LastRow(s) /\ i - 1 \in 0..(n - 1) /\ i \in 0..(n - 1) /\ (i - 1) + 1 = i /\ i \in Int
  <2>1. LastRow(s) \in Nat
    BY LastRows
  <2> QED BY <2>1
<1>2. j \in 0..(Count(s.dut.timestamps) - 1) /\ j \in Int /\ j - 1 \in Int
  BY <1>1, BandShape
<1>3. d \in Nat /\ t \in Nat
  BY <1>1, <1>2, Distances DEF Sampling
<1>4. x \in Cost /\ y \in Cost /\ z \in Cost
  BY <1>1, <1>2, CostsInTable
<1>5. cell = CellAt(s, table[i], i, j, z)
  BY <1>1 DEF TableOf
<1>6. cell = [cost |-> Plus(best.cost, d), direction |-> best.direction]
  BY <1>5 DEF CellAt
<1>7. CostAt(table, <<i, j>>) = cell.cost
  <2>1. j \in DOMAIN table[i + 1]
    BY <1>1, <1>2, CostsInTable
  <2> QED BY <2>1 DEF CostAt, valueAt
<1>8. /\ CostAt(table, <<i - 1, j - 1>>) = x /\ CostAt(table, <<i - 1, j>>) = y /\ CostAt(table, <<i, j - 1>>) = z
  BY <1>1 DEF CostAt
<1>9. /\ StepCost(s, <<i - 1, j - 1>>, <<i, j>>) = d
      /\ StepCost(s, <<i - 1, j>>, <<i, j>>) = d + t
      /\ StepCost(s, <<i, j - 1>>, <<i, j>>) = d + t
  <2>1. i - 1 # i /\ j - 1 # j
    BY <1>1, <1>2
  <2>2. d + 0 = d
    BY <1>3
  <2> HIDE DEF d, t
  <2> QED BY <2>1, <2>2 DEF StepCost, d, t
<1>10. Came(table, <<i, j>>) =
           IF cell.direction = "diagonal" THEN <<i - 1, j - 1>>
           ELSE IF cell.direction = "up" THEN <<i - 1, j>> ELSE <<i, j - 1>>
  BY DEF Came
<1> HIDE DEF d, t, x, y, z, cell
<1> DEFINE yy == Plus(y, t)
           zz == Plus(z, t)
<1>11. /\ yy \in Cost /\ zz \in Cost
       /\ (yy = Infinity <=> y = Infinity) /\ (zz = Infinity <=> z = Infinity)
       /\ y # Infinity => y \in Nat /\ yy = y + t
       /\ z # Infinity => z \in Nat /\ zz = z + t
       /\ x # Infinity => x \in Nat
  BY <1>3, <1>4, Plusses DEF Cost
<1>12. best = BestStep(x, yy, zz)
  OBVIOUS
<1> HIDE DEF yy, zz, best
<1>13. /\ best \in [cost : Cost, direction : Directions]
       /\ ~Less(x, best.cost) /\ ~Less(yy, best.cost) /\ ~Less(zz, best.cost)
       /\ best.direction = "diagonal" => best.cost = x
       /\ best.direction = "up" => best.cost = yy
       /\ best.direction = "left" => best.cost = zz
  BY <1>4, <1>11, <1>12, BestOf
<1> DEFINE b == best.cost
           e == cell.cost
<1>14. /\ b \in Cost /\ e = Plus(b, d) /\ e \in Cost
       /\ (e = Infinity <=> b = Infinity)
       /\ b # Infinity => b \in Nat /\ e = b + d
  <2>1. b \in Cost /\ e = Plus(b, d)
    BY <1>6, <1>13
  <2> HIDE DEF b, e
  <2> QED BY <1>3, <2>1, Plusses
<1>15. cell.direction = best.direction /\ best.direction \in Directions
  BY <1>6, <1>13
<1>16. /\ ~Less(x, b) /\ ~Less(yy, b) /\ ~Less(zz, b)
       /\ best.direction = "diagonal" => b = x
       /\ best.direction = "up" => b = yy
       /\ best.direction = "left" => b = zz
  BY <1>13
<1> HIDE DEF b, e
<1>17. /\ x # Infinity => e # Infinity /\ e <= x + d
       /\ y # Infinity => e # Infinity /\ e <= y + (d + t)
       /\ z # Infinity => e # Infinity /\ e <= z + (d + t)
  <2>1. x # Infinity => b # Infinity /\ b <= x
    BY <1>11, <1>14, <1>16 DEF Less
  <2>2. yy # Infinity => b # Infinity /\ b <= yy
    BY <1>11, <1>14, <1>16 DEF Less, Cost
  <2>3. zz # Infinity => b # Infinity /\ b <= zz
    BY <1>11, <1>14, <1>16 DEF Less, Cost
  <2> QED BY <1>3, <1>11, <1>14, <2>1, <2>2, <2>3
<1>18. e # Infinity =>
          /\ best.direction = "diagonal" => x # Infinity /\ e = x + d
          /\ best.direction = "up" => y # Infinity /\ e = y + (d + t)
          /\ best.direction = "left" => z # Infinity /\ e = z + (d + t)
  BY <1>3, <1>11, <1>14, <1>16
<1> DEFINE P == <<i - 1, j - 1>>
           Q == <<i - 1, j>>
           S == <<i, j - 1>>
           c == <<i, j>>
<1>19. Behind(c) = {P, Q, S}
  BY DEF Behind
<1>20. CostAt(table, c) = e /\ CostAt(table, P) = x /\ CostAt(table, Q) = y /\ CostAt(table, S) = z
  BY <1>7, <1>8 DEF e
<1>21. StepCost(s, P, c) = d /\ StepCost(s, Q, c) = d + t /\ StepCost(s, S, c) = d + t
  BY <1>9
<1>22. Came(table, c) = IF best.direction = "diagonal" THEN P ELSE IF best.direction = "up" THEN Q ELSE S
  BY <1>10, <1>15
<1> HIDE DEF P, Q, S, c
<1>23. CostAt(table, c) # Infinity =>
            /\ Came(table, c) \in Behind(c)
            /\ CostAt(table, Came(table, c)) # Infinity
            /\ CostAt(table, c) = CostAt(table, Came(table, c)) + StepCost(s, Came(table, c), c)
  BY <1>15, <1>18, <1>19, <1>20, <1>21, <1>22 DEF Directions
<1>24. \A p \in Behind(c) : CostAt(table, p) # Infinity =>
            /\ CostAt(table, c) # Infinity
            /\ CostAt(table, c) <= CostAt(table, p) + StepCost(s, p, c)
  BY <1>17, <1>19, <1>20, <1>21
<1> QED BY <1>23, <1>24 DEF Follows, c

Table(s, table) ==
    /\ table \in Seq(UNION {[BandRange(s, i) -> Cell] : i \in 0..LastRow(s)})
    /\ Len(table) <= LastRow(s) + 1
    /\ TableOf(s, table, Len(table))

(* A table with the next row appended is a table.                          *)
LEMMA TableGrows ==
  ASSUME NEW s, Sampling(s), NEW table, Table(s, table), Len(table) <= LastRow(s),
         NEW n, n = Len(table),
         NEW row, row = IF n = 0 THEN FirstRow(s) ELSE RowOf(s, table[n], n)
  PROVE  Table(s, Append(table, row)) /\ Len(Append(table, row)) = Len(table) + 1
<1> DEFINE R == UNION {[BandRange(s, i) -> Cell] : i \in 0..LastRow(s)}
           new == Append(table, row)
<1>1. LastRow(s) \in Nat /\ n \in Nat /\ n <= LastRow(s) /\ table \in Seq(R) /\ TableOf(s, table, n)
  BY LastRows DEF Table
<1>2. /\ row \in [BandRange(s, n) -> Cell]
      /\ n = 0 => row = FirstRow(s)
      /\ n > 0 => \A j \in BandRange(s, n) : row[j] = CellAt(s, table[n], n, j, valueAt(row, j - 1))
  <2>1. CASE n = 0
    BY <2>1, FirstRowTypes
  <2>2. CASE n # 0
    <3>1. n \in 1..LastRow(s) /\ n - 1 \in 0..(n - 1) /\ (n - 1) + 1 = n /\ row = RowOf(s, table[n], n)
      BY <1>1, <2>2
    <3>2. table[n] \in [BandRange(s, n - 1) -> Cell]
      BY <1>1, <3>1 DEF TableOf
    <3>3. /\ row \in [BandRange(s, n) -> Cell]
          /\ \A j \in BandRange(s, n) : row[j] = CellAt(s, table[n], n, j, valueAt(row, j - 1))
      BY <3>1, <3>2, RowFollows
    <3> QED BY <2>2, <3>3
  <2> QED BY <2>1, <2>2
<1>3. row \in R
  <2>1. n \in 0..LastRow(s)
    BY <1>1
  <2> QED BY <1>2, <2>1
<1> HIDE DEF R
<1>4. /\ new \in Seq(R) /\ Len(new) = n + 1
      /\ \A i \in 1..n : new[i] = table[i]
      /\ new[n + 1] = row
  BY <1>1, <1>3
<1> HIDE DEF new
<1>5. TableOf(s, new, n + 1)
  <2>1. ASSUME NEW i \in 0..n PROVE new[i + 1] \in [BandRange(s, i) -> Cell]
    <3>1. CASE i = n
      BY <1>2, <1>4, <3>1
    <3>2. CASE i # n
      <4>1. i \in 0..(n - 1) /\ i + 1 \in 1..n
        BY <1>1, <3>2
      <4> QED BY <1>1, <1>4, <4>1 DEF TableOf
    <3> QED BY <3>1, <3>2
  <2>2. new[1] = FirstRow(s)
    <3>1. CASE n = 0
      BY <1>2, <1>4, <3>1
    <3>2. CASE n # 0
      <4>1. 1 \in 1..n /\ n > 0
        BY <1>1, <3>2
      <4> QED BY <1>1, <1>4, <4>1 DEF TableOf
    <3> QED BY <3>1, <3>2
  <2>3. ASSUME NEW i \in 1..n, NEW j \in BandRange(s, i)
        PROVE  new[i + 1][j] = CellAt(s, new[i], i, j, valueAt(new[i + 1], j - 1))
    <3>1. CASE i = n
      <4>1. i + 1 = n + 1 /\ n > 0 /\ new[i] = table[n]
        BY <1>1, <1>4, <3>1
      <4> QED BY <1>2, <1>4, <3>1, <4>1
    <3>2. CASE i # n
      <4>1. i \in 1..(n - 1) /\ i + 1 \in 1..n /\ i \in 1..n
        BY <1>1, <3>2
      <4>2. table[i + 1][j] = CellAt(s, table[i], i, j, valueAt(table[i + 1], j - 1))
        BY <1>1, <4>1 DEF TableOf
      <4> QED BY <1>4, <4>1, <4>2
    <3> QED BY <3>1, <3>2
  <2>4. (n + 1) - 1 = n
    BY <1>1
  <2> QED BY <2>1, <2>2, <2>3, <2>4 DEF TableOf
<1> QED BY <1>1, <1>4, <1>5 DEF Table, R, new

WaySet == [cells : Seq(Nat \X Nat), cost : Nat]

(* The cells of the band.                                                  *)
InTheBand(s, c) == c \in Nat \X Nat /\ c[1] \in 0..LastRow(s) /\ c[2] \in BandRange(s, c[1])

(* A step costs a natural number.                                          *)
LEMMA StepCosts ==
  ASSUME NEW s, Sampling(s), NEW c, InTheBand(s, c), NEW p
  PROVE  StepCost(s, p, c) \in Nat
<1>1. c[1] \in 0..LastRow(s) /\ c[2] \in BandRange(s, c[1])
  BY DEF InTheBand
<1>2. c[2] \in 0..(Count(s.dut.timestamps) - 1)
  BY <1>1, BandShape
<1>3. localDistance(s, c[1], c[2]) \in Nat
  BY <1>1, <1>2, Distances
<1>4. s.transition \in Nat
  BY DEF Sampling
<1> QED BY <1>3, <1>4 DEF StepCost

(* The steps on from a cell stay in the band, in a later row than the      *)
(* first.                                                                  *)
LEMMA StepsOn ==
  ASSUME NEW s, Sampling(s), NEW p, NEW c \in WaysOn(s, p)
  PROVE  InTheBand(s, c) /\ c[1] \in 1..LastRow(s)
<1>1. c[1] \in 1..LastRow(s) /\ c[2] \in BandRange(s, c[1]) /\ c = <<c[1], c[2]>>
  BY DEF WaysOn
<1>2. c[1] \in 0..LastRow(s) /\ c[1] \in Nat
  BY <1>1, LastRows
<1>3. c[2] \in Nat
  BY <1>1, <1>2, BandShape
<1> QED BY <1>1, <1>2, <1>3 DEF InTheBand

(* A way that is one step longer is a way.                                 *)
LEMMA LongerWays ==
  ASSUME NEW s, Sampling(s), NEW w \in WaySet
  PROVE  Longer(s, w) \subseteq WaySet
<1>1. ASSUME NEW c \in WaysOn(s, Last(w.cells))
      PROVE  [cells |-> Append(w.cells, c), cost |-> w.cost + StepCost(s, Last(w.cells), c)] \in WaySet
  <2>1. InTheBand(s, c)
    BY StepsOn
  <2>2. StepCost(s, Last(w.cells), c) \in Nat
    BY <2>1, StepCosts
  <2>3. c \in Nat \X Nat
    BY <2>1 DEF InTheBand
  <2>4. w.cells \in Seq(Nat \X Nat) /\ w.cost \in Nat
    BY DEF WaySet
  <2>5. Append(w.cells, c) \in Seq(Nat \X Nat)
    BY <2>3, <2>4
  <2>6. w.cost + StepCost(s, Last(w.cells), c) \in Nat
    BY <2>2, <2>4
  <2> QED BY <2>5, <2>6 DEF WaySet
<1> QED BY <1>1 DEF Longer

(* The bound on the length of a way.                                       *)
LEMMA LongestIs ==
  ASSUME NEW s, Sampling(s)
  PROVE  Longest(s) \in Nat /\ Longest(s) >= 4
         /\ Longest(s) = LastRow(s) + 1 + Count(s.dut.timestamps) /\ Count(s.dut.timestamps) \in Nat
<1>1. Count(s.dut.timestamps) \in Nat /\ Count(s.dut.timestamps) >= 2
  BY ValidParts DEF Sampling
<1> QED BY <1>1, LastRows DEF Longest

Starts(s) ==
    {[cells |-> <<<<0, j>>>>, cost |-> localDistance(s, 0, j) + EndPenalty(s, j, s.start)] : j \in BandRange(s, 0)}

(* The ways of each length, from those one shorter.                        *)
LEMMA WaysComputed ==
  ASSUME NEW s, Sampling(s), NEW ways, ways = Ways(s)
  PROVE  /\ ways \in [1..Longest(s) -> SUBSET WaySet]
         /\ ways[1] = Starts(s)
         /\ \A n \in 2..Longest(s) : ways[n] = UNION {Longer(s, w) : w \in ways[n - 1]}
<1> DEFINE V == SUBSET WaySet
           next == [n \in 2..Longest(s) |-> [some \in V |-> UNION {Longer(s, w) : w \in some}]]
<1>1. ways = Loop(1, Longest(s), Starts(s), next)
  BY DEF Ways, Starts, WaySet
<1>2. Longest(s) \in Nat /\ Longest(s) >= 4
  BY LongestIs
<1>3. Starts(s) \in V
  <2>1. ASSUME NEW j \in BandRange(s, 0)
        PROVE  [cells |-> <<<<0, j>>>>, cost |-> localDistance(s, 0, j) + EndPenalty(s, j, s.start)] \in WaySet
    <3>1. localDistance(s, 0, j) + EndPenalty(s, j, s.start) \in Nat
      BY FirstRowTypes
    <3>2. j \in Nat
      <4>1. 0 \in 0..LastRow(s)
        BY LastRows
      <4> QED BY <4>1, BandShape
    <3>3. <<<<0, j>>>> \in Seq(Nat \X Nat)
      BY <3>2
    <3> QED BY <3>1, <3>3 DEF WaySet
  <2> QED BY <2>1 DEF Starts
<1>4. \A some \in V : UNION {Longer(s, w) : w \in some} \in V
  BY LongerWays
<1>5. next \in [2..Longest(s) -> [V -> V]]
  <2> HIDE DEF V
  <2> QED BY <1>4
<1>6. \A n \in 2..Longest(s) : \A some \in V : next[n][some] = UNION {Longer(s, w) : w \in some}
  OBVIOUS
<1> HIDE DEF V, next
<1>7. /\ ways \in [1..Longest(s) -> V]
      /\ ways[1] = Starts(s)
      /\ \A n \in 2..Longest(s) : ways[n] = next[n][ways[n - 1]]
  <2> DEFINE m == Longest(s)
             initial == Starts(s)
             L == Loop(1, m, initial, next)
  <2>1. m \in Nat /\ m >= 1 /\ initial \in V /\ next \in [2..m -> [V -> V]]
    BY <1>2, <1>3, <1>5
  <2>2. ways = L
    BY <1>1
  <2> HIDE DEF m, initial
  <2>3. /\ L \in [1..m -> V]
        /\ L[1] = initial
        /\ \A n \in 2..m : L[n] = next[n][L[n - 1]]
    BY <2>1, LoopFromOne
  <2> HIDE DEF L
  <2> QED BY <2>2, <2>3 DEF m, initial
<1>8. ASSUME NEW n \in 2..Longest(s) PROVE ways[n] = UNION {Longer(s, w) : w \in ways[n - 1]}
  <2>1. n - 1 \in 1..Longest(s)
    BY <1>2
  <2>2. ways[n - 1] \in V
    BY <1>7, <2>1
  <2> QED BY <1>6, <1>7, <2>2
<1> QED BY <1>7, <1>8 DEF V

-----------------------------------------------------------------------------
(* No way through costs less than its cell.                                *)

(* A whole table.                                                          *)
Full(s, table) == Sampling(s) /\ TableOf(s, table, LastRow(s) + 1)

(* What is known of a cell of a full table.                                *)
LEMMA FullTable ==
  ASSUME NEW s, NEW table, Full(s, table), NEW c, InTheBand(s, c)
  PROVE  /\ InBand(table, c) /\ CostAt(table, c) \in Cost
         /\ c[1] = 0 => CostAt(table, c) = localDistance(s, 0, c[2]) + EndPenalty(s, c[2], s.start)
         /\ c[1] = 0 => CostAt(table, c) \in Nat
         /\ c[1] # 0 => Follows(s, table, c)
<1>1. Sampling(s) /\ TableOf(s, table, LastRow(s) + 1) /\ LastRow(s) \in Nat
      /\ LastRow(s) + 1 \in Nat /\ LastRow(s) + 1 <= LastRow(s) + 1 /\ (LastRow(s) + 1) - 1 = LastRow(s)
      /\ LastRow(s) + 1 > 0
  BY LastRows DEF Full
<1>2. c[1] \in 0..LastRow(s) /\ c[2] \in BandRange(s, c[1]) /\ c = <<c[1], c[2]>> /\ c[2] \in Int
  BY DEF InTheBand
<1>3. CostAt(table, c) \in Cost /\ InBand(table, c)
  BY <1>1, <1>2, CostsInTable DEF CostAt, InBand
<1>4. ASSUME c[1] = 0
      PROVE  /\ CostAt(table, c) = localDistance(s, 0, c[2]) + EndPenalty(s, c[2], s.start)
             /\ CostAt(table, c) \in Nat
  <2>1. table[1] = FirstRow(s)
    BY <1>1 DEF TableOf
  <2>2. CostAt(table, c) = FirstRow(s)[c[2]].cost
    BY <1>2, <1>3, <1>4, <2>1 DEF CostAt, valueAt, InBand
  <2> QED BY <1>1, <1>2, <1>4, <2>2, FirstRowTypes
<1>5. ASSUME c[1] # 0 PROVE Follows(s, table, c)
  <2>1. c[1] \in 1..((LastRow(s) + 1) - 1)
    BY <1>1, <1>2, <1>5
  <2>2. Follows(s, table, <<c[1], c[2]>>)
    BY <1>1, <1>2, <2>1, CellFollows
  <2> QED BY <1>2, <2>2
<1> QED BY <1>3, <1>4, <1>5

(* A way through the band costs no less than the cell it leads to.         *)
Dearer(s, table, w) ==
    LET c == w.cells[Len(w.cells)]
    IN  /\ w \in WaySet /\ w.cells # <<>>
        /\ InTheBand(s, c) /\ CostAt(table, c) \in Nat /\ CostAt(table, c) <= w.cost

(* A way of one cell costs no less than its cell.                          *)
LEMMA StartsAreDearer ==
  ASSUME NEW s, NEW table, Full(s, table), NEW w \in Starts(s)
  PROVE  Dearer(s, table, w)
<1>1. Sampling(s)
  BY DEF Full
<1>2. w \in WaySet
  <2>1. 1 \in 1..Longest(s)
    BY <1>1, LongestIs
  <2>2. Ways(s) \in [1..Longest(s) -> SUBSET WaySet] /\ Ways(s)[1] = Starts(s)
    BY <1>1, WaysComputed
  <2> QED BY <2>1, <2>2
<1>3. PICK j \in BandRange(s, 0) :
          w = [cells |-> <<<<0, j>>>>, cost |-> localDistance(s, 0, j) + EndPenalty(s, j, s.start)]
  BY DEF Starts
<1> DEFINE c == <<0, j>>
<1>4. InTheBand(s, c)
  <2>1. 0 \in 0..LastRow(s)
    BY <1>1, LastRows
  <2>2. j \in Nat
    BY <1>1, <2>1, BandShape
  <2> QED BY <2>1, <2>2 DEF InTheBand
<1>5. c[1] = 0 /\ c[2] = j
  OBVIOUS
<1>6. w.cells = <<c>> /\ w.cost = localDistance(s, 0, j) + EndPenalty(s, j, s.start)
  BY <1>3
<1> HIDE DEF c
<1>7. CostAt(table, c) = localDistance(s, 0, j) + EndPenalty(s, j, s.start) /\ CostAt(table, c) \in Nat
  BY <1>4, <1>5, FullTable
<1>8. w.cells # <<>> /\ w.cells[Len(w.cells)] = c
  BY <1>6
<1>9. CostAt(table, c) <= w.cost
  BY <1>6, <1>7
<1> QED BY <1>2, <1>4, <1>7, <1>8, <1>9 DEF Dearer

(* If a way costs no less than its cell, then one a step longer does not   *)
(* either.                                                                 *)
LEMMA LongerAreDearer ==
  ASSUME NEW s, NEW table, Full(s, table), NEW w, Dearer(s, table, w), NEW x \in Longer(s, w)
  PROVE  Dearer(s, table, x)
<1> DEFINE p == Last(w.cells)
<1>1. Sampling(s) /\ w \in WaySet /\ w.cells # <<>> /\ p = w.cells[Len(w.cells)]
      /\ InTheBand(s, p) /\ CostAt(table, p) \in Nat /\ CostAt(table, p) <= w.cost
  BY DEF Full, Dearer, Last
<1>2. x \in WaySet
  BY <1>1, LongerWays
<1>3. PICK c \in WaysOn(s, p) : x = [cells |-> Append(w.cells, c), cost |-> w.cost + StepCost(s, p, c)]
  BY DEF Longer
<1>4. InTheBand(s, c) /\ c[1] \in 1..LastRow(s)
  BY <1>1, StepsOn
<1>5. p \in Behind(c)
  <2>1. c \in {<<p[1] + 1, p[2] + 1>>, <<p[1] + 1, p[2]>>, <<p[1], p[2] + 1>>}
    BY DEF WaysOn
  <2>2. p = <<p[1], p[2]>> /\ p[1] \in Int /\ p[2] \in Int
    BY <1>1 DEF InTheBand
  <2> HIDE DEF p
  <2>3. CASE c = <<p[1] + 1, p[2] + 1>>
    <3>1. c[1] - 1 = p[1] /\ c[2] - 1 = p[2]
      BY <2>2, <2>3
    <3> QED BY <2>2, <3>1 DEF Behind
  <2>4. CASE c = <<p[1] + 1, p[2]>>
    <3>1. c[1] - 1 = p[1] /\ c[2] = p[2]
      BY <2>2, <2>4
    <3> QED BY <2>2, <3>1 DEF Behind
  <2>5. CASE c = <<p[1], p[2] + 1>>
    <3>1. c[1] = p[1] /\ c[2] - 1 = p[2]
      BY <2>2, <2>5
    <3> QED BY <2>2, <3>1 DEF Behind
  <2> QED BY <2>1, <2>3, <2>4, <2>5
<1> HIDE DEF p
<1>6. Follows(s, table, c)
  <2>1. c[1] # 0
    BY <1>4
  <2> QED BY <1>4, <2>1, FullTable
<1>7. CostAt(table, p) # Infinity
  BY <1>1 DEF Infinity
<1>8. CostAt(table, c) # Infinity /\ CostAt(table, c) <= CostAt(table, p) + StepCost(s, p, c)
  BY <1>5, <1>6, <1>7 DEF Follows
<1>9. CostAt(table, c) \in Nat
  BY <1>4, <1>8, FullTable DEF Cost
<1>10. w.cells \in Seq(Nat \X Nat) /\ w.cost \in Nat /\ c \in Nat \X Nat /\ StepCost(s, p, c) \in Nat
  BY <1>1, <1>4, StepCosts DEF WaySet, InTheBand
<1>11. x.cells # <<>> /\ x.cells[Len(x.cells)] = c /\ x.cost = w.cost + StepCost(s, p, c)
  <2> DEFINE q == w.cells
  <2>1. x.cells = Append(q, c) /\ x.cost = w.cost + StepCost(s, p, c) /\ q \in Seq(Nat \X Nat)
    BY <1>3, <1>10
  <2> HIDE DEF q
  <2> DEFINE r == Append(q, c)
  <2>2. c \in Nat \X Nat
    BY <1>10
  <2>3. r \in Seq(Nat \X Nat) /\ Len(r) = Len(q) + 1 /\ Len(q) \in Nat /\ r[Len(q) + 1] = c
    <3> HIDE DEF p
    <3> QED BY <2>1, <2>2
  <2> HIDE DEF r
  <2>4. r # <<>> /\ r[Len(r)] = c
    BY <2>3
  <2> QED BY <2>1, <2>4 DEF r
<1>12. CostAt(table, c) <= x.cost
  BY <1>1, <1>8, <1>9, <1>10, <1>11
<1> QED BY <1>2, <1>4, <1>9, <1>11, <1>12 DEF Dearer

(* No way costs less than the cell it ends in.                             *)
LEMMA WaysAreDearer ==
  ASSUME NEW s, NEW table, Full(s, table), NEW n \in 1..Longest(s), NEW w \in Ways(s)[n]
  PROVE  Dearer(s, table, w)
<1> DEFINE m == Longest(s)
           ways == Ways(s)
           S == {k \in 1..m : \A v \in ways[k] : Dearer(s, table, v)}
<1>1. Sampling(s) /\ m \in Nat /\ m >= 4
  BY LongestIs DEF Full
<1>2. /\ ways[1] = Starts(s)
      /\ \A k \in 2..m : ways[k] = UNION {Longer(s, v) : v \in ways[k - 1]}
  BY <1>1, WaysComputed
<1> HIDE DEF m, ways
<1>3. 1 \in S
  <2>1. \A v \in ways[1] : Dearer(s, table, v)
    BY <1>2, StartsAreDearer
  <2> QED BY <1>1, <2>1
<1>4. ASSUME NEW k \in 2..m, k - 1 \in S PROVE k \in S
  <2>1. ASSUME NEW x \in ways[k] PROVE Dearer(s, table, x)
    <3>1. PICK v \in ways[k - 1] : x \in Longer(s, v)
      BY <1>2
    <3>2. Dearer(s, table, v)
      BY <1>4
    <3> QED BY <3>1, <3>2, LongerAreDearer
  <2> QED BY <1>1, <2>1
<1>5. \A k \in 1..m : k \in S
  <2>1. 1 \in Int /\ m \in Int /\ (1 + 1)..m = 2..m
    BY <1>1
  <2> HIDE DEF S
  <2> QED BY <1>3, <1>4, <2>1, IntervalInduction
<1> QED BY <1>5 DEF m, ways

-----------------------------------------------------------------------------
(* The way back is a way through, of that cost.                            *)

(* The direction of a cell leads to one in the band that costs less by the *)
(* step between them.                                                      *)
LEMMA CameFrom ==
  ASSUME NEW s, NEW table, Full(s, table), NEW c, InTheBand(s, c), CostAt(table, c) \in Nat, c[1] # 0,
         NEW p, p = Came(table, c)
  PROVE  /\ InTheBand(s, p) /\ CostAt(table, p) \in Nat
         /\ p[1] + p[2] <= c[1] + c[2] - 1
         /\ c \in WaysOn(s, p)
         /\ CostAt(table, c) = CostAt(table, p) + StepCost(s, p, c)
<1>1. Sampling(s) /\ TableOf(s, table, LastRow(s) + 1) /\ LastRow(s) \in Nat
      /\ LastRow(s) + 1 \in Nat /\ LastRow(s) + 1 <= LastRow(s) + 1 /\ (LastRow(s) + 1) - 1 = LastRow(s)
  BY LastRows DEF Full
<1>2. CostAt(table, c) # Infinity
  BY DEF Infinity
<1>3. p \in Behind(c) /\ CostAt(table, p) # Infinity /\ CostAt(table, c) = CostAt(table, p) + StepCost(s, p, c)
  BY <1>2, FullTable DEF Follows
<1>4. c = <<c[1], c[2]>> /\ c[1] \in 1..LastRow(s) /\ c[2] \in BandRange(s, c[1]) /\ c[1] \in Nat /\ c[2] \in Nat
  BY <1>1 DEF InTheBand
<1> DEFINE x == c[1]
           y == c[2]
<1>5. p \in {<<x - 1, y - 1>>, <<x - 1, y>>, <<x, y - 1>>} /\ c = <<x, y>> /\ x \in 1..LastRow(s) /\ x \in Nat /\ y \in Nat
      /\ y \in BandRange(s, x)
  BY <1>3, <1>4 DEF Behind
<1> HIDE DEF x, y
<1>6. p = <<p[1], p[2]>> /\ p[1] \in 0..LastRow(s) /\ p[2] \in Int /\ p[1] + p[2] <= x + y - 1
  BY <1>1, <1>5
<1>7. valueAt(table[p[1] + 1], p[2]) # Infinity
  BY <1>3 DEF CostAt
<1>8. p[2] \in BandRange(s, p[1]) /\ valueAt(table[p[1] + 1], p[2]) \in Cost
  BY <1>1, <1>6, <1>7, CostsInTable
<1>9. p[2] \in Nat /\ p[1] \in Nat
  BY <1>1, <1>6, <1>8, BandShape
<1>10. InTheBand(s, p)
  BY <1>6, <1>8, <1>9 DEF InTheBand
<1>11. CostAt(table, p) \in Nat
  BY <1>7, <1>8 DEF CostAt, Cost
<1>12. c \in WaysOn(s, p)
  <2>1. c \in {<<p[1] + 1, p[2] + 1>>, <<p[1] + 1, p[2]>>, <<p[1], p[2] + 1>>}
    <3>1. CASE p = <<x - 1, y - 1>>
      <4>1. p[1] + 1 = x /\ p[2] + 1 = y
        BY <1>5, <3>1
      <4> QED BY <1>5, <4>1
    <3>2. CASE p = <<x - 1, y>>
      <4>1. p[1] + 1 = x /\ p[2] = y
        BY <1>5, <3>2
      <4> QED BY <1>5, <4>1
    <3>3. CASE p = <<x, y - 1>>
      <4>1. p[1] = x /\ p[2] + 1 = y
        BY <1>5, <3>3
      <4> QED BY <1>5, <4>1
    <3> QED BY <1>5, <3>1, <3>2, <3>3
  <2> QED BY <1>4, <2>1 DEF WaysOn
<1>13. p[1] + p[2] <= c[1] + c[2] - 1
  BY <1>6 DEF x, y
<1> QED BY <1>3, <1>10, <1>11, <1>12, <1>13

(* The way back, step by step.                                             *)
LEMMA WalkComputed ==
  ASSUME NEW s, Sampling(s), NEW table, NEW cell \in Nat \X Int, NEW back, back = Walk(s, table, cell)
  PROVE  /\ back[0] = cell
         /\ \A k \in 1..Longest(s) :
                back[k] = IF Stops(table, back[k - 1]) THEN back[k - 1] ELSE Came(table, back[k - 1])
<1> DEFINE n == Longest(s)
           V == Nat \X Int
           next == [k \in 1..n |-> [c \in V |-> IF Stops(table, c) THEN c ELSE Came(table, c)]]
<1>1. n \in Nat
  BY LongestIs
<1>2. back = Loop(0, n, cell, next)
  BY DEF Walk
<1>3. ASSUME NEW c \in V, ~Stops(table, c) PROVE Came(table, c) \in V
  <2>1. c[1] # 0 /\ c[1] \in Nat /\ c[2] \in Int
    BY <1>3 DEF Stops
  <2> QED BY <2>1 DEF Came
<1>4. next \in [1..n -> [V -> V]]
  <2>1. ASSUME NEW c \in V PROVE (IF Stops(table, c) THEN c ELSE Came(table, c)) \in V
    BY <1>3
  <2> HIDE DEF V, n
  <2> QED BY <2>1
<1>5. \A k \in 1..n : \A c \in V : next[k][c] = IF Stops(table, c) THEN c ELSE Came(table, c)
  OBVIOUS
<1>6. cell \in V
  OBVIOUS
<1> HIDE DEF V, n, next
<1>7. /\ back \in [0..n -> V]
      /\ back[0] = cell
      /\ \A k \in 1..n : back[k] = next[k][back[k - 1]]
  <2> DEFINE L == Loop(0, n, cell, next)
  <2>1. /\ L \in [0..n -> V]
        /\ L[0] = cell
        /\ \A k \in 1..n : L[k] = next[k][L[k - 1]]
    BY <1>1, <1>4, <1>6, LoopFromZero
  <2>2. back = L
    BY <1>2
  <2> HIDE DEF L
  <2> QED BY <2>1, <2>2
<1>8. ASSUME NEW k \in 1..n
      PROVE  back[k] = IF Stops(table, back[k - 1]) THEN back[k - 1] ELSE Came(table, back[k - 1])
  <2>1. k - 1 \in 0..n
    BY <1>1
  <2>2. back[k - 1] \in V
    BY <1>7, <2>1
  <2> QED BY <1>5, <1>7, <2>2
<1> QED BY <1>7, <1>8 DEF n

(* A walk back stays in the band, and every step is one nearer to its end. *)
OnTheWay(s, table, cell, c, k) ==
    /\ InTheBand(s, c) /\ CostAt(table, c) \in Nat
    /\ c[1] # 0 => c[1] + c[2] <= cell[1] + cell[2] - k

(* The way back stays in the band; reversed it is a way, and it costs what *)
(* its cell does.                                                          *)
LEMMA WalkStays ==
  ASSUME NEW s, NEW table, Full(s, table), NEW cell, InTheBand(s, cell), CostAt(table, cell) \in Nat,
         NEW back, back = Walk(s, table, cell)
  PROVE  \A k \in 0..Longest(s) : OnTheWay(s, table, cell, back[k], k)
<1> DEFINE n == Longest(s)
           S == {k \in 0..n : OnTheWay(s, table, cell, back[k], k)}
<1>1. Sampling(s) /\ n \in Nat
  BY LongestIs DEF Full
<1>2. cell \in Nat \X Int /\ cell[1] + cell[2] \in Nat
  BY DEF InTheBand
<1>3. /\ back[0] = cell
      /\ \A k \in 1..n :
             back[k] = IF Stops(table, back[k - 1]) THEN back[k - 1] ELSE Came(table, back[k - 1])
  BY <1>1, <1>2, WalkComputed
<1> HIDE DEF n
<1>4. 0 \in S
  <2>1. OnTheWay(s, table, cell, back[0], 0)
    BY <1>2, <1>3 DEF OnTheWay
  <2> QED BY <1>1, <2>1
<1>5. ASSUME NEW k \in 1..n, k - 1 \in S PROVE k \in S
  <2> DEFINE c == back[k - 1]
             p == Came(table, c)
  <2>1. OnTheWay(s, table, cell, c, k - 1)
    BY <1>5
  <2>2. back[k] = IF Stops(table, c) THEN c ELSE p
    BY <1>3
  <2> HIDE DEF c
  <2>3. InTheBand(s, c) /\ CostAt(table, c) \in Nat /\ (c[1] # 0 => c[1] + c[2] <= cell[1] + cell[2] - (k - 1))
    BY <2>1 DEF OnTheWay
  <2>4. Stops(table, c) <=> c[1] = 0
    BY <2>3, FullTable DEF Stops
  <2>5. CASE c[1] = 0
    <3>1. OnTheWay(s, table, cell, c, k)
      BY <2>3, <2>5 DEF OnTheWay
    <3> QED BY <1>1, <2>2, <2>4, <2>5, <3>1
  <2>6. CASE c[1] # 0
    <3>1. InTheBand(s, p) /\ CostAt(table, p) \in Nat /\ p[1] + p[2] <= c[1] + c[2] - 1
      BY <2>3, <2>6, CameFrom
    <3>2. p[1] + p[2] <= cell[1] + cell[2] - k
      <4>1. p[1] \in Nat /\ p[2] \in Nat /\ c[1] \in Nat /\ c[2] \in Nat
        BY <2>3, <3>1 DEF InTheBand
      <4> HIDE DEF p
      <4>2. c[1] + c[2] <= cell[1] + cell[2] - (k - 1)
        BY <2>3, <2>6
      <4> QED BY <1>2, <3>1, <4>1, <4>2
    <3>3. OnTheWay(s, table, cell, p, k)
      BY <3>1, <3>2 DEF OnTheWay
    <3> QED BY <1>1, <2>2, <2>4, <2>6, <3>3
  <2> QED BY <2>5, <2>6
<1>6. \A k \in 0..n : k \in S
  <2> HIDE DEF S
  <2> QED BY <1>1, <1>4, <1>5, Induction
<1> QED BY <1>6 DEF n

(* The path to a cell is one of the ways through the band.                 *)
LEMMA PathIsWay ==
  ASSUME NEW s, NEW table, Full(s, table), NEW cell, InTheBand(s, cell), CostAt(table, cell) \in Nat,
         NEW path, path = PathTo(s, table, cell)
  PROVE  /\ path # <<>>
         /\ \E n \in 1..Longest(s) : \E w \in Ways(s)[n] :
                /\ w.cells = path /\ w.cost = CostAt(table, cell)
                /\ w.cells[Len(w.cells)] = cell
<1> DEFINE back == Walk(s, table, cell)
           n == Longest(s)
           stops == {k \in 0..n : Stops(table, back[k])}
           steps == Min(stops)
<1>1. Sampling(s) /\ n \in Nat /\ n >= 4 /\ n = LastRow(s) + 1 + Count(s.dut.timestamps) /\ LastRow(s) \in Nat
  BY LongestIs, LastRows DEF Full
<1>2. cell \in Nat \X Int /\ cell[1] + cell[2] \in Nat /\ cell[1] + cell[2] <= n - 2
  <2>1. cell \in Nat \X Nat /\ cell[1] \in 0..LastRow(s) /\ cell[2] \in BandRange(s, cell[1])
    BY DEF InTheBand
  <2>2. cell[2] \in 0..(Count(s.dut.timestamps) - 1)
    BY <1>1, <2>1, BandShape
  <2>3. Count(s.dut.timestamps) \in Nat
    BY <1>1, LongestIs
  <2> HIDE DEF n
  <2> QED BY <1>1, <2>1, <2>2, <2>3
<1>3. /\ back[0] = cell
      /\ \A k \in 1..n :
             back[k] = IF Stops(table, back[k - 1]) THEN back[k - 1] ELSE Came(table, back[k - 1])
  BY <1>1, <1>2, WalkComputed
<1>4. \A k \in 0..n : OnTheWay(s, table, cell, back[k], k)
  BY WalkStays
<1>5. path = IF stops = {} \/ ~InBand(table, back[steps]) THEN <<>> ELSE [k \in 1..(steps + 1) |-> back[steps + 1 - k]]
  BY DEF PathTo
<1> HIDE DEF n, back
<1>6. ASSUME NEW k \in 0..n
      PROVE  /\ InTheBand(s, back[k]) /\ InBand(table, back[k]) /\ CostAt(table, back[k]) \in Nat
             /\ Stops(table, back[k]) <=> back[k][1] = 0
             /\ back[k][1] # 0 => k + 1 <= cell[1] + cell[2]
  <2> DEFINE c == back[k]
  <2>1. InTheBand(s, c) /\ CostAt(table, c) \in Nat /\ (c[1] # 0 => c[1] + c[2] <= cell[1] + cell[2] - k)
    BY <1>4 DEF OnTheWay
  <2> HIDE DEF c
  <2>2. InBand(table, c)
    BY <2>1, FullTable
  <2>3. c[1] # 0 => k + 1 <= cell[1] + cell[2]
    <3>1. c[1] \in Nat /\ c[2] \in Nat
      BY <2>1 DEF InTheBand
    <3> QED BY <1>1, <1>2, <2>1, <3>1
  <2> QED BY <2>1, <2>2, <2>3 DEF c, Stops
<1>7. n \in stops
  <2>1. n \in 0..n
    BY <1>1
  <2>2. back[n][1] = 0
    BY <1>1, <1>2, <1>6, <2>1
  <2> QED BY <1>6, <2>1, <2>2
<1>8. steps \in stops /\ \A k \in stops : steps <= k
  <2>1. stops \in SUBSET Int /\ IsFiniteSet(stops) /\ stops # {}
    <3>1. IsFiniteSet(0..n)
      BY <1>1, FS_Interval
    <3>2. stops \in SUBSET (0..n)
      OBVIOUS
    <3>3. IsFiniteSet(stops)
      BY <3>1, <3>2, FS_Subset
    <3> QED BY <1>1, <1>7, <3>2, <3>3
  <2> HIDE DEF stops
  <2> QED BY <2>1, MinIs
<1>9. steps \in 0..n /\ back[steps][1] = 0 /\ \A k \in 0..(steps - 1) : back[k][1] # 0
  <2>1. steps \in 0..n /\ Stops(table, back[steps])
    BY <1>8
  <2>2. ASSUME NEW k \in 0..(steps - 1) PROVE back[k][1] # 0
    <3>1. k \in 0..n /\ k < steps
      BY <1>1, <2>1
    <3>2. k \notin stops
      BY <1>8, <2>1, <3>1
    <3>3. ~Stops(table, back[k])
      BY <3>1, <3>2
    <3> HIDE DEF steps, stops
    <3> QED BY <1>6, <3>1, <3>3
  <2> HIDE DEF steps, stops
  <2> QED BY <1>6, <2>1, <2>2
<1>10. path = [k \in 1..(steps + 1) |-> back[steps + 1 - k]]
  <2>1. stops # {} /\ InBand(table, back[steps])
    BY <1>6, <1>7, <1>9
  <2> HIDE DEF steps, stops
  <2> QED BY <1>5, <2>1
<1> HIDE DEF steps, stops
<1>11. steps \in Nat /\ steps + 1 <= n
  <2>1. CASE steps = 0
    BY <1>1, <2>1
  <2>2. CASE steps # 0
    <3>1. steps - 1 \in 0..n /\ steps - 1 \in 0..(steps - 1)
      BY <1>1, <1>9, <2>2
    <3>2. (steps - 1) + 1 <= cell[1] + cell[2]
      BY <1>6, <1>9, <3>1
    <3> QED BY <1>1, <1>2, <1>9, <3>2
  <2> QED BY <2>1, <2>2
<1>12. \A k \in 1..(steps + 1) : path[k] = back[steps + 1 - k] /\ steps + 1 - k \in 0..n
  BY <1>1, <1>10, <1>11
<1> DEFINE Found(m) == \E w \in Ways(s)[m] : w.cells = [k \in 1..m |-> path[k]] /\ w.cost = CostAt(table, path[m])
           S == {m \in 1..(steps + 1) : Found(m)}
<1>13. 1 \in S
  <2> DEFINE c == path[1]
  <2>1. c = back[steps]
    <3>1. 1 \in 1..(steps + 1) /\ steps + 1 - 1 = steps
      BY <1>11
    <3> QED BY <1>12, <3>1
  <2>2. InTheBand(s, c) /\ c[1] = 0
    BY <1>6, <1>9, <2>1
  <2>3. CostAt(table, c) = localDistance(s, 0, c[2]) + EndPenalty(s, c[2], s.start)
    BY <2>2, FullTable
  <2>4. c[2] \in BandRange(s, 0) /\ c = <<0, c[2]>>
    BY <2>2 DEF InTheBand
  <2> DEFINE w == [cells |-> <<<<0, c[2]>>>>, cost |-> localDistance(s, 0, c[2]) + EndPenalty(s, c[2], s.start)]
  <2>5. w \in Ways(s)[1]
    <3>1. w \in Starts(s)
      BY <2>4 DEF Starts
    <3>2. Ways(s)[1] = Starts(s)
      BY <1>1, WaysComputed
    <3> QED BY <3>1, <3>2
  <2>6. w.cells = <<c>> /\ w.cost = CostAt(table, c)
    BY <2>3, <2>4
  <2>7. <<c>> = [k \in 1..1 |-> path[k]]
    <3>1. 1..1 = {1}
      OBVIOUS
    <3> QED BY <3>1
  <2> HIDE DEF w, c
  <2>8. Found(1)
    BY <2>5, <2>6, <2>7 DEF c
  <2> QED BY <1>11, <2>8
<1>14. ASSUME NEW m \in 2..(steps + 1), m - 1 \in S PROVE m \in S
  <2> DEFINE p == path[m - 1]
             c == path[m]
  <2>1. m - 1 \in 1..(steps + 1) /\ m \in 1..(steps + 1) /\ m \in 2..n /\ m - 1 \in 1..n
    BY <1>1, <1>11
  <2>2. PICK w \in Ways(s)[m - 1] : w.cells = [k \in 1..(m - 1) |-> path[k]] /\ w.cost = CostAt(table, p)
    BY <1>14
  <2>3. c = back[steps + 1 - m] /\ p = back[steps + 1 - (m - 1)]
    BY <1>12, <2>1
  <2> DEFINE i == steps + 1 - m
  <2>4. i \in 0..(steps - 1) /\ i \in 0..n /\ i + 1 \in 1..n /\ (i + 1) - 1 = i /\ steps + 1 - (m - 1) = i + 1
    BY <1>1, <1>11, <2>1
  <2>5. c = back[i] /\ p = back[i + 1]
    BY <2>3, <2>4
  <2> HIDE DEF i, c, p
  <2>6. c[1] # 0 /\ InTheBand(s, c) /\ CostAt(table, c) \in Nat /\ ~Stops(table, c)
    BY <1>6, <1>9, <2>4, <2>5
  <2>7. p = Came(table, c)
    BY <1>3, <2>4, <2>5, <2>6
  <2>8. c \in WaysOn(s, p) /\ CostAt(table, c) = CostAt(table, p) + StepCost(s, p, c)
    BY <2>6, <2>7, CameFrom
  <2> DEFINE x == [cells |-> Append(w.cells, c), cost |-> w.cost + StepCost(s, p, c)]
  <2>9. Last(w.cells) = p
    <3> DEFINE q == w.cells
               j == m - 1
    <3>1. j \in Nat /\ j \in 1..j /\ q = [k \in 1..j |-> path[k]]
      BY <2>1, <2>2
    <3>2. Len(q) = j /\ q[j] = path[j]
      <4> HIDE DEF j, q
      <4> QED BY <3>1
    <3> QED BY <3>2 DEF Last, p
  <2>10. x \in Ways(s)[m]
    <3>1. x \in Longer(s, w)
      BY <2>8, <2>9 DEF Longer
    <3>2. Ways(s)[m] = UNION {Longer(s, v) : v \in Ways(s)[m - 1]}
      BY <1>1, <2>1, WaysComputed DEF n
    <3> HIDE DEF x
    <3> QED BY <3>1, <3>2
  <2>11. x.cells = [k \in 1..m |-> path[k]]
    <3> DEFINE j == m - 1
               q == [k \in 1..j |-> path[k]]
    <3>1. j \in Nat /\ m = j + 1 /\ q = [k \in 1..j |-> path[k]]
      BY <2>1
    <3>2. x.cells = Append(q, c) /\ c = path[m]
      BY <2>2 DEF c
    <3> HIDE DEF j, x
    <3>3. Append(q, path[j + 1]) = [k \in 1..(j + 1) |-> path[k]]
      <4> DEFINE X == {path[k] : k \in 1..(j + 1)}
                 r == Append(q, path[j + 1])
      <4>1. path[j + 1] \in X /\ \A k \in 1..j : path[k] \in X
        BY <3>1
      <4> HIDE DEF X
      <4>2. q \in Seq(X) /\ Len(q) = j /\ \A k \in 1..j : q[k] = path[k]
        BY <3>1, <4>1
      <4> HIDE DEF q
      <4>3. r \in Seq(X) /\ Len(r) = j + 1 /\ r[j + 1] = path[j + 1] /\ \A k \in 1..j : r[k] = path[k]
        BY <3>1, <4>1, <4>2
      <4>4. r = [k \in 1..(j + 1) |-> r[k]]
        BY <3>1, <4>3
      <4> HIDE DEF r
      <4>5. \A k \in 1..(j + 1) : r[k] = path[k]
        BY <3>1, <4>3
      <4> QED BY <4>4, <4>5 DEF r
    <3> QED BY <3>1, <3>2, <3>3
  <2>12. x.cost = CostAt(table, c)
    BY <2>2, <2>8
  <2> HIDE DEF x
  <2>13. Found(m)
    BY <2>10, <2>11, <2>12 DEF c
  <2> QED BY <2>1, <2>13
<1>15. steps + 1 \in S
  <2> HIDE DEF S
  <2>1. 1 \in Int /\ steps + 1 \in Int /\ (1 + 1)..(steps + 1) = 2..(steps + 1)
    BY <1>11
  <2>2. \A m \in 1..(steps + 1) : m \in S
    BY <1>13, <1>14, <2>1, IntervalInduction
  <2> QED BY <1>11, <2>2
<1>16. PICK w \in Ways(s)[steps + 1] : w.cells = [k \in 1..(steps + 1) |-> path[k]] /\ w.cost = CostAt(table, path[steps + 1])
  BY <1>15
<1>17. path[steps + 1] = cell
  <2>1. steps + 1 \in 1..(steps + 1) /\ steps + 1 - (steps + 1) = 0
    BY <1>11
  <2> QED BY <1>3, <1>12, <2>1
<1>18. path = [k \in 1..(steps + 1) |-> path[k]] /\ Len(path) = steps + 1
  <2>1. steps + 1 \in Nat
    BY <1>11
  <2> QED BY <1>10, <2>1
<1>19. w.cells = path /\ w.cost = CostAt(table, cell) /\ w.cells[Len(w.cells)] = cell
  BY <1>16, <1>17, <1>18
<1>20. path # <<>>
  BY <1>11, <1>18
<1> QED BY <1>11, <1>16, <1>19, <1>20 DEF n

-----------------------------------------------------------------------------
(* The path is the cheapest.                                               *)

(* The end of the path costs no more, with its penalty, than any other     *)
(* cell of the last row.                                                   *)
LEMMA BestEndIs ==
  ASSUME NEW s, NEW table, Full(s, table), NEW row, row = table[LastRow(s) + 1],
         NEW end, end = Min(BestEnds(s, row))
  PROVE  /\ end \in BandRange(s, LastRow(s))
         /\ \A k \in BandRange(s, LastRow(s)) :
                /\ EndCost(s, row, k) \in Cost /\ ~Less(EndCost(s, row, k), EndCost(s, row, end))
                /\ InTheBand(s, <<LastRow(s), k>>)
                /\ EndCost(s, row, k) = Plus(CostAt(table, <<LastRow(s), k>>), EndPenalty(s, k, s.end))
<1> DEFINE R == LastRow(s)
           B == BandRange(s, R)
           cost(k) == EndCost(s, row, k)
           best == BestEnds(s, row)
<1>1. Sampling(s) /\ TableOf(s, table, R + 1) /\ R \in Nat /\ R \in 0..R /\ R \in 0..((R + 1) - 1)
  BY LastRows DEF Full
<1>2. /\ B \subseteq Nat /\ IsFiniteSet(B) /\ B # {}
  <2>1. BandStart(s, R) \in Nat /\ BandEnd(s, R) \in Nat /\ BandStart(s, R) <= BandEnd(s, R)
    BY <1>1, BandShape
  <2>2. IsFiniteSet(BandStart(s, R)..BandEnd(s, R))
    BY <2>1, FS_Interval
  <2> QED BY <2>1, <2>2 DEF BandRange
<1>3. row \in [B -> Cell]
  BY <1>1 DEF TableOf
<1> HIDE DEF R, B
<1>4. ASSUME NEW k \in B
      PROVE  /\ cost(k) \in Cost
             /\ InTheBand(s, <<R, k>>)
             /\ cost(k) = Plus(CostAt(table, <<R, k>>), EndPenalty(s, k, s.end))
  <2>1. InTheBand(s, <<R, k>>)
    BY <1>1, <1>2 DEF InTheBand, B, R
  <2>2. EndPenalty(s, k, s.end) \in Nat
    <3>1. k \in Int /\ s.end \in Int
      BY <1>1, <1>2 DEF Sampling
    <3> QED BY <1>1, <3>1, Penalties
  <2>3. CostAt(table, <<R, k>>) = valueAt(row, k)
    BY DEF CostAt, R
  <2>4. CostAt(table, <<R, k>>) \in Cost
    BY <2>1, FullTable
  <2> QED BY <2>1, <2>2, <2>3, <2>4, Plusses DEF EndCost
<1>5. best = {j \in B : \A k \in B : ~Less(cost(k), cost(j))}
  BY <1>3 DEF BestEnds
<1>6. best # {}
  <2> DEFINE F == {k \in B : cost(k) # Infinity}
             T == {cost(k) : k \in F}
  <2>1. CASE F = {}
    <3>1. PICK k \in B : TRUE
      BY <1>2
    <3>2. \A j \in B : ~Less(cost(j), cost(k))
      BY <2>1 DEF Less
    <3> HIDE DEF cost, best
    <3> QED BY <1>5, <3>1, <3>2
  <2>2. CASE F # {}
    <3>1. T \in SUBSET Int
      <4>1. Cost \subseteq Int
        BY DEF Cost, Infinity
      <4> HIDE DEF cost
      <4> QED BY <1>4, <4>1
    <3>2. IsFiniteSet(T) /\ T # {}
      <4>1. F \in SUBSET B
        OBVIOUS
      <4>2. IsFiniteSet(F)
        BY <1>2, <4>1, FS_Subset
      <4> DEFINE g == [k \in F |-> cost(k)]
      <4>3. g \in Surjection(F, T)
        BY DEF Surjection
      <4>4. T # {}
        BY <2>2
      <4> HIDE DEF F, T, g
      <4> QED BY <4>2, <4>3, <4>4, FS_Surjection
    <3>3. PICK m \in T : \A x \in T : m <= x
      <4> HIDE DEF T
      <4> QED BY <3>1, <3>2, FiniteMin
    <3>4. PICK k \in F : m = cost(k)
      OBVIOUS
    <3>5. ASSUME NEW j \in B PROVE ~Less(cost(j), cost(k))
      <4>1. CASE cost(j) = Infinity
        BY <4>1 DEF Less
      <4>2. CASE cost(j) # Infinity
        <5>1. cost(j) \in T
          BY <4>2
        <5>2. cost(k) <= cost(j) /\ cost(k) # Infinity
          BY <3>3, <3>4, <5>1
        <5>3. cost(k) \in Int /\ cost(j) \in Int
          BY <3>1, <3>3, <3>4, <5>1
        <5> HIDE DEF cost
        <5> QED BY <5>2, <5>3 DEF Less
      <4> QED BY <4>1, <4>2
    <3> HIDE DEF cost, best
    <3> QED BY <1>5, <3>4, <3>5
  <2> QED BY <2>1, <2>2
<1>7. end \in best
  <2>1. best \in SUBSET Int /\ best \in SUBSET B
    <3>1. \A j \in best : j \in B
      BY <1>5
    <3> HIDE DEF best
    <3>2. \A j \in B : j \in Nat
      BY <1>2
    <3>3. \A j \in best : j \in Int
      BY <3>1, <3>2
    <3> QED BY <3>1, <3>3
  <2>2. IsFiniteSet(best)
    BY <1>2, <2>1, FS_Subset
  <2> HIDE DEF best
  <2>3. Min(best) \in best
    BY <1>6, <2>1, <2>2, MinIs
  <2> QED BY <2>3 DEF best
<1> QED BY <1>4, <1>5, <1>7 DEF B, R

(* The path to the best end is the cheapest way, and there is a way only   *)
(* if that end has a cost.                                                 *)
LEMMA CheapestPath ==
  ASSUME NEW s, NEW table, Full(s, table), NEW row, row = table[LastRow(s) + 1],
         NEW end, end = Min(BestEnds(s, row)),
         NEW path, path = PathTo(s, table, <<LastRow(s), end>>)
  PROVE  /\ EndCost(s, row, end) # Infinity =>
                /\ path # <<>>
                /\ \E w \in WaysThrough(s) : w.cells = path /\ \A v \in WaysThrough(s) : WholeCost(s, w) <= WholeCost(s, v)
         /\ EndCost(s, row, end) = Infinity => WaysThrough(s) = {}
<1> DEFINE R == LastRow(s)
           B == BandRange(s, R)
<1>1. /\ end \in B
      /\ \A k \in B :
            /\ EndCost(s, row, k) \in Cost /\ ~Less(EndCost(s, row, k), EndCost(s, row, end))
            /\ InTheBand(s, <<R, k>>)
            /\ EndCost(s, row, k) = Plus(CostAt(table, <<R, k>>), EndPenalty(s, k, s.end))
  BY BestEndIs
<1>2. Sampling(s)
  BY DEF Full
<1> HIDE DEF B
<1>3. ASSUME NEW k \in B
      PROVE  /\ CostAt(table, <<R, k>>) \in Cost /\ EndPenalty(s, k, s.end) \in Nat
             /\ EndCost(s, row, k) = Infinity <=> CostAt(table, <<R, k>>) = Infinity
             /\ CostAt(table, <<R, k>>) # Infinity =>
                    /\ CostAt(table, <<R, k>>) \in Nat
                    /\ EndCost(s, row, k) = CostAt(table, <<R, k>>) + EndPenalty(s, k, s.end)
  <2>1. CostAt(table, <<R, k>>) \in Cost
    BY <1>1, FullTable
  <2>2. k \in Int /\ s.end \in Int
    <3>1. <<R, k>> \in Nat \X Nat
      BY <1>1 DEF InTheBand
    <3> QED BY <1>2, <3>1 DEF Sampling
  <2>3. EndPenalty(s, k, s.end) \in Nat
    BY <1>2, <2>2, Penalties
  <2> QED BY <1>1, <2>1, <2>3, Plusses
(* A way through costs no less than its end does.                          *)
<1>4. ASSUME NEW v \in WaysThrough(s)
      PROVE  \E k \in B : EndCost(s, row, k) # Infinity /\ EndCost(s, row, k) <= WholeCost(s, v)
  <2>1. PICK n \in 1..Longest(s) : v \in Ways(s)[n] /\ Last(v.cells)[1] = R
    BY DEF WaysThrough
  <2>2. Dearer(s, table, v)
    BY <2>1, WaysAreDearer
  <2> DEFINE c == Last(v.cells)
  <2>3. c = v.cells[Len(v.cells)] /\ c[1] = R
    BY <2>1 DEF Last
  <2> HIDE DEF c
  <2>4. InTheBand(s, c) /\ CostAt(table, c) \in Nat /\ CostAt(table, c) <= v.cost /\ v \in WaySet
    BY <2>2, <2>3 DEF Dearer
  <2>5. c = <<R, c[2]>> /\ c[2] \in B
    BY <2>3, <2>4 DEF InTheBand, B
  <2>6. CostAt(table, <<R, c[2]>>) # Infinity
    BY <2>4, <2>5 DEF Infinity
  <2>7. EndCost(s, row, c[2]) # Infinity /\ EndCost(s, row, c[2]) = CostAt(table, c) + EndPenalty(s, c[2], s.end)
    BY <1>3, <2>5, <2>6
  <2>8. WholeCost(s, v) = v.cost + EndPenalty(s, c[2], s.end)
    BY DEF WholeCost, c
  <2>9. EndCost(s, row, c[2]) <= WholeCost(s, v)
    <3>1. EndPenalty(s, c[2], s.end) \in Nat /\ v.cost \in Nat
      BY <1>3, <2>4, <2>5 DEF WaySet
    <3> QED BY <2>4, <2>7, <2>8, <3>1
  <2> QED BY <2>5, <2>7, <2>9
<1>5. ASSUME EndCost(s, row, end) = Infinity PROVE WaysThrough(s) = {}
  <2> SUFFICES ASSUME NEW v \in WaysThrough(s) PROVE FALSE
    OBVIOUS
  <2>1. PICK k \in B : EndCost(s, row, k) # Infinity
    BY <1>4
  <2> QED BY <1>1, <1>5, <2>1 DEF Less
<1>6. ASSUME EndCost(s, row, end) # Infinity
      PROVE  /\ path # <<>>
             /\ \E w \in WaysThrough(s) : w.cells = path /\ \A v \in WaysThrough(s) : WholeCost(s, w) <= WholeCost(s, v)
  <2> DEFINE cell == <<R, end>>
  <2>1. /\ InTheBand(s, cell) /\ CostAt(table, cell) \in Nat
        /\ EndCost(s, row, end) = CostAt(table, cell) + EndPenalty(s, end, s.end)
    BY <1>1, <1>3, <1>6
  <2>2. cell[1] = R /\ cell[2] = end /\ path = PathTo(s, table, cell)
    OBVIOUS
  <2> HIDE DEF cell
  <2>3. path # <<>>
    BY <2>1, <2>2, PathIsWay
  <2>4. PICK n \in 1..Longest(s) : \E w \in Ways(s)[n] :
                w.cells = path /\ w.cost = CostAt(table, cell) /\ w.cells[Len(w.cells)] = cell
    BY <2>1, <2>2, PathIsWay
  <2>5. PICK w \in Ways(s)[n] : w.cells = path /\ w.cost = CostAt(table, cell) /\ w.cells[Len(w.cells)] = cell
    BY <2>4
  <2>6. Last(w.cells) = cell
    BY <2>5 DEF Last
  <2>7. w \in WaysThrough(s)
    BY <2>2, <2>5, <2>6 DEF WaysThrough
  <2>8. WholeCost(s, w) = EndCost(s, row, end)
    BY <2>1, <2>2, <2>5, <2>6 DEF WholeCost
  <2>9. ASSUME NEW v \in WaysThrough(s) PROVE WholeCost(s, w) <= WholeCost(s, v)
    <3>1. PICK k \in B : EndCost(s, row, k) # Infinity /\ EndCost(s, row, k) <= WholeCost(s, v)
      BY <1>4
    <3>2. ~Less(EndCost(s, row, k), EndCost(s, row, end))
      BY <1>1
    <3>3. EndCost(s, row, k) \in Int /\ EndCost(s, row, end) \in Int
      <4>1. Cost \subseteq Int
        BY DEF Cost, Infinity
      <4> QED BY <1>1, <4>1
    <3>4. EndCost(s, row, end) <= EndCost(s, row, k)
      BY <1>6, <3>1, <3>2, <3>3 DEF Less
    <3>5. WholeCost(s, v) \in Int
      <4>1. PICK m \in 1..Longest(s) : v \in Ways(s)[m]
        BY DEF WaysThrough
      <4>2. Dearer(s, table, v)
        BY <4>1, WaysAreDearer
      <4> DEFINE d == Last(v.cells)
      <4>3. InTheBand(s, d) /\ v.cost \in Nat
        BY <4>2 DEF Dearer, Last, WaySet
      <4>4. d[2] \in Int /\ s.end \in Int
        BY <1>2, <4>3 DEF InTheBand, Sampling
      <4>5. EndPenalty(s, d[2], s.end) \in Nat
        BY <1>2, <4>4, Penalties
      <4> QED BY <4>3, <4>5 DEF WholeCost
    <3> QED BY <2>8, <3>1, <3>3, <3>4, <3>5
  <2> QED BY <2>3, <2>5, <2>7, <2>9
<1> QED BY <1>5, <1>6

-----------------------------------------------------------------------------
(* A call whose selection was made, and its windows.                       *)

(* What holds of a call whose selection was made.                          *)
Selected ==
    /\ request \in Requests
    /\ Valid(reference) /\ Valid(request.dut)
    /\ resolveLimits
    /\ reference.timestamps[0] = request.start /\ Final(reference.timestamps) = request.end
    /\ request.start < request.end

(* The options of a request.                                               *)
LEMMA OptionTypes ==
  ASSUME request \in Requests
  PROVE  /\ Options.minimumSamples \in Nat /\ Options.minimumSamples >= 4
         /\ Options.minScale \in Nat /\ Options.minScale >= 1
         /\ Options.maxScale \in Nat /\ Options.minScale <= Options.maxScale
         /\ Options.scaleSteps \in Nat /\ Options.scaleSteps >= 1
         /\ Options.probeCount \in Nat /\ Options.probeCount >= 8
         /\ Options.candidateCount \in Nat /\ Options.candidateCount >= 1
         /\ Options.separationRatio \in Nat /\ Options.separationRatio <= 100
         /\ Options.fineCandidateCount \in Nat /\ Options.fineCandidateCount >= 1
         /\ Options.bandRatio \in Nat /\ Options.paddingRatio \in Nat
         /\ Options.transitionPenalty \in Nat /\ Options.endpointPenalty \in Nat
         /\ Options.tolerance \in Int
         /\ IsFiniteSet(Options.scales) /\ Options.scales \subseteq Nat \ {0}
<1>1. AreOptions(Options)
  BY RequestTypes DEF Options
<1>2. \A k \in OptionNames \ {"scales", "tolerance"} : Options[k] \in Nat
  BY <1>1 DEF AreOptions
<1>3. {"minimumSamples", "minScale", "maxScale", "scaleSteps", "probeCount", "candidateCount", "separationRatio",
       "fineCandidateCount", "bandRatio", "paddingRatio", "transitionPenalty", "endpointPenalty"}
          \subseteq OptionNames \ {"scales", "tolerance"}
  BY DEF OptionNames
<1>4. /\ Options.minimumSamples \in Nat /\ Options.minScale \in Nat /\ Options.maxScale \in Nat
      /\ Options.scaleSteps \in Nat /\ Options.probeCount \in Nat /\ Options.candidateCount \in Nat
      /\ Options.separationRatio \in Nat /\ Options.fineCandidateCount \in Nat
      /\ Options.bandRatio \in Nat /\ Options.paddingRatio \in Nat
      /\ Options.transitionPenalty \in Nat /\ Options.endpointPenalty \in Nat
  BY <1>2, <1>3
<1> QED BY <1>1, <1>4 DEF AreOptions

(* The limits of a request, and what resolveLimits has asked of them.      *)
LEMMA LimitTypes ==
  ASSUME request \in Requests
  PROVE  /\ Limits.maxSamples \in Nat /\ Limits.maxFeatureValues \in Nat
         /\ Limits.maxCoarseSamples \in Nat /\ Limits.maxCoarseOperations \in Nat
         /\ Limits.maxDtwSamples \in Nat /\ Limits.maxDtwCells \in Nat
         /\ Limits.maxMappingPoints \in Nat /\ Limits.maxOperations \in Nat
         /\ resolveLimits =>
                Limits.maxSamples >= 2 /\ Limits.maxDtwSamples >= 2 /\ Limits.maxMappingPoints >= 2
<1>1. Limits \in [LimitNames -> Nat]
  BY RequestTypes DEF Limits
<1>2. /\ DOMAIN MinLimits = LimitNames
      /\ MinLimits.maxSamples = 2 /\ MinLimits.maxDtwSamples = 2 /\ MinLimits.maxMappingPoints = 2
  BY DEF MinLimits, LimitNames
<1>3. {"maxSamples", "maxFeatureValues", "maxCoarseSamples", "maxCoarseOperations",
       "maxDtwSamples", "maxDtwCells", "maxMappingPoints", "maxOperations"} = LimitNames
  BY DEF LimitNames
<1>4. /\ Limits.maxSamples \in Nat /\ Limits.maxFeatureValues \in Nat
      /\ Limits.maxCoarseSamples \in Nat /\ Limits.maxCoarseOperations \in Nat
      /\ Limits.maxDtwSamples \in Nat /\ Limits.maxDtwCells \in Nat
      /\ Limits.maxMappingPoints \in Nat /\ Limits.maxOperations \in Nat
  BY <1>1, <1>3
<1>5. ASSUME resolveLimits
      PROVE  Limits.maxSamples >= 2 /\ Limits.maxDtwSamples >= 2 /\ Limits.maxMappingPoints >= 2
  <2>1. \A k \in LimitNames : Limits[k] >= MinLimits[k]
    BY <1>2, <1>5 DEF resolveLimits
  <2>2. "maxSamples" \in LimitNames /\ "maxDtwSamples" \in LimitNames /\ "maxMappingPoints" \in LimitNames
    BY DEF LimitNames
  <2>3. /\ Limits.maxSamples >= MinLimits.maxSamples /\ Limits.maxDtwSamples >= MinLimits.maxDtwSamples
        /\ Limits.maxMappingPoints >= MinLimits.maxMappingPoints
    BY <2>1, <2>2
  <2> QED BY <1>2, <2>3
<1> QED BY <1>4, <1>5

(* Once the selection was made, both series have a length.                 *)
LEMMA Lengths ==
  ASSUME Selected
  PROVE  /\ Duration(reference) \in Nat /\ Duration(reference) >= 100
         /\ Duration(request.dut) \in Nat /\ Duration(request.dut) >= 1
         /\ Count(request.dut.timestamps) \in Nat /\ Count(request.dut.timestamps) >= 2
         /\ request.dut.timestamps[0] \in Int /\ Final(request.dut.timestamps) \in Int
         /\ Final(request.dut.timestamps) = request.dut.timestamps[0] + Duration(request.dut)
<1>1. request.start \in Int /\ request.end \in Int /\ request.end - request.start >= 100
  BY RequestTypes DEF Selected
<1>2. Duration(reference) = request.end - request.start
  BY DEF Duration, Selected
<1> DEFINE d == request.dut
           n == Count(d.timestamps)
<1>3. Valid(d)
  BY DEF Selected
<1>4. /\ n \in Nat /\ n >= 2 /\ d.timestamps \in [0..(n - 1) -> Int] /\ Final(d.timestamps) = d.timestamps[n - 1]
      /\ 0 \in 0..(n - 1) /\ n - 1 \in 0..(n - 1)
      /\ \A i, j \in 0..(n - 1) : i < j => d.timestamps[i] < d.timestamps[j]
  <2> HIDE DEF d
  <2> QED BY <1>3, ValidParts
<1> HIDE DEF d, n
<1>5. d.timestamps[0] \in Int /\ Final(d.timestamps) \in Int /\ d.timestamps[0] < Final(d.timestamps)
  BY <1>4
<1> DEFINE low == d.timestamps[0]
           high == Final(d.timestamps)
<1>6. low \in Int /\ high \in Int /\ low < high /\ Duration(d) = high - low
  BY <1>5 DEF Duration
<1> HIDE DEF low, high
<1>7. Duration(d) \in Nat /\ Duration(d) >= 1 /\ high = low + Duration(d)
  BY <1>6
<1>8. Duration(reference) \in Nat /\ Duration(reference) >= 100
  BY <1>1, <1>2
<1> QED BY <1>4, <1>6, <1>7, <1>8 DEF d, n, low, high

(* The scales are finitely many and positive.                              *)
LEMMA Scales ==
  ASSUME Selected
  PROVE  makeScales \subseteq Nat \ {0} /\ IsFiniteSet(makeScales)
<1> DEFINE o == Options
           m == o.scaleSteps - 1
           f == [i \in 0..m |-> o.minScale + ((o.maxScale - o.minScale) * i) \div (o.scaleSteps - 1)]
           steps == {o.minScale + ((o.maxScale - o.minScale) * i) \div (o.scaleSteps - 1) : i \in 0..m}
           hundred == {100} \cap (o.minScale)..(o.maxScale)
<1>1. /\ o.minScale \in Nat /\ o.minScale >= 1 /\ o.maxScale \in Nat /\ o.minScale <= o.maxScale
      /\ o.scaleSteps \in Nat /\ o.scaleSteps >= 1
      /\ IsFiniteSet(o.scales) /\ o.scales \subseteq Nat \ {0}
  BY OptionTypes DEF Selected
<1>2. makeScales = IF o.scales # {} THEN o.scales
                   ELSE IF o.scaleSteps = 1 THEN {Clamp(100, o.minScale, o.maxScale)} ELSE steps \cup hundred
  BY DEF makeScales
<1> HIDE DEF o
<1>3. CASE o.scaleSteps = 1
  <2> DEFINE x == Min({o.maxScale, 100})
             y == Max({o.minScale, x})
  <2>1. x = (IF o.maxScale <= 100 THEN o.maxScale ELSE 100)
    BY <1>1, MinMaxTwo
  <2>2. x \in Nat
    BY <1>1, <2>1
  <2> HIDE DEF x
  <2>3. y = (IF o.minScale <= x THEN x ELSE o.minScale)
    <3>1. o.minScale \in Int /\ x \in Int
      BY <1>1, <2>2
    <3> QED BY <3>1, MinMaxTwo
  <2>4. y \in Nat \ {0}
    BY <1>1, <2>2, <2>3
  <2>5. Clamp(100, o.minScale, o.maxScale) = y
    BY DEF Clamp, x
  <2> HIDE DEF y
  <2>6. IsFiniteSet({y})
    BY FS_Singleton
  <2> QED BY <1>1, <1>2, <1>3, <2>4, <2>5, <2>6
<1>4. CASE o.scaleSteps # 1
  <2>1. m \in Nat \ {0} /\ o.maxScale - o.minScale \in Nat /\ o.scaleSteps - 1 = m
    BY <1>1, <1>4
  <2> DEFINE w == o.maxScale - o.minScale
  <2>2. ASSUME NEW i \in 0..m PROVE o.minScale + ((w * i) \div m) \in Nat \ {0}
    <3>1. w * i \in Nat
      <4>1. w \in Nat /\ i \in Nat
        BY <2>1
      <4> HIDE DEF w
      <4> QED BY <4>1
    <3> HIDE DEF w, m
    <3>2. 0 <= (w * i) \div m /\ (w * i) \div m \in Int
      <4> DEFINE p == w * i
      <4>1. p \in Int /\ 0 * m <= p
        BY <2>1, <3>1
      <4> HIDE DEF p
      <4>2. 0 <= p \div m /\ p \div m \in Int
        BY <2>1, <4>1, Quotient, QuotientAtLeast
      <4> QED BY <4>2 DEF p
    <3> QED BY <1>1, <3>2
  <2>3. steps \subseteq Nat \ {0}
    BY <2>2
  <2>4. IsFiniteSet(steps)
    <3>1. IsFiniteSet(0..m)
      BY <2>1, FS_Interval
    <3>2. f \in Surjection(0..m, steps)
      BY DEF Surjection
    <3> HIDE DEF f, steps, m
    <3> QED BY <3>1, <3>2, FS_Surjection
  <2>5. hundred \subseteq Nat \ {0} /\ IsFiniteSet(hundred)
    <3>1. hundred \in SUBSET {100}
      OBVIOUS
    <3>2. IsFiniteSet(hundred)
      <4>1. IsFiniteSet({100})
        BY FS_Singleton
      <4> HIDE DEF hundred
      <4> QED BY <3>1, <4>1, FS_Subset
    <3> QED BY <3>1, <3>2
  <2> HIDE DEF steps, hundred
  <2>6. steps \cup hundred \subseteq Nat \ {0} /\ IsFiniteSet(steps \cup hundred)
    BY <2>3, <2>4, <2>5, FS_Union
  <2> QED BY <1>1, <1>2, <1>4, <2>6
<1> QED BY <1>3, <1>4

Candidate == [dutStart : Int, dutEnd : Int, scale : Nat \ {0}]
Fits(series, c) == c \in Candidate /\ InRange(series, c.dutStart, c.dutEnd)

(* What the starts of a scale may cost together is within the limit.       *)
LEMMA MostStarts ==
  ASSUME Selected, eligibleScales # {}
  PROVE  /\ eligibleScales \subseteq Nat \ {0} /\ IsFiniteSet(eligibleScales)
         /\ Cardinality(eligibleScales) \in Nat \ {0}
         /\ operationsPerStart \in Nat \ {0}
         /\ maximumStartsPerScale \in Int
         /\ maximumStartsPerScale * (operationsPerStart * Cardinality(eligibleScales)) <= Limits.maxCoarseOperations
<1> DEFINE E == eligibleScales
           n == Cardinality(E)
           p == operationsPerStart
           x == Limits.maxCoarseSamples
           y == Limits.maxCoarseOperations
           b == p * n
           q == y \div b
<1>1. E \subseteq Nat \ {0} /\ IsFiniteSet(E)
  <2>1. makeScales \subseteq Nat \ {0} /\ IsFiniteSet(makeScales)
    BY Scales
  <2>2. E \in SUBSET makeScales
    BY DEF eligibleScales
  <2> HIDE DEF E
  <2> QED BY <2>1, <2>2, FS_Subset
<1>2. n \in Nat \ {0}
  <2> HIDE DEF E
  <2>1. E # {}
    BY DEF E
  <2> QED BY <1>1, <2>1, FS_CardinalityType, FS_EmptySet
<1>3. p \in Nat \ {0}
  <2>1. Options.probeCount \in Nat /\ Options.probeCount >= 8
    BY OptionTypes DEF Selected
  <2> QED BY <2>1 DEF operationsPerStart, FeatureDimensions
<1>4. x \in Nat /\ y \in Nat
  BY LimitTypes DEF Selected
<1>5. maximumStartsPerScale = Min({x, q})
  BY DEF maximumStartsPerScale
<1> HIDE DEF x, y, n, p
<1>6. b \in Nat \ {0}
  BY <1>2, <1>3
<1> HIDE DEF b
<1>7. q \in Int /\ q * b <= y
  <2>1. y \in Int
    BY <1>4
  <2> QED BY <1>6, <2>1, Quotient
<1> HIDE DEF q
<1>8. maximumStartsPerScale \in Int /\ maximumStartsPerScale <= q
  <2>1. x \in Int
    BY <1>4
  <2>2. Min({x, q}) = IF x <= q THEN x ELSE q
    BY <1>7, <2>1, MinMaxTwo
  <2> QED BY <1>5, <1>7, <2>1, <2>2
<1> DEFINE m == maximumStartsPerScale
<1> HIDE DEF m
<1>9. m * b <= y
  <2>1. m \in Int /\ m <= q /\ b \in Nat /\ q * b \in Int
    BY <1>6, <1>7, <1>8 DEF m
  <2>2. m * b <= q * b /\ m * b \in Int
    BY <1>7, <2>1, Products
  <2> QED BY <1>4, <1>7, <2>1, <2>2
<1> QED BY <1>1, <1>2, <1>3, <1>8, <1>9 DEF m, b, n, p, y

(* The windows of a scale, one by one.                                     *)
Window(scale) == (Duration(reference) * scale) \div 100
Room(scale) == Duration(request.dut) - Window(scale)
WindowCount(scale) ==
    LET natural == IF Room(scale) = 0 THEN 1
                   ELSE Max({2, Min({Count(request.dut.timestamps),
                                     Ceiling(Room(scale) * Options.probeCount, Duration(reference)) + 1})})
    IN  Min({maximumStartsPerScale, natural})
WindowAt(scale, i) ==
    LET start == request.dut.timestamps[0]
                    + (IF WindowCount(scale) = 1 THEN 0 ELSE (Room(scale) * i) \div (WindowCount(scale) - 1))
    IN  [dutStart |-> start, dutEnd |-> start + Window(scale), scale |-> scale]

(* The windows of a scale, numbered.                                       *)
LEMMA WindowsOneByOne ==
  ASSUME NEW scale
  PROVE  Windows(scale) = {WindowAt(scale, i) : i \in 0..(WindowCount(scale) - 1)}
BY DEF Windows, WindowAt, WindowCount, Room, Window

(* A scale that fits has a window, and no more than the limit.             *)
LEMMA WindowCounts ==
  ASSUME Selected, NEW scale \in eligibleScales, maximumStartsPerScale >= 1
  PROVE  /\ scale \in Nat \ {0}
         /\ Window(scale) \in Nat \ {0} /\ Room(scale) \in Nat
         /\ Window(scale) + Room(scale) = Duration(request.dut)
         /\ WindowCount(scale) \in Nat /\ WindowCount(scale) >= 1 /\ WindowCount(scale) <= maximumStartsPerScale
<1> DEFINE d == Duration(reference)
           D == Duration(request.dut)
           w == Window(scale)
           m == maximumStartsPerScale
<1>1. scale \in Nat \ {0} /\ d * scale <= D * 100 /\ m \in Int /\ m >= 1
  <2>1. eligibleScales # {}
    OBVIOUS
  <2>2. eligibleScales \subseteq Nat \ {0} /\ m \in Int
    BY <2>1, MostStarts
  <2>3. d * scale <= D * 100
    BY DEF eligibleScales
  <2> QED BY <2>2, <2>3
<1>2. d \in Nat /\ d >= 100 /\ D \in Nat /\ D >= 1
  BY Lengths
<1>3. w = (d * scale) \div 100
  BY DEF Window
<1> HIDE DEF d, D
<1>4. w \in Int /\ 1 <= w /\ w <= D
  <2> DEFINE p == d * scale
  <2>1. p \in Int /\ 1 * 100 <= p /\ p <= D * 100
    <3>1. 1 * d <= scale * d /\ scale * d = p /\ p \in Int
      BY <1>1, <1>2, Products
    <3> QED BY <1>1, <1>2, <3>1
  <2> HIDE DEF p
  <2>2. p \div 100 \in Int /\ 1 <= p \div 100 /\ p \div 100 <= D
    <3>1. 100 \in Nat \ {0} /\ 1 \in Int /\ D \in Int
      BY <1>2
    <3> QED BY <2>1, <3>1, Quotient, QuotientAtLeast, QuotientAtMost
  <2> QED BY <1>3, <2>2 DEF p
<1> DEFINE a == Room(scale)
           c == Ceiling(a * Options.probeCount, d) + 1
           k == Count(request.dut.timestamps)
           l == Min({k, c})
           natural == IF a = 0 THEN 1 ELSE Max({2, l})
<1>5. a = D - w
  BY DEF Room, D
<1>6. WindowCount(scale) = Min({m, natural})
  BY DEF WindowCount, d
<1> HIDE DEF w, a, m
<1>7. a \in Nat /\ w \in Nat \ {0} /\ w + a = D
  BY <1>2, <1>4, <1>5
<1>8. c \in Int
  <2> DEFINE x == a * Options.probeCount
             y == x + d - 1
  <2>1. Options.probeCount \in Nat
    BY OptionTypes DEF Selected
  <2>2. x \in Int
    BY <1>7, <2>1
  <2> HIDE DEF x
  <2>3. y \in Int /\ d \in Nat \ {0}
    BY <1>2, <2>2
  <2>4. Ceiling(x, d) = y \div d
    BY DEF Ceiling
  <2> HIDE DEF y
  <2>5. y \div d \in Int
    BY <2>3, Quotient
  <2> QED BY <2>4, <2>5 DEF x
<1> HIDE DEF c
<1>9. l \in Int
  <2>1. k \in Int
    BY Lengths
  <2> HIDE DEF k
  <2>2. l = IF k <= c THEN k ELSE c
    BY <1>8, <2>1, MinMaxTwo
  <2> QED BY <1>8, <2>1, <2>2
<1> HIDE DEF l
<1>10. natural \in Int /\ natural >= 1
  <2>1. Max({2, l}) = IF 2 <= l THEN l ELSE 2
    BY <1>9, MinMaxTwo
  <2> QED BY <1>9, <2>1
<1> HIDE DEF natural
<1>11. Min({m, natural}) = IF m <= natural THEN m ELSE natural
  BY <1>1, <1>10, MinMaxTwo
<1>12. WindowCount(scale) \in Nat /\ WindowCount(scale) >= 1 /\ WindowCount(scale) <= m
  BY <1>1, <1>6, <1>10, <1>11
<1> QED BY <1>1, <1>7, <1>12 DEF w, a, D, m

(* A window lies in the DUT series.                                        *)
LEMMA WindowsFit ==
  ASSUME Selected, NEW scale \in eligibleScales, maximumStartsPerScale >= 1,
         NEW i \in 0..(WindowCount(scale) - 1)
  PROVE  Fits(request.dut, WindowAt(scale, i)) /\ WindowAt(scale, i).scale = scale
<1> DEFINE w == Window(scale)
           a == Room(scale)
           n == WindowCount(scale)
           low == request.dut.timestamps[0]
           high == Final(request.dut.timestamps)
           step == IF n = 1 THEN 0 ELSE (a * i) \div (n - 1)
           c == WindowAt(scale, i)
<1>1. /\ scale \in Nat \ {0} /\ w \in Nat \ {0} /\ a \in Nat /\ n \in Nat /\ n >= 1
      /\ w + a = Duration(request.dut)
  BY WindowCounts
<1>2. low \in Int /\ high \in Int /\ high = low + (w + a)
  BY <1>1, Lengths
<1>3. c = [dutStart |-> low + step, dutEnd |-> low + step + w, scale |-> scale]
  BY DEF WindowAt
<1> HIDE DEF w, a, n, low, high, c
<1>4. step \in Int /\ 0 <= step /\ step <= a
  <2>1. CASE n = 1
    BY <1>1, <2>1
  <2>2. CASE n # 1
    <3> DEFINE m == n - 1
               p == a * i
    <3>1. m \in Nat \ {0} /\ i \in 0..m
      BY <1>1, <2>2 DEF n
    <3> HIDE DEF m
    <3>2. p \in Int /\ 0 * m <= p /\ p <= a * m
      <4>1. 0 * a <= i * a /\ i * a <= m * a /\ i * a = a * i /\ m * a = a * m /\ 0 * a = 0 /\ 0 * m = 0 /\ i * a \in Int
        BY <1>1, <3>1, Products
      <4> QED BY <4>1
    <3> HIDE DEF p
    <3>3. p \div m \in Int /\ 0 <= p \div m /\ p \div m <= a
      <4>1. a \in Int
        BY <1>1
      <4> QED BY <3>1, <3>2, <4>1, Quotient, QuotientAtLeast, QuotientAtMost
    <3>4. step = p \div m
      BY <2>2 DEF p, m
    <3> QED BY <3>3, <3>4
  <2> QED BY <2>1, <2>2
<1> HIDE DEF step
<1>5. /\ c \in Candidate /\ c.scale = scale /\ c.dutStart = low + step /\ c.dutEnd = low + step + w
  BY <1>1, <1>2, <1>3, <1>4 DEF Candidate
<1>6. c.dutStart < c.dutEnd /\ c.dutStart >= low /\ c.dutEnd <= high
  BY <1>1, <1>2, <1>4, <1>5
<1>7. InRange(request.dut, c.dutStart, c.dutEnd)
  BY <1>6 DEF InRange, low, high
<1> QED BY <1>5, <1>7 DEF Fits, c

(* The windows of all scales lie in the DUT series, and their search is    *)
(* within the limit.                                                       *)
LEMMA CandidatesFit ==
  ASSUME Selected, eligibleScales # {}, maximumStartsPerScale >= 1
  PROVE  /\ rawCandidates # {} /\ IsFiniteSet(rawCandidates)
         /\ \A c \in rawCandidates : Fits(request.dut, c)
         /\ operationsPerStart * Cardinality(rawCandidates) <= Limits.maxCoarseOperations
         /\ operationsPerStart * Cardinality(rawCandidates) \in Nat
<1> DEFINE E == eligibleScales
           M == maximumStartsPerScale
           raw == rawCandidates
           P == E \X (0..(M - 1))
           f == [v \in P |-> WindowAt(v[1], v[2])]
           T == {f[v] : v \in P}
<1>1. /\ E \subseteq Nat \ {0} /\ IsFiniteSet(E) /\ Cardinality(E) \in Nat \ {0}
      /\ operationsPerStart \in Nat \ {0} /\ M \in Int /\ M >= 1
      /\ M * (operationsPerStart * Cardinality(E)) <= Limits.maxCoarseOperations
  BY MostStarts
<1>2. \A c \in raw : \E s \in E : \E i \in 0..(WindowCount(s) - 1) : c = WindowAt(s, i)
  BY WindowsOneByOne DEF rawCandidates
<1>3. \A s \in E : \A i \in 0..(WindowCount(s) - 1) : WindowAt(s, i) \in raw
  BY WindowsOneByOne DEF rawCandidates
<1> HIDE DEF raw
<1>4. \A c \in raw : Fits(request.dut, c)
  BY <1>1, <1>2, WindowsFit
<1>5. raw # {}
  <2>1. PICK s \in E : TRUE
    OBVIOUS
  <2>2. 0 \in 0..(WindowCount(s) - 1)
    BY <1>1, WindowCounts
  <2> QED BY <1>3, <2>1, <2>2
<1>6. raw \in SUBSET T
  <2>1. ASSUME NEW c \in raw PROVE c \in T
    <3>0. PICK s \in E : \E i \in 0..(WindowCount(s) - 1) : c = WindowAt(s, i)
      BY <1>2
    <3>1. PICK i \in 0..(WindowCount(s) - 1) : c = WindowAt(s, i)
      BY <3>0
    <3>2. i \in 0..(M - 1)
      BY <1>1, WindowCounts
    <3>3. <<s, i>> \in P /\ f[<<s, i>>] = c
      BY <3>1, <3>2
    <3> HIDE DEF P, f
    <3> QED BY <3>3
  <2> QED BY <2>1
<1>7. /\ IsFiniteSet(P) /\ Cardinality(P) = Cardinality(E) * M
  <2>1. IsFiniteSet(0..(M - 1)) /\ Cardinality(0..(M - 1)) = M
    <3>1. 0 \in Int /\ M - 1 \in Int /\ ~(0 > M - 1) /\ (M - 1) - 0 + 1 = M
      BY <1>1
    <3> HIDE DEF M
    <3> QED BY <3>1, FS_Interval
  <2> DEFINE I == 0..(M - 1)
  <2> HIDE DEF I, M, E
  <2>2. IsFiniteSet(E \X I) /\ Cardinality(E \X I) = Cardinality(E) * Cardinality(I)
    BY <1>1, <2>1, FS_Product DEF I
  <2> QED BY <2>1, <2>2 DEF I
<1>8. IsFiniteSet(T) /\ Cardinality(T) <= Cardinality(P)
  <2>1. f \in Surjection(P, T)
    <3> HIDE DEF P
    <3> QED BY DEF Surjection
  <2> HIDE DEF P, f, T
  <2> QED BY <1>7, <2>1, FS_Surjection
<1> HIDE DEF T, P
<1>9. IsFiniteSet(raw) /\ Cardinality(raw) <= Cardinality(T)
  BY <1>6, <1>8, FS_Subset
<1> DEFINE n == Cardinality(raw)
           e == Cardinality(E)
           p == operationsPerStart
<1>10. n \in Nat /\ n <= e * M
  <2>1. Cardinality(raw) \in Nat /\ Cardinality(T) \in Nat /\ Cardinality(P) \in Nat
    BY <1>7, <1>8, <1>9, FS_CardinalityType
  <2> DEFINE t == Cardinality(T)
             u == Cardinality(P)
  <2>2. n \in Nat /\ t \in Nat /\ u \in Nat /\ n <= t /\ t <= u /\ u = e * M
    BY <1>7, <1>8, <1>9, <2>1
  <2> HIDE DEF n, t, u, e, M
  <2> QED BY <2>2
<1> HIDE DEF n, e, p, M
<1>11. p * n \in Nat /\ p * n <= Limits.maxCoarseOperations
  <2>1. p \in Nat /\ e \in Nat /\ M \in Nat /\ n \in Int
    BY <1>1, <1>10 DEF p, e, M
  <2>2. e * M \in Int
    BY <2>1
  <2>3. n * p <= (e * M) * p
    <3> DEFINE z == e * M
    <3>1. z \in Int /\ n <= z
      BY <1>10, <2>2
    <3> HIDE DEF z
    <3>2. n * p <= z * p
      BY <2>1, <3>1, Products
    <3> QED BY <3>2 DEF z
  <2>4. (e * M) * p = M * (p * e) /\ n * p = p * n /\ p * n \in Nat
    <3>1. n \in Nat
      BY <1>10
    <3> QED BY <2>1, <3>1
  <2>5. M * (p * e) <= Limits.maxCoarseOperations
    BY <1>1 DEF M, p, e
  <2>6. Limits.maxCoarseOperations \in Nat
    BY LimitTypes DEF Selected
  <2> DEFINE g == p * n
             h == M * (p * e)
             y == Limits.maxCoarseOperations
  <2>7. g \in Nat /\ h \in Int /\ y \in Nat /\ g <= h /\ h <= y
    <3>1. h \in Int
      BY <2>1
    <3>2. g <= h
      BY <2>3, <2>4
    <3> QED BY <2>4, <2>5, <2>6, <3>1, <3>2
  <2> HIDE DEF g, h, y
  <2>8. g <= y
    BY <2>7
  <2> QED BY <2>7, <2>8 DEF g, y
<1> QED BY <1>4, <1>5, <1>9, <1>11 DEF p, n, raw

-----------------------------------------------------------------------------
(* The candidates that are chosen.                                         *)

(* Finitely many numbers of finitely many elements.                        *)
LEMMA FiniteImage ==
  ASSUME NEW S, IsFiniteSet(S), NEW f, f \in [S -> Int]
  PROVE  {f[x] : x \in S} \in SUBSET Int /\ IsFiniteSet({f[x] : x \in S})
<1> DEFINE T == {f[x] : x \in S}
<1>1. f \in Surjection(S, T)
  BY DEF Surjection
<1>2. T \in SUBSET Int
  OBVIOUS
<1> HIDE DEF T
<1>3. IsFiniteSet(T)
  BY <1>1, FS_Surjection
<1> QED BY <1>2, <1>3 DEF T

(* The first of some candidates is one of them.                            *)
LEMMA FirstIs ==
  ASSUME NEW good, NEW set \in SUBSET Candidate, IsFiniteSet(set), set # {}
  PROVE  First(good, set) \in set
<1> DEFINE best == IF set \cap good = {} THEN set ELSE set \cap good
           starts == {c.dutStart : c \in best}
           start == Min(starts)
           those == {d \in best : d.dutStart = start}
           scales == {c.scale : c \in those}
           scale == Min(scales)
<1>1. First(good, set) = CHOOSE c \in best : c.dutStart = start /\ c.scale = scale
  BY DEF First
<1>2. best \in SUBSET set /\ best # {}
  OBVIOUS
<1>3. IsFiniteSet(best) /\ best \in SUBSET Candidate
  BY <1>2, FS_Subset
<1> HIDE DEF best
<1>4. start \in starts
  <2> DEFINE f == [c \in best |-> c.dutStart]
  <2>1. f \in [best -> Int]
    BY <1>3 DEF Candidate
  <2>2. starts = {f[c] : c \in best}
    OBVIOUS
  <2> HIDE DEF f
  <2>3. starts \in SUBSET Int /\ IsFiniteSet(starts)
    BY <1>3, <2>1, <2>2, FiniteImage
  <2>4. starts # {}
    BY <1>2
  <2> HIDE DEF starts
  <2> QED BY <2>3, <2>4, MinIs
<1>5. those # {} /\ IsFiniteSet(those) /\ those \in SUBSET Candidate
  <2>1. PICK c \in best : c.dutStart = start
    <3> HIDE DEF start
    <3> QED BY <1>4
  <2>2. c \in those
    BY <2>1
  <2>3. those \in SUBSET best
    OBVIOUS
  <2> HIDE DEF those
  <2> QED BY <1>3, <2>2, <2>3, FS_Subset
<1> HIDE DEF those
<1>6. scale \in scales
  <2> DEFINE f == [c \in those |-> c.scale]
  <2>1. f \in [those -> Int]
    BY <1>5 DEF Candidate
  <2>2. scales = {f[c] : c \in those}
    OBVIOUS
  <2> HIDE DEF f
  <2>3. scales \in SUBSET Int /\ IsFiniteSet(scales)
    BY <1>5, <2>1, <2>2, FiniteImage
  <2>4. scales # {}
    BY <1>5
  <2> HIDE DEF scales
  <2> QED BY <2>3, <2>4, MinIs
<1>7. \E c \in best : c.dutStart = start /\ c.scale = scale
  <2>1. PICK c \in those : c.scale = scale
    <3> HIDE DEF scale
    <3> QED BY <1>6
  <2>2. c \in best /\ c.dutStart = start
    <3> HIDE DEF start
    <3> QED BY DEF those
  <2> QED BY <2>1, <2>2
<1>8. First(good, set) \in best
  <2> HIDE DEF start, scale
  <2> QED BY <1>1, <1>7
<1> QED BY <1>2, <1>8

FreeOf(all, selected) == {c \in all \ Range(selected) : \A k \in DOMAIN selected : ~isSameBasin(selected[k], c)}

(* What a selection of some steps is.                                      *)
Distinct(all, q, k) ==
    /\ q \in Seq(all) /\ Len(q) <= k
    /\ \A i, j \in 1..Len(q) : i < j => ~isSameBasin(q[i], q[j])
    /\ Len(q) = k \/ FreeOf(all, q) = {}

(* The selected candidates are of different basins, and complete unless    *)
(* there are enough.                                                       *)
LEMMA SelectionIsDistinct ==
  ASSUME NEW all \in SUBSET Candidate, IsFiniteSet(all), NEW good, NEW count \in Nat
  PROVE  Distinct(all, selectDistinctCandidates(good, all, count), count)
<1> DEFINE V == Seq(all)
           next == [k \in 1..count |-> [q \in V |->
                       IF FreeOf(all, q) = {} THEN q ELSE Append(q, First(good, FreeOf(all, q)))]]
           L == Loop(0, count, <<>>, next)
<1>1. selectDistinctCandidates(good, all, count) = L[count]
  BY DEF selectDistinctCandidates, FreeOf
<1>2. ASSUME NEW q, FreeOf(all, q) # {} PROVE First(good, FreeOf(all, q)) \in FreeOf(all, q)
  <2> DEFINE F == FreeOf(all, q)
  <2>1. F \in SUBSET all
    BY DEF FreeOf
  <2> HIDE DEF F
  <2>2. IsFiniteSet(F) /\ F \in SUBSET Candidate
    BY <2>1, FS_Subset
  <2>3. F # {}
    BY <1>2 DEF F
  <2>4. First(good, F) \in F
    BY <2>2, <2>3, FirstIs
  <2> QED BY <2>4 DEF F
<1>3. ASSUME NEW q \in V
      PROVE  (IF FreeOf(all, q) = {} THEN q ELSE Append(q, First(good, FreeOf(all, q)))) \in V
  <2>1. FreeOf(all, q) # {} => First(good, FreeOf(all, q)) \in all
    BY <1>2 DEF FreeOf
  <2> DEFINE c == First(good, FreeOf(all, q))
  <2> HIDE DEF c
  <2> QED BY <2>1 DEF c
<1>4. next \in [1..count -> [V -> V]]
  <2> HIDE DEF V
  <2> QED BY <1>3
<1>5. \A k \in 1..count : \A q \in V :
          next[k][q] = IF FreeOf(all, q) = {} THEN q ELSE Append(q, First(good, FreeOf(all, q)))
  OBVIOUS
<1>6. <<>> \in V
  OBVIOUS
<1>7. /\ L \in [0..count -> V]
      /\ L[0] = <<>>
      /\ \A k \in 1..count : L[k] = next[k][L[k - 1]]
  <2> HIDE DEF V, next
  <2> QED BY <1>4, <1>6, LoopFromZero
<1> HIDE DEF L, next
<1> DEFINE S == {k \in 0..count : Distinct(all, L[k], k)}
<1>8. 0 \in S
  <2>1. Distinct(all, <<>>, 0)
    BY <1>6 DEF Distinct
  <2> QED BY <1>7, <2>1
<1>9. ASSUME NEW k \in 1..count, k - 1 \in S PROVE k \in S
  <2> DEFINE q == L[k - 1]
             c == First(good, FreeOf(all, q))
             r == Append(q, c)
  <2>1. Distinct(all, q, k - 1) /\ q \in V
    BY <1>9 DEF Distinct
  <2>2. L[k] = IF FreeOf(all, q) = {} THEN q ELSE r
    BY <1>5, <1>7, <2>1
  <2> HIDE DEF q
  <2>3. /\ q \in Seq(all) /\ Len(q) <= k - 1 /\ Len(q) \in Nat
        /\ \A i, j \in 1..Len(q) : i < j => ~isSameBasin(q[i], q[j])
        /\ Len(q) = k - 1 \/ FreeOf(all, q) = {}
    BY <2>1 DEF Distinct
  <2>4. CASE FreeOf(all, q) = {}
    <3>1. Distinct(all, q, k)
      BY <2>3, <2>4 DEF Distinct
    <3> QED BY <2>2, <2>4, <3>1
  <2>5. CASE FreeOf(all, q) # {}
    <3>1. c \in FreeOf(all, q)
      BY <1>2, <2>5
    <3> HIDE DEF c
    <3>2. c \in all /\ \A i \in 1..Len(q) : ~isSameBasin(q[i], c)
      BY <2>3, <3>1 DEF FreeOf
    <3>3. /\ r \in Seq(all) /\ Len(r) = Len(q) + 1 /\ r[Len(q) + 1] = c
          /\ \A i \in 1..Len(q) : r[i] = q[i]
      BY <2>3, <3>2
    <3> HIDE DEF r
    <3>4. ASSUME NEW i \in 1..Len(r), NEW j \in 1..Len(r), i < j PROVE ~isSameBasin(r[i], r[j])
      <4>1. i \in 1..Len(q)
        BY <2>3, <3>3, <3>4
      <4>2. CASE j = Len(q) + 1
        BY <3>2, <3>3, <4>1, <4>2
      <4>3. CASE j # Len(q) + 1
        <5>1. j \in 1..Len(q)
          BY <2>3, <3>3, <4>3
        <5> QED BY <2>3, <3>3, <3>4, <4>1, <5>1
      <4> QED BY <4>2, <4>3
    <3>5. Len(r) = k
      BY <2>3, <2>5, <3>3
    <3>6. Distinct(all, r, k)
      BY <3>3, <3>4, <3>5 DEF Distinct
    <3> QED BY <2>2, <2>5, <3>6
  <2> QED BY <2>4, <2>5
<1>10. count \in S
  <2> HIDE DEF S
  <2>1. \A k \in 0..count : k \in S
    BY <1>8, <1>9, Induction
  <2> QED BY <2>1
<1> QED BY <1>1, <1>10

(* The candidates do not depend on more than the call and its selection.   *)
LEMMA RawUnchanged ==
  ASSUME UNCHANGED <<request, reference>>
  PROVE  rawCandidates' = rawCandidates
<1>1. Options' = Options /\ Limits' = Limits /\ request'.dut = request.dut /\ reference' = reference
  BY DEF Options, Limits
<1>2. makeScales' = makeScales
  BY <1>1 DEF makeScales
<1>3. eligibleScales' = eligibleScales
  BY <1>1, <1>2 DEF eligibleScales
<1>4. operationsPerStart' = operationsPerStart
  BY <1>1 DEF operationsPerStart
<1>5. maximumStartsPerScale' = maximumStartsPerScale
  BY <1>1, <1>3, <1>4 DEF maximumStartsPerScale
<1>6. ASSUME NEW scale PROVE Windows(scale)' = Windows(scale)
  <2>1. Window(scale)' = Window(scale)
    BY <1>1 DEF Window
  <2>2. Room(scale)' = Room(scale)
    BY <1>1, <2>1 DEF Room
  <2>3. WindowCount(scale)' = WindowCount(scale)
    BY <1>1, <1>5, <2>2 DEF WindowCount
  <2>4. ASSUME NEW i PROVE WindowAt(scale, i)' = WindowAt(scale, i)
    BY <1>1, <2>1, <2>2, <2>3 DEF WindowAt
  <2>5. Windows(scale) = {WindowAt(scale, i) : i \in 0..(WindowCount(scale) - 1)}
    BY WindowsOneByOne
  <2>6. Windows(scale)' = {WindowAt(scale, i)' : i \in 0..(WindowCount(scale)' - 1)}
    BY DEF Windows, WindowAt, WindowCount, Room, Window
  <2> QED BY <2>3, <2>4, <2>5, <2>6
<1> QED BY <1>3, <1>6 DEF rawCandidates

(* CandidatesAreDistinct, of any candidates.                               *)
AreDistinct(q, raw, dut, o, limits) ==
    LET chosen == Range(q)
        apart(c, d) == 100 * Distance(c.dutStart, d.dutStart)
                            >= o.separationRatio * Min({c.dutEnd - c.dutStart, d.dutEnd - d.dutStart})
    IN  /\ q # <<>>
        /\ \A c \in chosen : InRange(dut, c.dutStart, c.dutEnd)
        /\ \A c, d \in chosen : c.scale = d.scale => c = d \/ apart(c, d)
        /\ Len(q) < o.candidateCount => \A c \in raw : \E d \in chosen : ~apart(c, d) \/ c = d
        /\ (o.probeCount * FeatureDimensions) * Cardinality(raw) <= limits.maxCoarseOperations

Apart(c, d) ==
    100 * Distance(c.dutStart, d.dutStart)
        >= Options.separationRatio * Min({c.dutEnd - c.dutStart, d.dutEnd - d.dutStart})

(* Two windows of the same basin do not start well apart; two of one scale *)
(* and of different basins do.                                             *)
LEMMA Basins ==
  ASSUME request \in Requests, NEW c \in Candidate, NEW d \in Candidate
  PROVE  /\ isSameBasin(c, d) => ~Apart(c, d)
         /\ Apart(c, d) = Apart(d, c)
         /\ c.scale = d.scale /\ ~isSameBasin(c, d) => Apart(c, d)
<1> DEFINE x == c.dutEnd - c.dutStart
           y == d.dutEnd - d.dutStart
           m == Min({x, y})
           r == Options.separationRatio
           a == Distance(c.dutStart, d.dutStart)
<1>1. x \in Int /\ y \in Int /\ c.dutStart \in Int /\ d.dutStart \in Int /\ c.scale \in Nat \ {0} /\ d.scale \in Nat \ {0}
  BY DEF Candidate
<1>2. a \in Int /\ Distance(d.dutStart, c.dutStart) = a
  BY <1>1 DEF Distance
<1>3. r \in Int
  BY OptionTypes
<1>4. Apart(c, d) <=> 100 * a >= r * m
  BY DEF Apart
<1>5. isSameBasin(c, d) <=> scaleSimilarity(c, d) /\ 100 * a < m * r
  BY DEF isSameBasin
<1>6. Min({d.dutEnd - d.dutStart, c.dutEnd - c.dutStart}) = m
  <2>1. {d.dutEnd - d.dutStart, c.dutEnd - c.dutStart} = {x, y}
    OBVIOUS
  <2> QED BY <2>1
<1>7. Apart(d, c) <=> 100 * a >= r * m
  BY <1>2, <1>6 DEF Apart
<1> HIDE DEF x, y
<1>8. m \in Int
  <2>1. m = IF x <= y THEN x ELSE y
    BY <1>1, MinMaxTwo
  <2> QED BY <1>1, <2>1
<1>9. ASSUME c.scale = d.scale PROVE scaleSimilarity(c, d)
  <2> DEFINE k == c.scale
  <2>1. k \in Nat \ {0} /\ d.scale = k
    BY <1>1, <1>9
  <2>2. Max({k, k}) = k /\ Min({k, k}) = k
    <3>1. k \in Int /\ k <= k
      BY <2>1
    <3> HIDE DEF k
    <3> QED BY <3>1, MinMaxTwo
  <2>3. scaleSimilarity(c, d) <=> 10000 * Max({k, k}) < 10833 * Min({k, k})
    BY <2>1 DEF scaleSimilarity
  <2> HIDE DEF k
  <2>4. 10000 * k < 10833 * k
    BY <2>1
  <2> QED BY <2>2, <2>3, <2>4
<1> HIDE DEF m, r, a
<1>10. r * m = m * r /\ r * m \in Int /\ 100 * a \in Int
  BY <1>2, <1>3, <1>8
<1>11. 100 * a < m * r <=> ~(100 * a >= r * m)
  BY <1>10
<1>12. Apart(c, d) \in BOOLEAN /\ Apart(d, c) \in BOOLEAN
  BY DEF Apart
<1> QED BY <1>4, <1>5, <1>7, <1>9, <1>11, <1>12

(* The candidates of a search are as CandidatesAreDistinct asks.           *)
LEMMA CandidatesFound ==
  ASSUME Selected, eligibleScales # {}, maximumStartsPerScale >= 1,
         NEW good, NEW q, q = selectDistinctCandidates(good, rawCandidates, Options.candidateCount)
  PROVE  /\ AreDistinct(q, rawCandidates, request.dut, Options, Limits)
         /\ q \in Seq(Candidate) /\ q # <<>>
         /\ \A k \in 1..Len(q) : Fits(request.dut, q[k])
<1> DEFINE raw == rawCandidates
           n == Options.candidateCount
<1>1. /\ raw # {} /\ IsFiniteSet(raw)
      /\ \A c \in raw : Fits(request.dut, c)
      /\ operationsPerStart * Cardinality(raw) <= Limits.maxCoarseOperations
  BY CandidatesFit
<1>2. raw \in SUBSET Candidate
  BY <1>1 DEF Fits
<1>3. n \in Nat /\ n >= 1 /\ request \in Requests
  BY OptionTypes DEF Selected
<1> HIDE DEF raw, n
<1>4. Distinct(raw, q, n)
  <2>1. q = selectDistinctCandidates(good, raw, n)
    BY DEF raw, n
  <2> QED BY <1>1, <1>2, <1>3, <2>1, SelectionIsDistinct
<1>5. /\ q \in Seq(raw) /\ Len(q) \in Nat /\ Len(q) <= n
      /\ \A i, j \in 1..Len(q) : i < j => ~isSameBasin(q[i], q[j])
      /\ Len(q) = n \/ FreeOf(raw, q) = {}
  BY <1>4 DEF Distinct
<1>6. \A i \in 1..Len(q) : q[i] \in raw /\ q[i] \in Candidate
  BY <1>2, <1>5
<1>7. Range(q) = {q[i] : i \in 1..Len(q)} /\ DOMAIN q = 1..Len(q)
  BY <1>5 DEF Range
<1>8. q # <<>>
  <2> SUFFICES ASSUME q = <<>> PROVE FALSE
    OBVIOUS
  <2>1. Len(q) = 0 /\ FreeOf(raw, q) = {}
    BY <1>3, <1>5
  <2>2. FreeOf(raw, q) = raw
    BY <1>7, <2>1 DEF FreeOf
  <2> QED BY <1>1, <2>1, <2>2
<1>9. ASSUME NEW i \in 1..Len(q), NEW j \in 1..Len(q), q[i].scale = q[j].scale
      PROVE  q[i] = q[j] \/ Apart(q[i], q[j])
  <2>1. q[i] \in Candidate /\ q[j] \in Candidate
    BY <1>6
  <2>2. CASE i < j
    BY <1>3, <1>5, <1>9, <2>1, <2>2, Basins
  <2>3. CASE j < i
    <3>1. Apart(q[j], q[i])
      BY <1>3, <1>5, <1>9, <2>1, <2>3, Basins
    <3> QED BY <1>3, <2>1, <3>1, Basins
  <2>4. CASE i = j
    BY <2>4
  <2> QED BY <2>2, <2>3, <2>4
<1>10. ASSUME Len(q) < n, NEW c \in raw
       PROVE  \E i \in 1..Len(q) : ~Apart(c, q[i]) \/ c = q[i]
  <2>1. FreeOf(raw, q) = {}
    BY <1>3, <1>5, <1>10
  <2>2. c \in Range(q) \/ \E k \in 1..Len(q) : isSameBasin(q[k], c)
    BY <1>7, <2>1 DEF FreeOf
  <2>3. CASE c \in Range(q)
    BY <1>7, <2>3
  <2>4. CASE \E k \in 1..Len(q) : isSameBasin(q[k], c)
    <3>1. PICK k \in 1..Len(q) : isSameBasin(q[k], c)
      BY <2>4
    <3>2. q[k] \in Candidate /\ c \in Candidate
      BY <1>2, <1>6
    <3>3. ~Apart(c, q[k])
      BY <1>3, <3>1, <3>2, Basins
    <3> QED BY <3>3
  <2> QED BY <2>2, <2>3, <2>4
<1>11. AreDistinct(q, raw, request.dut, Options, Limits)
  <2>1. \A c \in Range(q) : InRange(request.dut, c.dutStart, c.dutEnd)
    BY <1>1, <1>6, <1>7 DEF Fits
  <2>2. \A c, d \in Range(q) : c.scale = d.scale => c = d \/ Apart(c, d)
    BY <1>7, <1>9
  <2>3. Len(q) < Options.candidateCount => \A c \in raw : \E d \in Range(q) : ~Apart(c, d) \/ c = d
    BY <1>7, <1>10 DEF n
  <2>4. (Options.probeCount * FeatureDimensions) * Cardinality(raw) <= Limits.maxCoarseOperations
    BY <1>1 DEF operationsPerStart
  <2> QED BY <1>8, <2>1, <2>2, <2>3, <2>4 DEF AreDistinct, Apart
<1>12. q \in Seq(Candidate)
  BY <1>2, <1>5
<1>13. \A k \in 1..Len(q) : Fits(request.dut, q[k])
  BY <1>1, <1>6
<1> QED BY <1>8, <1>11, <1>12, <1>13 DEF raw

-----------------------------------------------------------------------------
(* What is sampled of a candidate.                                         *)

(* SamplesCoverTheRange, of any samples.                                   *)
Cover(s, r) ==
    LET nearest(k, t) == \A j \in DOMAIN s.dut.timestamps :
                            Distance(s.dut.timestamps[k], t) <= Distance(s.dut.timestamps[j], t)
    IN  /\ s.ref.timestamps[0] = r.start /\ Final(s.ref.timestamps) = r.end
        /\ s.dut.timestamps[0] <= s.candidate[1] /\ s.candidate[2] <= Final(s.dut.timestamps)
        /\ \A x \in {s.ref, s.dut} :
            /\ \A i \in 1..(Count(x.timestamps) - 1) : x.timestamps[i - 1] < x.timestamps[i]
            /\ Count(x.timestamps) <= r.limits.maxDtwSamples
        /\ \A i \in DOMAIN s.dut.timestamps, k \in 1..(Count(r.dut.timestamps) - 1) :
            LET times == r.dut.timestamps  v == r.dut.values
            IN  s.dut.timestamps[i] \in times[k - 1]..times[k] =>
                    s.dut.values[i] \in Min({v[k - 1], v[k]})..Max({v[k - 1], v[k]})
        /\ nearest(s.start, s.candidate[1]) /\ nearest(s.end, s.candidate[2])

PaddedStart(c) ==
    Padded(request.dut.timestamps[0], Final(request.dut.timestamps),
           c.dutStart - ((c.dutEnd - c.dutStart) * Options.paddingRatio) \div 100)
PaddedEnd(c) ==
    Padded(request.dut.timestamps[0], Final(request.dut.timestamps),
           c.dutEnd + ((c.dutEnd - c.dutStart) * Options.paddingRatio) \div 100)

(* The padded range covers the candidate and lies in the DUT series.       *)
LEMMA PaddedRange ==
  ASSUME Selected, NEW c, Fits(request.dut, c)
  PROVE  /\ PaddedStart(c) \in Int /\ PaddedEnd(c) \in Int
         /\ PaddedStart(c) <= c.dutStart /\ c.dutEnd <= PaddedEnd(c)
         /\ InRange(request.dut, PaddedStart(c), PaddedEnd(c))
         /\ c.dutStart \in Int /\ c.dutEnd \in Int /\ c.dutStart < c.dutEnd
<1> DEFINE low == request.dut.timestamps[0]
           high == Final(request.dut.timestamps)
           x == c.dutStart
           y == c.dutEnd
           p == (y - x) * Options.paddingRatio
           d == p \div 100
<1>1. low \in Int /\ high \in Int
  BY Lengths
<1>2. x \in Int /\ y \in Int /\ x < y /\ low <= x /\ y <= high
  BY DEF Fits, Candidate, InRange
<1>3. d \in Int /\ 0 <= d
  <2>1. Options.paddingRatio \in Nat
    BY OptionTypes DEF Selected
  <2>2. y - x \in Nat
    BY <1>2
  <2> DEFINE z == y - x
             o == Options.paddingRatio
  <2>3. z * o \in Nat
    <3>1. z \in Nat /\ o \in Nat
      BY <2>1, <2>2
    <3> HIDE DEF z, o
    <3> QED BY <3>1
  <2>4. p \in Int /\ 0 * 100 <= p /\ 100 \in Nat \ {0} /\ 0 \in Int
    <3>1. p \in Nat
      BY <2>3
    <3> HIDE DEF p
    <3> QED BY <3>1
  <2> HIDE DEF p
  <2> QED BY <2>4, Quotient, QuotientAtLeast
<1>4. PaddedStart(c) = Padded(low, high, x - d) /\ PaddedEnd(c) = Padded(low, high, y + d)
  BY DEF PaddedStart, PaddedEnd
<1> HIDE DEF low, high, x, y, d
<1>5. ASSUME NEW t \in Int
      PROVE  Padded(low, high, t) = IF low <= (IF high <= t THEN high ELSE t)
                                    THEN (IF high <= t THEN high ELSE t) ELSE low
  <2> DEFINE m == Min({high, t})
  <2>1. m = IF high <= t THEN high ELSE t
    BY <1>1, MinMaxTwo
  <2>2. m \in Int
    BY <1>1, <2>1
  <2>3. Padded(low, high, t) = Max({low, m})
    BY DEF Padded, Clamp
  <2> HIDE DEF m
  <2>4. Max({low, m}) = IF low <= m THEN m ELSE low
    BY <1>1, <2>2, MinMaxTwo
  <2> QED BY <2>1, <2>3, <2>4
<1>6. x - d \in Int /\ y + d \in Int
  BY <1>2, <1>3
<1>7. /\ PaddedStart(c) \in Int /\ low <= PaddedStart(c) /\ PaddedStart(c) <= x
      /\ PaddedEnd(c) \in Int /\ PaddedEnd(c) <= high /\ y <= PaddedEnd(c)
  BY <1>1, <1>2, <1>3, <1>4, <1>5, <1>6
<1>8. InRange(request.dut, PaddedStart(c), PaddedEnd(c))
  BY <1>1, <1>2, <1>7 DEF InRange, low, high
<1> QED BY <1>2, <1>7, <1>8 DEF x, y

(* What is warped of a candidate.                                          *)
SampledOf(c) ==
    LET refSampled == sampleSeriesRange(reference, reference.timestamps[0], Final(reference.timestamps),
                                        Limits.maxDtwSamples)
        dutSampled == sampleSeriesRange(request.dut, PaddedStart(c), PaddedEnd(c), Limits.maxDtwSamples)
        start == nearestIndex(dutSampled.timestamps, c.dutStart)
        end == nearestIndex(dutSampled.timestamps, c.dutEnd)
    IN  [ref |-> refSampled, dut |-> dutSampled, start |-> start, end |-> end,
         radius |-> Max({3, Ceiling(Max({1, end - start}) * Options.bandRatio, 100)}),
         transition |-> Options.transitionPenalty, endpoint |-> Options.endpointPenalty,
         candidate |-> <<c.dutStart, c.dutEnd>>]

(* What is sampled of a candidate covers its range.                        *)
LEMMA SampledOfCandidate ==
  ASSUME Selected, NEW c, Fits(request.dut, c), NEW s, s = SampledOf(c)
  PROVE  Sampling(s) /\ Cover(s, request)
<1> DEFINE R == sampleSeriesRange(reference, reference.timestamps[0], Final(reference.timestamps),
                                  Limits.maxDtwSamples)
           D == sampleSeriesRange(request.dut, PaddedStart(c), PaddedEnd(c), Limits.maxDtwSamples)
           n == Count(D.timestamps)
           start == nearestIndex(D.timestamps, c.dutStart)
           end == nearestIndex(D.timestamps, c.dutEnd)
           radius == Max({3, Ceiling(Max({1, end - start}) * Options.bandRatio, 100)})
           m == Limits.maxDtwSamples
<1>1. /\ PaddedStart(c) \in Int /\ PaddedEnd(c) \in Int
      /\ PaddedStart(c) <= c.dutStart /\ c.dutEnd <= PaddedEnd(c)
      /\ InRange(request.dut, PaddedStart(c), PaddedEnd(c))
      /\ c.dutStart \in Int /\ c.dutEnd \in Int
  BY PaddedRange
<1>2. Valid(reference) /\ Valid(request.dut) /\ m \in Nat /\ m >= 2 /\ request \in Requests
      /\ reference.timestamps[0] = request.start /\ Final(reference.timestamps) = request.end
      /\ request.start < request.end /\ request.start \in Int /\ request.end \in Int
  BY LimitTypes, RequestTypes DEF Selected
<1>3. /\ Options.transitionPenalty \in Nat /\ Options.endpointPenalty \in Nat /\ Options.bandRatio \in Nat
  BY <1>2, OptionTypes
<1>4. /\ Valid(D) /\ Count(D.timestamps) <= m
      /\ D.timestamps[0] = PaddedStart(c) /\ Final(D.timestamps) = PaddedEnd(c)
      /\ \A i \in DOMAIN D.timestamps : D.timestamps[i] \in Int
      /\ \A i \in DOMAIN D.timestamps : D.values[i] = interpolateVectorAt(request.dut, D.timestamps[i])
      /\ DOMAIN D.timestamps = 0..(n - 1)
  BY <1>1, <1>2, SampledSeries
<1>5. /\ Valid(R) /\ Count(R.timestamps) <= m
      /\ R.timestamps[0] = request.start /\ Final(R.timestamps) = request.end
  <2> DEFINE a == reference.timestamps[0]
             b == Final(reference.timestamps)
  <2>1. a \in Int /\ b \in Int /\ a = request.start /\ b = request.end /\ a < b
    BY <1>2
  <2>2. InRange(reference, a, b)
    BY <2>1 DEF InRange
  <2>3. R = sampleSeriesRange(reference, a, b, m)
    OBVIOUS
  <2> HIDE DEF a, b, R, m
  <2>4. /\ Valid(R) /\ Count(R.timestamps) <= m
        /\ R.timestamps[0] = a /\ Final(R.timestamps) = b
    BY <1>2, <2>1, <2>2, <2>3, SampledSeries
  <2> QED BY <2>1, <2>4
<1>6. s = [ref |-> R, dut |-> D, start |-> start, end |-> end, radius |-> radius,
           transition |-> Options.transitionPenalty, endpoint |-> Options.endpointPenalty,
           candidate |-> <<c.dutStart, c.dutEnd>>]
  BY DEF SampledOf
<1> HIDE DEF R, D
<1>7. /\ start \in 0..(n - 1) /\ end \in 0..(n - 1)
      /\ \A j \in 0..(n - 1) : Distance(D.timestamps[start], c.dutStart) <= Distance(D.timestamps[j], c.dutStart)
      /\ \A j \in 0..(n - 1) : Distance(D.timestamps[end], c.dutEnd) <= Distance(D.timestamps[j], c.dutEnd)
  BY <1>1, <1>4, Nearest
<1>8. n \in Nat /\ n >= 2
  BY <1>4, ValidParts
<1> HIDE DEF n, start, end, m
<1>9. radius \in Nat /\ radius >= 3
  <2> DEFINE x == Max({1, end - start})
             y == x * Options.bandRatio
             z == Ceiling(y, 100)
  <2>1. x \in Int
    <3> DEFINE w == end - start
    <3>1. w \in Int
      BY <1>7, <1>8
    <3> HIDE DEF w
    <3>2. Max({1, w}) = IF 1 <= w THEN w ELSE 1
      BY <3>1, MinMaxTwo
    <3> QED BY <3>1, <3>2 DEF w
  <2> HIDE DEF x
  <2>2. y \in Int
    BY <1>3, <2>1
  <2> HIDE DEF y
  <2>3. z \in Int
    <3>1. y + 100 - 1 \in Int /\ 100 \in Nat \ {0}
      BY <2>2
    <3> QED BY <3>1, Quotient DEF Ceiling
  <2> HIDE DEF z
  <2>4. Max({3, z}) = IF 3 <= z THEN z ELSE 3
    BY <2>3, MinMaxTwo
  <2>5. radius = Max({3, z})
    BY DEF z, y, x
  <2> HIDE DEF radius
  <2> QED BY <2>3, <2>4, <2>5
<1> HIDE DEF radius
<1>10. /\ s.ref = R /\ s.dut = D /\ s.start = start /\ s.end = end /\ s.radius = radius
       /\ s.transition = Options.transitionPenalty /\ s.endpoint = Options.endpointPenalty
       /\ s.candidate[1] = c.dutStart /\ s.candidate[2] = c.dutEnd
  BY <1>6
<1>11. Sampling(s)
  BY <1>3, <1>4, <1>5, <1>7, <1>9, <1>10 DEF Sampling, n
<1>12. ASSUME NEW i \in DOMAIN D.timestamps, NEW k \in 1..(Count(request.dut.timestamps) - 1),
              D.timestamps[i] \in request.dut.timestamps[k - 1]..request.dut.timestamps[k]
       PROVE  D.values[i] \in Min({request.dut.values[k - 1], request.dut.values[k]})
                                  ..Max({request.dut.values[k - 1], request.dut.values[k]})
  <2> DEFINE t == D.timestamps[i]
             v == interpolateVectorAt(request.dut, t)
             p == request.dut.values[k - 1]
             q == request.dut.values[k]
             l == Count(request.dut.timestamps)
  <2>1. t \in Int /\ D.values[i] = v
    BY <1>4
  <2>2. /\ l \in Nat /\ request.dut.timestamps \in [0..(l - 1) -> Int] /\ request.dut.values \in [0..(l - 1) -> Int]
    BY <1>2, ValidParts
  <2>3. k - 1 \in 0..(l - 1) /\ k \in 0..(l - 1)
    BY <2>2
  <2>4. p \in Int /\ q \in Int /\ request.dut.timestamps[k - 1] \in Int /\ request.dut.timestamps[k] \in Int
    <3> HIDE DEF l
    <3> QED BY <2>2, <2>3
  <2>5. request.dut.timestamps[k - 1] <= t /\ t <= request.dut.timestamps[k]
    BY <1>12, <2>1, <2>4
  <2> HIDE DEF t
  <2>6. v \in Int /\ Between(v, p, q)
    BY <1>2, <2>1, <2>5, Interpolated
  <2> HIDE DEF v, p, q
  <2>7. Min({p, q}) = (IF p <= q THEN p ELSE q) /\ Max({p, q}) = (IF p <= q THEN q ELSE p)
    BY <2>4, MinMaxTwo
  <2>8. v \in Min({p, q})..Max({p, q})
    BY <2>4, <2>6, <2>7 DEF Between
  <2> QED BY <2>1, <2>8 DEF p, q
<1>13. Rising(R.timestamps) /\ Rising(D.timestamps)
  BY <1>4, <1>5 DEF Valid
<1>14. Cover(s, request)
  <2>1. s.ref.timestamps[0] = request.start /\ Final(s.ref.timestamps) = request.end
    BY <1>5, <1>10
  <2>2. s.dut.timestamps[0] <= s.candidate[1] /\ s.candidate[2] <= Final(s.dut.timestamps)
    BY <1>1, <1>4, <1>10
  <2>3. \A x \in {s.ref, s.dut} :
            /\ \A i \in 1..(Count(x.timestamps) - 1) : x.timestamps[i - 1] < x.timestamps[i]
            /\ Count(x.timestamps) <= request.limits.maxDtwSamples
    BY <1>4, <1>5, <1>10, <1>13 DEF Rising, m, Limits
  <2>4. \A i \in DOMAIN s.dut.timestamps, k \in 1..(Count(request.dut.timestamps) - 1) :
            s.dut.timestamps[i] \in request.dut.timestamps[k - 1]..request.dut.timestamps[k] =>
                s.dut.values[i] \in Min({request.dut.values[k - 1], request.dut.values[k]})
                                        ..Max({request.dut.values[k - 1], request.dut.values[k]})
    BY <1>10, <1>12
  <2>5. \A j \in DOMAIN s.dut.timestamps :
            /\ Distance(s.dut.timestamps[s.start], s.candidate[1]) <= Distance(s.dut.timestamps[j], s.candidate[1])
            /\ Distance(s.dut.timestamps[s.end], s.candidate[2]) <= Distance(s.dut.timestamps[j], s.candidate[2])
    BY <1>4, <1>7, <1>10
  <2> QED BY <2>1, <2>2, <2>3, <2>4, <2>5 DEF Cover
<1> QED BY <1>11, <1>14

-----------------------------------------------------------------------------
(* A path in times.                                                        *)

(* A way goes step by step from the first row.                             *)
Threads(s, q) ==
    /\ q \in Seq(Nat \X Nat) /\ Len(q) >= 1
    /\ q[1][1] = 0
    /\ \A k \in 1..Len(q) : InTheBand(s, q[k])
    /\ \A k \in 2..Len(q) : q[k] \in WaysOn(s, q[k - 1])

(* A way of one cell is a thread of cells.                                 *)
LEMMA StartsThread ==
  ASSUME NEW s, Sampling(s), NEW w \in Starts(s)
  PROVE  Threads(s, w.cells)
<1>1. PICK j \in BandRange(s, 0) :
          w = [cells |-> <<<<0, j>>>>, cost |-> localDistance(s, 0, j) + EndPenalty(s, j, s.start)]
  BY DEF Starts
<1> DEFINE c == <<0, j>>
           q == <<c>>
<1>2. InTheBand(s, c)
  <2>1. 0 \in 0..LastRow(s)
    BY LastRows
  <2>2. j \in Nat
    BY <2>1, BandShape
  <2> QED BY <2>1, <2>2 DEF InTheBand
<1>3. w.cells = q /\ c[1] = 0 /\ c \in Nat \X Nat
  BY <1>1, <1>2 DEF InTheBand
<1> HIDE DEF c
<1>4. q \in Seq(Nat \X Nat) /\ Len(q) = 1 /\ q[1] = c
  BY <1>3
<1> HIDE DEF q
<1>5. Threads(s, q)
  BY <1>2, <1>3, <1>4 DEF Threads
<1> QED BY <1>3, <1>5

(* A thread that is one step longer is a thread.                           *)
LEMMA LongerThread ==
  ASSUME NEW s, Sampling(s), NEW w, Threads(s, w.cells), NEW x \in Longer(s, w)
  PROVE  Threads(s, x.cells)
<1> DEFINE q == w.cells
           n == Len(q)
<1>1. PICK c \in WaysOn(s, Last(q)) : x.cells = Append(q, c)
  BY DEF Longer
<1>2. /\ q \in Seq(Nat \X Nat) /\ n \in Nat /\ n >= 1 /\ q[1][1] = 0
      /\ \A k \in 1..n : InTheBand(s, q[k])
      /\ \A k \in 2..n : q[k] \in WaysOn(s, q[k - 1])
  BY DEF Threads
<1>3. InTheBand(s, c) /\ c \in WaysOn(s, q[n])
  BY <1>1, StepsOn DEF Last
<1> DEFINE r == Append(q, c)
<1> HIDE DEF q, n
<1>4. /\ r \in Seq(Nat \X Nat) /\ Len(r) = n + 1 /\ r[n + 1] = c
      /\ \A k \in 1..n : r[k] = q[k]
  <2>1. c \in Nat \X Nat
    BY <1>3 DEF InTheBand
  <2> QED BY <1>2, <2>1 DEF n
<1> HIDE DEF r
<1>5. ASSUME NEW k \in 1..(n + 1) PROVE InTheBand(s, r[k])
  <2>1. CASE k = n + 1
    BY <1>3, <1>4, <2>1
  <2>2. CASE k # n + 1
    <3>1. k \in 1..n
      BY <1>2, <2>2
    <3> QED BY <1>2, <1>4, <3>1
  <2> QED BY <2>1, <2>2
<1>6. ASSUME NEW k \in 2..(n + 1) PROVE r[k] \in WaysOn(s, r[k - 1])
  <2>1. k - 1 \in 1..n
    BY <1>2
  <2>2. CASE k = n + 1
    <3>1. r[k - 1] = q[n]
      BY <1>2, <1>4, <2>1, <2>2
    <3> QED BY <1>3, <1>4, <2>2, <3>1
  <2>3. CASE k # n + 1
    <3>1. k \in 2..n /\ k \in 1..n
      BY <1>2, <2>3
    <3> QED BY <1>2, <1>4, <2>1, <3>1
  <2> QED BY <2>2, <2>3
<1>7. r[1][1] = 0
  <2>1. 1 \in 1..n
    BY <1>2
  <2> QED BY <1>2, <1>4, <2>1
<1>8. Threads(s, r)
  BY <1>2, <1>4, <1>5, <1>6, <1>7 DEF Threads
<1> QED BY <1>1, <1>8 DEF r

(* A way is a thread of cells: at every step one of the indices or both    *)
(* rise by one.                                                            *)
LEMMA WaysThread ==
  ASSUME NEW s, Sampling(s), NEW n \in 1..Longest(s), NEW w \in Ways(s)[n]
  PROVE  Threads(s, w.cells)
<1> DEFINE m == Longest(s)
           ways == Ways(s)
           S == {k \in 1..m : \A v \in ways[k] : Threads(s, v.cells)}
<1>1. m \in Nat /\ m >= 4
  BY LongestIs
<1>2. /\ ways[1] = Starts(s)
      /\ \A k \in 2..m : ways[k] = UNION {Longer(s, v) : v \in ways[k - 1]}
  BY WaysComputed
<1> HIDE DEF m, ways
<1>3. 1 \in S
  <2>1. \A v \in ways[1] : Threads(s, v.cells)
    BY <1>2, StartsThread
  <2> QED BY <1>1, <2>1
<1>4. ASSUME NEW k \in 2..m, k - 1 \in S PROVE k \in S
  <2>1. ASSUME NEW x \in ways[k] PROVE Threads(s, x.cells)
    <3>1. PICK v \in ways[k - 1] : x \in Longer(s, v)
      BY <1>2
    <3>2. Threads(s, v.cells)
      BY <1>4
    <3> QED BY <3>1, <3>2, LongerThread
  <2> QED BY <1>1, <2>1
<1>5. \A k \in 1..m : k \in S
  <2>1. 1 \in Int /\ m \in Int /\ (1 + 1)..m = 2..m
    BY <1>1
  <2> HIDE DEF S
  <2> QED BY <1>3, <1>4, <2>1, IntervalInduction
<1> QED BY <1>5 DEF m, ways

(* A path in times: in order, and over more than one time of REF.          *)
PathOfTimes(p) ==
    /\ p \in Seq([index : Nat \X Nat, referenceTime : Int, dutTime : Int])
    /\ Len(p) >= 2
    /\ \A k \in 2..Len(p) : p[k - 1].referenceTime <= p[k].referenceTime /\ p[k - 1].dutTime <= p[k].dutTime
    /\ p[1].referenceTime < p[Len(p)].referenceTime

(* What is listed from 1 to n is a sequence.                               *)
LEMMA ListedIs ==
  ASSUME NEW X, NEW n \in Nat, NEW p \in [1..n -> X]
  PROVE  p \in Seq(X) /\ Len(p) = n
<1>1. p \in Seq(X)
  OBVIOUS
<1> QED BY <1>1

(* The times along a way through the band never fall.                      *)
LEMMA WaysArePaths ==
  ASSUME NEW s, Sampling(s), NEW w \in WaysThrough(s), NEW path, path = w.cells,
         NEW p, p = [k \in DOMAIN path |-> [index |-> path[k],
                                            referenceTime |-> s.ref.timestamps[path[k][1]],
                                            dutTime |-> s.dut.timestamps[path[k][2]]]]
  PROVE  PathOfTimes(p)
<1> DEFINE n == Len(path)
           R == LastRow(s)
           D == Count(s.dut.timestamps) - 1
<1>1. path[n][1] = R /\ Threads(s, path)
  <2>1. PICK m \in 1..Longest(s) : w \in Ways(s)[m] /\ Last(w.cells)[1] = LastRow(s)
    BY DEF WaysThrough
  <2>2. Threads(s, w.cells)
    BY <2>1, WaysThread
  <2> QED BY <2>1, <2>2 DEF Last
<1>2. /\ path \in Seq(Nat \X Nat) /\ n \in Nat /\ n >= 1 /\ path[1][1] = 0
      /\ \A k \in 1..n : InTheBand(s, path[k])
      /\ \A k \in 2..n : path[k] \in WaysOn(s, path[k - 1])
  BY <1>1 DEF Threads
<1>3. /\ R \in Nat /\ R >= 1 /\ D \in Nat
      /\ s.ref.timestamps \in [0..R -> Int] /\ s.dut.timestamps \in [0..D -> Int]
      /\ \A i, j \in 0..R : i <= j => s.ref.timestamps[i] <= s.ref.timestamps[j]
      /\ \A i, j \in 0..R : i < j => s.ref.timestamps[i] < s.ref.timestamps[j]
      /\ \A i, j \in 0..D : i <= j => s.dut.timestamps[i] <= s.dut.timestamps[j]
  <2> DEFINE m == Count(s.ref.timestamps)
             l == Count(s.dut.timestamps)
  <2>1. /\ Valid(s.ref) /\ Valid(s.dut)
    BY DEF Sampling
  <2>2. /\ m \in Nat /\ s.ref.timestamps \in [0..(m - 1) -> Int]
        /\ \A i, j \in 0..(m - 1) : i <= j => s.ref.timestamps[i] <= s.ref.timestamps[j]
        /\ \A i, j \in 0..(m - 1) : i < j => s.ref.timestamps[i] < s.ref.timestamps[j]
    BY <2>1, ValidParts
  <2>3. /\ l \in Nat /\ l >= 2 /\ s.dut.timestamps \in [0..(l - 1) -> Int]
        /\ \A i, j \in 0..(l - 1) : i <= j => s.dut.timestamps[i] <= s.dut.timestamps[j]
    BY <2>1, ValidParts
  <2>4. m - 1 = R /\ l - 1 = D /\ R \in Nat /\ R >= 1
    BY LastRows DEF LastRow
  <2> HIDE DEF R, D, m, l
  <2> QED BY <2>2, <2>3, <2>4
<1> HIDE DEF R, D
<1>4. \A k \in 1..n : path[k][1] \in 0..R /\ path[k][2] \in 0..D /\ path[k] \in Nat \X Nat
  <2> TAKE k \in 1..n
  <2>1. InTheBand(s, path[k])
    BY <1>2
  <2>2. path[k][1] \in 0..R /\ path[k][2] \in BandRange(s, path[k][1]) /\ path[k] \in Nat \X Nat
    BY <2>1 DEF InTheBand, R
  <2>3. path[k][2] \in 0..D
    BY <2>2, BandShape DEF R, D
  <2> QED BY <2>2, <2>3
<1>5. \A k \in 2..n : path[k - 1][1] <= path[k][1] /\ path[k - 1][2] <= path[k][2]
  <2> TAKE k \in 2..n
  <2> DEFINE a == path[k - 1]
             b == path[k]
  <2>1. k - 1 \in 1..n /\ k \in 1..n
    BY <1>2
  <2>2. a \in Nat \X Nat /\ b \in {<<a[1] + 1, a[2] + 1>>, <<a[1] + 1, a[2]>>, <<a[1], a[2] + 1>>}
    BY <1>2, <1>4, <2>1 DEF WaysOn
  <2> HIDE DEF a, b
  <2>3. a[1] <= b[1] /\ a[2] <= b[2]
    BY <2>2
  <2> QED BY <2>3 DEF a, b
<1>6. n >= 2
  <2>1. path[n][1] = R /\ path[1][1] = 0
    BY <1>1, <1>2
  <2> DEFINE a == path[n]
             b == path[1]
  <2>2. a[1] = R /\ b[1] = 0
    BY <2>1
  <2> HIDE DEF a, b
  <2>3. a # b
    BY <1>3, <2>2
  <2>4. n # 1
    BY <2>3 DEF a, b
  <2>5. n \in Nat /\ n >= 1
    BY <1>2
  <2> HIDE DEF n
  <2> QED BY <2>4, <2>5
<1>7. DOMAIN path = 1..n
  BY <1>2
<1>8. ASSUME NEW k \in 1..n
      PROVE  /\ p[k].referenceTime = s.ref.timestamps[path[k][1]] /\ p[k].dutTime = s.dut.timestamps[path[k][2]]
             /\ p[k] \in [index : Nat \X Nat, referenceTime : Int, dutTime : Int]
  BY <1>3, <1>4, <1>7
<1>9. p \in Seq([index : Nat \X Nat, referenceTime : Int, dutTime : Int]) /\ Len(p) = n
  <2>1. p = [k \in 1..n |-> p[k]]
    BY <1>7
  <2> DEFINE X == [index : Nat \X Nat, referenceTime : Int, dutTime : Int]
  <2>2. \A k \in 1..n : p[k] \in X
    BY <1>8
  <2> HIDE DEF X, n
  <2>3. n \in Nat
    BY <1>2 DEF n
  <2>4. p \in [1..n -> X]
    BY <2>1, <2>2
  <2>5. p \in Seq(X) /\ Len(p) = n
    BY Zenon, <2>3, <2>4, ListedIs
  <2> QED BY <2>5 DEF X
<1>10. ASSUME NEW k \in 2..n PROVE p[k - 1].referenceTime <= p[k].referenceTime /\ p[k - 1].dutTime <= p[k].dutTime
  <2>1. k - 1 \in 1..n /\ k \in 1..n
    BY <1>2
  <2> DEFINE a == path[k - 1]
             b == path[k]
  <2>2. a[1] \in 0..R /\ a[2] \in 0..D /\ b[1] \in 0..R /\ b[2] \in 0..D /\ a[1] <= b[1] /\ a[2] <= b[2]
    BY <1>4, <1>5, <2>1
  <2>3. /\ p[k - 1].referenceTime = s.ref.timestamps[a[1]] /\ p[k - 1].dutTime = s.dut.timestamps[a[2]]
        /\ p[k].referenceTime = s.ref.timestamps[b[1]] /\ p[k].dutTime = s.dut.timestamps[b[2]]
    BY <1>8, <2>1
  <2> HIDE DEF a, b
  <2> QED BY <1>3, <2>2, <2>3
<1>11. p[1].referenceTime < p[n].referenceTime
  <2>1. 1 \in 1..n /\ n \in 1..n /\ path[1][1] = 0 /\ path[n][1] = R
    BY <1>1, <1>2 DEF R
  <2>2. 0 \in 0..R /\ R \in 0..R /\ 0 < R
    BY <1>3
  <2>3. s.ref.timestamps[0] < s.ref.timestamps[R]
    BY <1>3, <2>2
  <2>4. p[1].referenceTime = s.ref.timestamps[0]
    BY <1>8, <2>1
  <2>5. p[n].referenceTime = s.ref.timestamps[R]
    BY <1>8, <2>1
  <2> QED BY <2>3, <2>4, <2>5
<1> QED BY <1>6, <1>9, <1>10, <1>11 DEF PathOfTimes

-----------------------------------------------------------------------------
(* The mapping of a path.                                                  *)

(* The rank of an element of a finite set of numbers rises with it, and    *)
(* every rank has its element.                                             *)
LEMMA Ranks ==
  ASSUME NEW S \in SUBSET Int, IsFiniteSet(S)
  PROVE  /\ Cardinality(S) \in Nat
         /\ \A x \in S : Cardinality(UpTo(S, x)) \in Nat /\ IsFiniteSet(UpTo(S, x))
         /\ \A x, y \in S : x <= y => Cardinality(UpTo(S, x)) <= Cardinality(UpTo(S, y))
<1>1. \A x \in S : UpTo(S, x) \in SUBSET S
  BY DEF UpTo
<1>2. \A x \in S : IsFiniteSet(UpTo(S, x))
  BY <1>1, FS_Subset
<1>3. \A x, y \in S : x <= y => UpTo(S, x) \in SUBSET UpTo(S, y)
  <2>1. \A x, y, z \in S : x <= y /\ z <= x => z <= y
    OBVIOUS
  <2> QED BY <2>1 DEF UpTo
<1>4. \A x \in S : Cardinality(UpTo(S, x)) \in Nat
  BY <1>2, FS_CardinalityType
<1>5. Cardinality(S) \in Nat
  BY FS_CardinalityType
<1> QED BY <1>2, <1>3, <1>4, <1>5, FS_Subset

(* A finite set of numbers has an element of every rank.                   *)
LEMMA EveryRank ==
  ASSUME NEW S \in SUBSET Int, IsFiniteSet(S)
  PROVE  \A k \in 1..Cardinality(S) : \E x \in S : Cardinality(UpTo(S, x)) = k
<1> DEFINE n == Cardinality(S)
           T == {k \in 1..n : \E x \in S : Cardinality(UpTo(S, x)) = k}
<1>1. n \in Nat
  BY Ranks
<1>2. 1 <= n => 1 \in T
  <2> SUFFICES ASSUME 1 <= n PROVE 1 \in T
    OBVIOUS
  <2>1. S # {}
    BY FS_EmptySet
  <2>2. Min(S) \in S /\ \A y \in S : Min(S) <= y
    BY <2>1, MinIs
  <2> DEFINE m == Min(S)
  <2> HIDE DEF m
  <2>3. m \in S /\ \A y \in S : m <= y
    BY <2>2 DEF m
  <2>4. UpTo(S, m) = {m}
    <3>1. ASSUME NEW y \in S, y <= m PROVE y = m
      <4>1. m <= y /\ y \in Int /\ m \in Int
        BY <2>3
      <4> QED BY <3>1, <4>1
    <3>2. m \in UpTo(S, m)
      BY <2>3 DEF UpTo
    <3> QED BY <3>1, <3>2 DEF UpTo
  <2>5. Cardinality(UpTo(S, m)) = 1
    BY <2>4, FS_Singleton
  <2> QED BY <1>1, <2>3, <2>5
<1>3. ASSUME NEW k \in (1 + 1)..n, k - 1 \in T PROVE k \in T
  <2>1. PICK x \in S : Cardinality(UpTo(S, x)) = k - 1
    BY <1>3
  <2> DEFINE above == {y \in S : x < y}
  <2>2. above # {}
    <3> SUFFICES ASSUME above = {} PROVE FALSE
      OBVIOUS
    <3>1. UpTo(S, x) = S
      <4>1. ASSUME NEW y \in S PROVE y <= x
        <5>1. y \in Int /\ x \in Int /\ ~(x < y)
          OBVIOUS
        <5> QED BY <5>1
      <4> QED BY <4>1 DEF UpTo
    <3> QED BY <1>1, <2>1, <3>1
  <2>3. above \in SUBSET Int /\ IsFiniteSet(above)
    BY FS_Subset
  <2>4. PICK z \in above : \A y \in above : z <= y
    <3> HIDE DEF above
    <3> QED BY <2>2, <2>3, FiniteMin
  <2>5. UpTo(S, z) = UpTo(S, x) \cup {z} /\ z \notin UpTo(S, x)
    <3>1. x \in Int /\ z \in Int /\ x < z /\ z \in S
      OBVIOUS
    <3>2. ASSUME NEW y \in S PROVE y <= z <=> y <= x \/ y = z
      <4>1. y \in Int
        OBVIOUS
      <4>2. x < y => z <= y
        BY <2>4
      <4> HIDE DEF above
      <4> QED BY <3>1, <4>1, <4>2
    <3>3. \A y : y \in UpTo(S, z) <=> y \in UpTo(S, x) \/ y = z
      BY <3>1, <3>2 DEF UpTo
    <3>4. ~(z <= x)
      BY <3>1
    <3>5. z \notin UpTo(S, x)
      BY <3>4 DEF UpTo
    <3> QED BY <3>3, <3>5
  <2>6. IsFiniteSet(UpTo(S, x))
    BY Ranks
  <2>7. Cardinality(UpTo(S, z)) = k - 1 + 1
    <3> DEFINE X == UpTo(S, x)
    <3>1. IsFiniteSet(X) /\ z \notin X /\ Cardinality(X) = k - 1
      BY <2>1, <2>5, <2>6
    <3>2. UpTo(S, z) = X \cup {z}
      BY <2>5
    <3> HIDE DEF X
    <3>3. Cardinality(X \cup {z}) = Cardinality(X) + 1
      BY <3>1, FS_AddElement
    <3> QED BY <3>1, <3>2, <3>3
  <2> QED BY <1>1, <2>7
<1>4. \A k \in 1..n : k \in T
  <2>1. 1 \in Int /\ n \in Int
    BY <1>1
  <2> HIDE DEF T, n
  <2> QED BY <1>2, <1>3, <2>1, IntervalInduction
<1> QED BY <1>4

(* Sorted has the elements of a finite set in ascending order.             *)
LEMMA SortedIs ==
  ASSUME NEW S \in SUBSET Int, IsFiniteSet(S)
  PROVE  /\ Cardinality(S) \in Nat
         /\ Sorted(S) \in [1..Cardinality(S) -> S]
         /\ \A j, k \in 1..Cardinality(S) : j < k => Sorted(S)[j] < Sorted(S)[k]
<1> DEFINE n == Cardinality(S)
<1>1. \A k \in 1..n : Sorted(S)[k] \in S /\ Cardinality(UpTo(S, Sorted(S)[k])) = k
  <2> TAKE k \in 1..n
  <2>1. \E x \in S : Cardinality(UpTo(S, x)) = k
    BY EveryRank
  <2>2. Sorted(S)[k] = CHOOSE x \in S : Cardinality(UpTo(S, x)) = k
    BY DEF Sorted
  <2> QED BY <2>1, <2>2
<1>2. Sorted(S) = [k \in 1..n |-> Sorted(S)[k]]
  BY DEF Sorted
<1>3. ASSUME NEW j \in 1..n, NEW k \in 1..n, j < k PROVE Sorted(S)[j] < Sorted(S)[k]
  <2> DEFINE x == Sorted(S)[j]
             y == Sorted(S)[k]
  <2>1. x \in S /\ y \in S /\ Cardinality(UpTo(S, x)) = j /\ Cardinality(UpTo(S, y)) = k
    BY <1>1
  <2> HIDE DEF x, y
  <2>2. y <= x => k <= j
    BY <2>1, Ranks
  <2>3. x \in Int /\ y \in Int /\ j \in Int /\ k \in Int
    BY <2>1
  <2>4. x < y
    BY <1>3, <2>2, <2>3
  <2> QED BY <2>4 DEF x, y
<1> QED BY <1>1, <1>2, <1>3, Ranks

Steps(a, b, V, next) == next \in [(a + 1)..b -> [V -> V]]
Looped(L, a, b, V, initial, next) ==
    /\ L \in [a..b -> V] /\ L[a] = initial
    /\ \A k \in (a + 1)..b : L[k] = next[k][L[k - 1]]

(* LoopComputes, with its conclusions under one name.                      *)
LEMMA LoopIs ==
  ASSUME NEW a, NEW b, a \in Int, b \in Int, a <= b, NEW V, NEW initial, initial \in V,
         NEW next, Steps(a, b, V, next)
  PROVE  Looped(Loop(a, b, initial, next), a, b, V, initial, next)
<1> DEFINE c == a + 1
<1>1. next \in [c..b -> [V -> V]]
  BY DEF Steps
<1>2. c = a + 1
  OBVIOUS
<1> HIDE DEF c
<1>3. Loop(a, b, initial, next) \in [a..b -> V]
  BY <1>1, <1>2, LoopComputes
<1>4. Loop(a, b, initial, next)[a] = initial
  BY <1>1, <1>2, LoopComputes
<1>5. \A k \in c..b : Loop(a, b, initial, next)[k] = next[k][Loop(a, b, initial, next)[k - 1]]
  BY <1>1, <1>2, LoopComputes
<1> QED BY <1>2, <1>3, <1>4, <1>5 DEF Looped

(* The mean of rising values of an interval is one of those between.       *)
LEMMA MeanIsBetween ==
  ASSUME NEW a \in Int, NEW b \in Int, a <= b, NEW f \in [a..b -> Int],
         \A i, j \in a..b : i <= j => f[i] <= f[j]
  PROVE  Mean(f) \in Int /\ f[a] <= Mean(f) /\ Mean(f) <= f[b]
<1> DEFINE next == [k \in (a + 1)..b |-> [total \in Int |-> total + f[k]]]
           L == Loop(a, b, f[a], next)
           u == f[a]
           v == f[b]
<1>1. /\ u \in Int /\ v \in Int /\ a \in a..b /\ b \in a..b
      /\ \A k \in a..b : f[k] \in Int /\ u <= f[k] /\ f[k] <= v
  OBVIOUS
<1>2. next \in [(a + 1)..b -> [Int -> Int]]
  OBVIOUS
<1>3. /\ L \in [a..b -> Int] /\ L[a] = u
      /\ \A k \in (a + 1)..b : L[k] = next[k][L[k - 1]]
  <2> HIDE DEF next, u
  <2>1. L = Loop(a, b, u, next)
    BY DEF u
  <2>2. Steps(a, b, Int, next)
    BY <1>2 DEF Steps
  <2>3. u \in Int /\ a \in Int /\ b \in Int /\ a <= b
    BY <1>1
  <2>4. Looped(Loop(a, b, u, next), a, b, Int, u, next)
    BY <2>2, <2>3, LoopIs
  <2>5. Looped(L, a, b, Int, u, next)
    BY <2>1, <2>4
  <2> QED BY <2>5 DEF Looped
<1>4. \A k \in (a + 1)..b : L[k] = L[k - 1] + f[k]
  <2> TAKE k \in (a + 1)..b
  <2>1. L[k - 1] \in Int
    <3>1. k - 1 \in a..b
      OBVIOUS
    <3> HIDE DEF L
    <3> QED BY <1>3, <3>1
  <2> HIDE DEF L
  <2>2. next[k][L[k - 1]] = L[k - 1] + f[k]
    BY <2>1
  <2> QED BY <1>3, <2>2
<1>5. Mean(f) = L[b] \div (b - a + 1)
  <2>1. DOMAIN f = a..b
    OBVIOUS
  <2>2. Min(DOMAIN f) = a /\ Max(DOMAIN f) = b
    BY <2>1, MinMaxInterval
  <2> QED BY <2>2 DEF Mean
<1> HIDE DEF L, next, u, v
<1> DEFINE S == {k \in a..b : (k - a + 1) * u <= L[k] /\ L[k] <= (k - a + 1) * v}
<1>6. a \in S
  <2>1. (a - a + 1) * u = u /\ (a - a + 1) * v = v
    BY <1>1
  <2> QED BY <1>1, <1>3, <2>1
<1>7. ASSUME NEW k \in (a + 1)..b, k - 1 \in S PROVE k \in S
  <2> DEFINE m == k - a
             l == L[k - 1]
             x == f[k]
  <2>1. k \in a..b /\ k - 1 \in a..b /\ m \in Int /\ k - 1 - a + 1 = m /\ k - a + 1 = m + 1
    OBVIOUS
  <2>2. m * u <= l /\ l <= m * v
    BY <1>7, <2>1
  <2>3. l \in Int /\ x \in Int /\ u <= x /\ x <= v /\ L[k] = l + x
    BY <1>1, <1>3, <1>4, <2>1
  <2>4. k - a + 1 = m + 1
    BY <2>1
  <2>5. m \in Int
    BY <2>1
  <2> HIDE DEF m, l, x
  <2>6. (m + 1) * u = m * u + u /\ (m + 1) * v = m * v + v /\ m * u \in Int /\ m * v \in Int
    BY <1>1, <2>5
  <2>7. (m + 1) * u <= L[k] /\ L[k] <= (m + 1) * v
    BY <1>1, <2>2, <2>3, <2>6
  <2> QED BY <2>1, <2>4, <2>7
<1>8. b \in S
  <2> HIDE DEF S
  <2> QED BY <1>1, <1>6, <1>7, IntervalInduction
<1> DEFINE w == b - a + 1
           t == L[b]
<1>9. w \in Nat \ {0} /\ t \in Int /\ w * u <= t /\ t <= w * v
  BY <1>1, <1>3, <1>8
<1>10. Mean(f) = t \div w
  BY <1>5
<1> HIDE DEF w, t
<1>11. u * w = w * u /\ v * w = w * v
  BY <1>1, <1>9
<1>12. t \div w \in Int /\ u <= t \div w /\ t \div w <= v
  BY <1>1, <1>9, <1>11, Quotient, QuotientAtLeast, QuotientAtMost
<1> QED BY <1>10, <1>12 DEF u, v

(* An array that never falls from one index to the next never falls.       *)
LEMMA Monotone ==
  ASSUME NEW a \in Int, NEW b \in Int, NEW f \in [a..b -> Int],
         \A i \in (a + 1)..b : f[i - 1] <= f[i]
  PROVE  \A i, j \in a..b : i <= j => f[i] <= f[j]
<1> SUFFICES ASSUME NEW i \in a..b
             PROVE  \A j \in i..b : f[i] <= f[j]
  OBVIOUS
<1> DEFINE S == {j \in i..b : f[i] <= f[j]}
<1>1. i \in S
  OBVIOUS
<1>2. ASSUME NEW j \in (i + 1)..b, j - 1 \in S PROVE j \in S
  <2>1. j \in (a + 1)..b /\ j - 1 \in a..b /\ j \in a..b
    OBVIOUS
  <2>2. f[j - 1] <= f[j] /\ f[j - 1] \in Int /\ f[j] \in Int /\ f[i] \in Int
    BY <2>1
  <2>3. f[i] <= f[j - 1]
    BY <1>2
  <2> QED BY <2>1, <2>2, <2>3
<1>3. i \in Int /\ b \in Int
  OBVIOUS
<1>4. \A j \in i..b : j \in S
  <2> HIDE DEF S
  <2> QED BY <1>1, <1>2, <1>3, IntervalInduction
<1> QED BY <1>4

(* The points of a mapping: numbers, in order.                             *)
Points(q) == q \in Seq([refTime : Int, dutTime : Int]) /\ Ascending(q)

(* The times of a path never fall.                                         *)
LEMMA PathRises ==
  ASSUME NEW p, PathOfTimes(p), NEW n, n = Len(p)
  PROVE  /\ n \in Nat /\ DOMAIN p = 1..n
         /\ \A k \in 1..n : p[k].referenceTime \in Int /\ p[k].dutTime \in Int
         /\ \A i, j \in 1..n : i <= j => p[i].referenceTime <= p[j].referenceTime
         /\ \A i, j \in 1..n : i <= j => p[i].dutTime <= p[j].dutTime
<1>1. /\ p \in Seq([index : Nat \X Nat, referenceTime : Int, dutTime : Int])
      /\ \A k \in 2..n : p[k - 1].referenceTime <= p[k].referenceTime /\ p[k - 1].dutTime <= p[k].dutTime
  BY DEF PathOfTimes
<1>2. n \in Nat /\ DOMAIN p = 1..n
  BY <1>1
<1>3. \A k \in 1..n : p[k].referenceTime \in Int /\ p[k].dutTime \in Int
  <2> TAKE k \in 1..n
  <2> DEFINE X == [index : Nat \X Nat, referenceTime : Int, dutTime : Int]
             x == p[k]
  <2>0. p \in Seq(X)
    BY <1>1
  <2>1. x \in X
    <3> HIDE DEF X
    <3> QED BY <1>2, <2>0
  <2> HIDE DEF x
  <2>2. x.referenceTime \in Int /\ x.dutTime \in Int
    BY <2>1
  <2> QED BY <2>2 DEF x
<1> DEFINE f == [k \in 1..n |-> p[k].referenceTime]
           g == [k \in 1..n |-> p[k].dutTime]
<1>4. f \in [1..n -> Int] /\ g \in [1..n -> Int]
  BY <1>3
<1>5. \A k \in 1..n : f[k] = p[k].referenceTime /\ g[k] = p[k].dutTime
  OBVIOUS
<1> HIDE DEF f, g
<1>6. \A k \in (1 + 1)..n : f[k - 1] <= f[k] /\ g[k - 1] <= g[k]
  <2> TAKE k \in (1 + 1)..n
  <2>1. k \in 2..n /\ k \in 1..n /\ k - 1 \in 1..n
    BY <1>2
  <2> QED BY <1>1, <1>5, <2>1
<1>7. 1 \in Int /\ n \in Int
  BY <1>2
<1>8. \A i, j \in 1..n : i <= j => f[i] <= f[j]
  BY <1>4, <1>6, <1>7, Monotone
<1>9. \A i, j \in 1..n : i <= j => g[i] <= g[j]
  BY <1>4, <1>6, <1>7, Monotone
<1> QED BY <1>2, <1>3, <1>5, <1>8, <1>9

(* The REF times of points rise, and their DUT times never fall.           *)
LEMMA PointsRise ==
  ASSUME NEW q, Points(q), NEW n, n = Len(q)
  PROVE  /\ n \in Nat /\ DOMAIN q = 1..n
         /\ \A k \in 1..n : q[k].refTime \in Int /\ q[k].dutTime \in Int /\ q[k] \in [refTime : Int, dutTime : Int]
         /\ \A i, j \in 1..n : i < j => q[i].refTime < q[j].refTime
         /\ \A i, j \in 1..n : i <= j => q[i].dutTime <= q[j].dutTime
<1>1. /\ q \in Seq([refTime : Int, dutTime : Int])
      /\ \A k \in 2..n : q[k - 1].refTime < q[k].refTime /\ q[k - 1].dutTime <= q[k].dutTime
  BY DEF Points, Ascending
<1>2. n \in Nat /\ DOMAIN q = 1..n
  BY <1>1
<1>3. \A k \in 1..n : q[k].refTime \in Int /\ q[k].dutTime \in Int /\ q[k] \in [refTime : Int, dutTime : Int]
  <2> TAKE k \in 1..n
  <2> DEFINE X == [refTime : Int, dutTime : Int]
             x == q[k]
  <2>0. q \in Seq(X)
    BY <1>1
  <2>1. x \in X
    <3> HIDE DEF X
    <3> QED BY <1>2, <2>0
  <2> HIDE DEF x
  <2>2. x.refTime \in Int /\ x.dutTime \in Int
    BY <2>1
  <2> QED BY <2>1, <2>2 DEF x
<1> DEFINE f == [k \in 1..n |-> q[k].refTime]
           g == [k \in 1..n |-> q[k].dutTime]
<1>4. f \in [1..n -> Int] /\ g \in [1..n -> Int]
  BY <1>3
<1>5. \A k \in 1..n : f[k] = q[k].refTime /\ g[k] = q[k].dutTime
  OBVIOUS
<1> HIDE DEF f, g
<1>6. \A k \in (1 + 1)..n : f[k - 1] < f[k] /\ g[k - 1] <= g[k]
  <2> TAKE k \in (1 + 1)..n
  <2>1. k \in 2..n /\ k \in 1..n /\ k - 1 \in 1..n
    BY <1>2
  <2> QED BY <1>1, <1>5, <2>1
<1>7. 1 \in Int /\ n \in Int
  BY <1>2
<1>8. \A i, j \in 1..n : i <= j => f[j] - f[i] >= j - i
  BY <1>4, <1>6, <1>7, AscendingGaps
<1>9. \A i, j \in 1..n : i <= j => g[i] <= g[j]
  BY <1>4, <1>6, <1>7, Monotone
<1>10. ASSUME NEW i \in 1..n, NEW j \in 1..n, i < j PROVE f[i] < f[j]
  <2>1. f[j] - f[i] >= j - i /\ f[i] \in Int /\ f[j] \in Int /\ i \in Int /\ j \in Int
    BY <1>4, <1>8, <1>10
  <2> QED BY <1>10, <2>1
<1> QED BY <1>2, <1>3, <1>5, <1>9, <1>10

At(p, t) == {k \in DOMAIN p : p[k].referenceTime = t}
Middle(p, t) == Mean([k \in At(p, t) |-> p[k].dutTime])

(* A mean of DUT times lies between two of them.                           *)
LEMMA MiddleIs ==
  ASSUME NEW p, PathOfTimes(p), NEW t, t \in {p[k].referenceTime : k \in DOMAIN p}
  PROVE  /\ Middle(p, t) \in Int
         /\ \E i, j \in At(p, t) : p[i].dutTime <= Middle(p, t) /\ Middle(p, t) <= p[j].dutTime
<1> DEFINE n == Len(p)
           S == At(p, t)
           a == Min(S)
           b == Max(S)
<1>1. /\ n \in Nat /\ DOMAIN p = 1..n
      /\ \A k \in 1..n : p[k].referenceTime \in Int /\ p[k].dutTime \in Int
      /\ \A i, j \in 1..n : i <= j => p[i].referenceTime <= p[j].referenceTime
      /\ \A i, j \in 1..n : i <= j => p[i].dutTime <= p[j].dutTime
  BY PathRises
<1> HIDE DEF n
<1>2. S \in SUBSET (1..n) /\ S # {} /\ S \in SUBSET Int
  BY <1>1 DEF At
<1>3. IsFiniteSet(S)
  <2>1. IsFiniteSet(1..n)
    BY <1>1, FS_Interval
  <2> QED BY <1>2, <2>1, FS_Subset
<1>4. \A k \in 1..n : k \in S <=> p[k].referenceTime = t
  BY <1>1 DEF At
<1> HIDE DEF S
<1>5. a \in S /\ b \in S /\ \A k \in S : a <= k /\ k <= b
  BY <1>2, <1>3, MinIs, MaxIs
<1> HIDE DEF a, b
<1>6. a \in 1..n /\ b \in 1..n /\ a <= b
  BY <1>2, <1>5
<1>7. S = a..b
  <2>1. ASSUME NEW k \in a..b PROVE k \in S
    <3>1. k \in 1..n /\ a <= k /\ k <= b
      BY <1>1, <1>6
    <3>2. p[a].referenceTime = t /\ p[b].referenceTime = t
      BY <1>4, <1>5, <1>6
    <3>3. t <= p[k].referenceTime /\ p[k].referenceTime <= t /\ p[k].referenceTime \in Int /\ t \in Int
      BY <1>1, <1>6, <3>1, <3>2
    <3> QED BY <1>4, <3>1, <3>3
  <2>2. ASSUME NEW k \in S PROVE k \in a..b
    BY <1>2, <1>5, <1>6
  <2> QED BY <2>1, <2>2
<1> DEFINE f == [k \in S |-> p[k].dutTime]
<1>8. f \in [a..b -> Int]
  BY <1>1, <1>2, <1>7
<1>9. \A i \in a..b : f[i] = p[i].dutTime /\ i \in 1..n
  BY <1>2, <1>7
<1>10. Middle(p, t) = Mean(f)
  BY DEF Middle, S
<1> HIDE DEF f
<1>11. \A i, j \in a..b : i <= j => f[i] <= f[j]
  BY <1>1, <1>9
<1>12. a \in Int /\ b \in Int /\ a <= b
  BY <1>6
<1>13. Mean(f) \in Int /\ f[a] <= Mean(f) /\ Mean(f) <= f[b]
  BY <1>8, <1>11, <1>12, MeanIsBetween
<1>14. a \in a..b /\ b \in a..b
  BY <1>6
<1>15. f[a] = p[a].dutTime /\ f[b] = p[b].dutTime
  BY <1>9, <1>14
<1> QED BY <1>5, <1>10, <1>13, <1>15 DEF S

(* The points of a path are in order, and at least two.                    *)
LEMMA CollapsedIs ==
  ASSUME NEW p, PathOfTimes(p)
  PROVE  Points(Collapsed(p)) /\ Len(Collapsed(p)) >= 2
<1> DEFINE n == Len(p)
           T == {p[k].referenceTime : k \in DOMAIN p}
           times == Sorted(T)
           c == Cardinality(T)
           q == Collapsed(p)
<1>1. /\ n \in Nat /\ DOMAIN p = 1..n
      /\ \A k \in 1..n : p[k].referenceTime \in Int /\ p[k].dutTime \in Int
      /\ \A i, j \in 1..n : i <= j => p[i].referenceTime <= p[j].referenceTime
      /\ \A i, j \in 1..n : i <= j => p[i].dutTime <= p[j].dutTime
  BY PathRises
<1>2. n >= 2 /\ p[1].referenceTime < p[n].referenceTime
  BY DEF PathOfTimes
<1> HIDE DEF n
<1>3. T \in SUBSET Int /\ IsFiniteSet(T)
  <2> DEFINE f == [k \in 1..n |-> p[k].referenceTime]
  <2>1. f \in [1..n -> Int] /\ IsFiniteSet(1..n)
    BY <1>1, FS_Interval
  <2>2. T = {f[k] : k \in 1..n}
    BY <1>1
  <2> HIDE DEF f
  <2>3. {f[k] : k \in 1..n} \in SUBSET Int /\ IsFiniteSet({f[k] : k \in 1..n})
    BY <2>1, FiniteImage
  <2> QED BY <2>2, <2>3
<1>4. p[1].referenceTime \in T /\ p[n].referenceTime \in T
  BY <1>1, <1>2
<1>5. \A t \in T : /\ Middle(p, t) \in Int
                   /\ \E i, j \in At(p, t) : p[i].dutTime <= Middle(p, t) /\ Middle(p, t) <= p[j].dutTime
  BY MiddleIs
<1>6. q = [m \in DOMAIN times |-> [refTime |-> times[m], dutTime |-> Middle(p, times[m])]]
  BY DEF Collapsed, Middle, At
<1> HIDE DEF T, q
<1>7. c \in Nat /\ times \in [1..c -> T] /\ \A j, k \in 1..c : j < k => times[j] < times[k]
  BY <1>3, SortedIs
<1>8. c >= 2
  <2>1. c # 0
    BY <1>3, <1>4, FS_EmptySet
  <2>2. c # 1
    <3> SUFFICES ASSUME c = 1 PROVE FALSE
      OBVIOUS
    <3>1. PICK x : T = {x}
      BY <1>3, FS_Singleton
    <3>2. p[1].referenceTime = x /\ p[n].referenceTime = x
      BY <1>4, <3>1
    <3>3. x \in Int
      BY <1>3, <3>1
    <3> QED BY <1>2, <3>2, <3>3
  <2> QED BY <1>7, <2>1, <2>2
<1> HIDE DEF c, times
<1>9. \A m \in 1..c : q[m] = [refTime |-> times[m], dutTime |-> Middle(p, times[m])] /\ times[m] \in T
  BY <1>6, <1>7
<1>10. \A m \in 1..c : q[m] \in [refTime : Int, dutTime : Int]
  <2> TAKE m \in 1..c
  <2>1. times[m] \in Int /\ Middle(p, times[m]) \in Int
    BY <1>3, <1>5, <1>9
  <2>2. q[m] = [refTime |-> times[m], dutTime |-> Middle(p, times[m])]
    BY <1>9
  <2> DEFINE x == times[m]
             y == Middle(p, times[m])
  <2>3. x \in Int /\ y \in Int /\ q[m] = [refTime |-> x, dutTime |-> y]
    BY <2>1, <2>2
  <2> HIDE DEF x, y
  <2> QED BY <2>3
<1>11. q \in Seq([refTime : Int, dutTime : Int]) /\ Len(q) = c
  <2> DEFINE X == [refTime : Int, dutTime : Int]
  <2>1. DOMAIN q = 1..c /\ q = [m \in 1..c |-> q[m]]
    BY <1>6, <1>7
  <2>2. \A m \in 1..c : q[m] \in X
    BY <1>10
  <2> HIDE DEF X
  <2>3. q \in [1..c -> X] /\ c \in Nat
    BY <1>7, <2>1, <2>2
  <2>4. q \in Seq(X)
    BY <2>3
  <2>5. Len(q) = c
    BY <2>3, <2>4
  <2> QED BY <2>4, <2>5 DEF X
<1>12. ASSUME NEW m \in 2..c PROVE q[m - 1].refTime < q[m].refTime /\ q[m - 1].dutTime <= q[m].dutTime
  <2>1. m \in 1..c /\ m - 1 \in 1..c /\ m - 1 < m
    BY <1>7
  <2> DEFINE t == times[m - 1]
             u == times[m]
  <2>2. t \in T /\ u \in T /\ t < u
    BY <1>7, <2>1
  <2>3. q[m - 1].refTime = t /\ q[m - 1].dutTime = Middle(p, t) /\ q[m].refTime = u /\ q[m].dutTime = Middle(p, u)
    <3>1. q[m - 1] = [refTime |-> t, dutTime |-> Middle(p, t)]
      BY <1>9, <2>1
    <3>2. q[m] = [refTime |-> u, dutTime |-> Middle(p, u)]
      BY <1>9, <2>1
    <3> QED BY <3>1, <3>2
  <2> HIDE DEF t, u
  <2>4. PICK i \in At(p, t) : Middle(p, t) <= p[i].dutTime
    BY <1>5, <2>2
  <2>5. PICK j \in At(p, u) : p[j].dutTime <= Middle(p, u)
    BY <1>5, <2>2
  <2>6. i \in 1..n /\ j \in 1..n /\ p[i].referenceTime = t /\ p[j].referenceTime = u
    BY <1>1 DEF At
  <2>7. i <= j
    <3>1. j <= i => u <= t
      BY <1>1, <2>6
    <3>2. t \in Int /\ u \in Int
      BY <1>3, <2>2
    <3> QED BY <2>2, <2>6, <3>1, <3>2
  <2>8. p[i].dutTime <= p[j].dutTime /\ p[i].dutTime \in Int /\ p[j].dutTime \in Int
    BY <1>1, <2>6, <2>7
  <2>9. Middle(p, t) \in Int /\ Middle(p, u) \in Int
    BY <1>5, <2>2
  <2>10. Middle(p, t) <= Middle(p, u)
    BY <2>4, <2>5, <2>8, <2>9
  <2> QED BY <2>2, <2>3, <2>10
<1>13. Points(q)
  BY <1>11, <1>12 DEF Points, Ascending
<1> QED BY <1>8, <1>11, <1>13 DEF q

(* Some of the points, in their order, are points in order.                *)
LEMMA ChosenPoints ==
  ASSUME NEW q, Points(q), NEW m \in Nat, NEW f \in [1..m -> 1..Len(q)],
         \A j, k \in 1..m : j < k => f[j] < f[k]
  PROVE  Points([k \in 1..m |-> q[f[k]]]) /\ Len([k \in 1..m |-> q[f[k]]]) = m
<1> DEFINE n == Len(q)
           r == [k \in 1..m |-> q[f[k]]]
           X == [refTime : Int, dutTime : Int]
<1>1. /\ n \in Nat /\ DOMAIN q = 1..n
      /\ \A k \in 1..n : q[k].refTime \in Int /\ q[k].dutTime \in Int /\ q[k] \in X
      /\ \A i, j \in 1..n : i < j => q[i].refTime < q[j].refTime
      /\ \A i, j \in 1..n : i <= j => q[i].dutTime <= q[j].dutTime
  BY PointsRise
<1>2. \A k \in 1..m : f[k] \in 1..n
  OBVIOUS
<1> HIDE DEF X, n
<1>3. \A k \in 1..m : r[k] = q[f[k]] /\ r[k] \in X
  BY <1>1, <1>2
<1>4. r \in [1..m -> X]
  BY <1>3
<1> HIDE DEF r
<1>5. r \in Seq(X)
  BY <1>4
<1>6. Len(r) = m
  BY <1>4, <1>5
<1>7. ASSUME NEW k \in 2..m PROVE r[k - 1].refTime < r[k].refTime /\ r[k - 1].dutTime <= r[k].dutTime
  <2> DEFINE a == f[k - 1]
             b == f[k]
  <2>1. k \in 1..m /\ k - 1 \in 1..m /\ k - 1 < k
    OBVIOUS
  <2>2. a \in 1..n /\ b \in 1..n /\ a < b
    BY <1>2, <2>1
  <2>3. r[k - 1] = q[a] /\ r[k] = q[b]
    BY <1>3, <2>1
  <2> HIDE DEF a, b
  <2>4. a <= b
    BY <1>1, <2>2
  <2> QED BY <1>1, <2>2, <2>3, <2>4
<1>8. Points(r)
  BY <1>5, <1>6, <1>7 DEF Points, Ascending, X
<1> QED BY <1>6, <1>8 DEF r

(* The point that is farthest off is one of those between.                 *)
LEMMA WorstIs ==
  ASSUME NEW B \in SUBSET Int, IsFiniteSet(B), B # {}, NEW off \in [B -> Int]
  PROVE  Min({k \in B : off[k] = Max({off[j] : j \in B})}) \in B
<1> DEFINE T == {off[j] : j \in B}
           worst == Max(T)
           S == {k \in B : off[k] = worst}
<1>1. T \in SUBSET Int /\ IsFiniteSet(T)
  BY FiniteImage
<1>2. T # {}
  OBVIOUS
<1>3. worst \in T
  <2> HIDE DEF T
  <2> QED BY <1>1, <1>2, MaxIs
<1>4. S # {} /\ S \in SUBSET B
  <2>1. PICK k \in B : worst = off[k]
    BY <1>3
  <2> HIDE DEF worst
  <2> QED BY <2>1
<1>5. S \in SUBSET Int /\ IsFiniteSet(S)
  BY <1>4, FS_Subset
<1>6. Min(S) \in S
  <2> HIDE DEF S
  <2> QED BY <1>4, <1>5, MinIs
<1> QED BY <1>4, <1>6

-----------------------------------------------------------------------------
(* Interpolation along a curve never falls.                                *)

(* A line goes through its two points.                                     *)
LEMMA LineEnds ==
  \A x1, x2, y1, y2 \in Int : x1 < x2 =>
      Line(x1, y1, x2, y2, x1) = y1 /\ Line(x1, y1, x2, y2, x2) = y2
<1> TAKE x1, x2, y1, y2 \in Int
<1> HAVE x1 < x2
<1> DEFINE d == x2 - x1  h == y2 - y1
<1>1. d \in Nat \ {0} /\ h \in Int /\ h * d \in Int /\ h * 0 = 0
  OBVIOUS
<1>2. (h * d) \div d = h
  <2>1. h <= (h * d) \div d
    BY <1>1, QuotientAtLeast
  <2>2. (h * d) \div d <= h
    BY <1>1, QuotientAtMost
  <2>3. (h * d) \div d \in Int
    BY <1>1, Quotient
  <2> HIDE DEF d, h
  <2> QED
    BY <2>1, <2>2, <2>3, <1>1
<1>3. 0 \div d = 0
  <2>1. 0 <= 0 \div d
    BY <1>1, QuotientAtLeast
  <2>2. 0 \div d <= 0
    BY <1>1, QuotientAtMost
  <2>3. 0 \div d \in Int
    BY <1>1, Quotient
  <2> HIDE DEF d
  <2> QED
    BY <2>1, <2>2, <2>3
<1>4. Line(x1, y1, x2, y2, x1) = y1 + (h * (x1 - x1)) \div d
  BY DEF Line
<1>5. Line(x1, y1, x2, y2, x2) = y1 + (h * d) \div d
  BY DEF Line
<1>6. x1 - x1 = 0 /\ y1 + h = y2 /\ y1 + 0 = y1
  OBVIOUS
<1> HIDE DEF d, h
<1> QED
  BY <1>1, <1>2, <1>3, <1>4, <1>5, <1>6

(* A line that does not fall maps times in order, between its points and   *)
(* beyond.                                                                 *)
LEMMA LineRises ==
  ASSUME NEW x1 \in Int, NEW x2 \in Int, x1 < x2, NEW y1 \in Int, NEW y2 \in Int, y1 <= y2,
         NEW x \in Int, NEW z \in Int, x <= z
  PROVE  /\ Line(x1, y1, x2, y2, x) \in Int /\ Line(x1, y1, x2, y2, z) \in Int
         /\ Line(x1, y1, x2, y2, x) <= Line(x1, y1, x2, y2, z)
<1> DEFINE d == x2 - x1  h == y2 - y1
<1>1. d \in Nat \ {0} /\ h \in Nat /\ x - x1 \in Int /\ z - x1 \in Int /\ x - x1 <= z - x1
  OBVIOUS
<1>2. h * (x - x1) \in Int /\ h * (z - x1) \in Int /\ h * (x - x1) <= h * (z - x1)
  <2>1. (x - x1) * h <= (z - x1) * h
    BY <1>1, Products
  <2> HIDE DEF h
  <2> QED
    BY <2>1, <1>1
<1>3. (h * (x - x1)) \div d <= (h * (z - x1)) \div d
  <2> HIDE DEF d, h
  <2> QED
    BY <1>1, <1>2, QuotientMonotone
<1>4. (h * (x - x1)) \div d \in Int /\ (h * (z - x1)) \div d \in Int
  <2> HIDE DEF d, h
  <2> QED
    BY <1>1, <1>2, Quotient
<1>5. /\ Line(x1, y1, x2, y2, x) = y1 + (h * (x - x1)) \div d
      /\ Line(x1, y1, x2, y2, z) = y1 + (h * (z - x1)) \div d
  BY DEF Line
<1> HIDE DEF d, h
<1> QED
  BY <1>3, <1>4, <1>5

(* The points of a mapping in one direction: what goes in rises, what      *)
(* comes out never falls.                                                  *)
Curve(q) ==
    /\ q \in Seq([input : Int, output : Int]) /\ Len(q) >= 2
    /\ \A k \in 2..Len(q) : q[k - 1].input < q[k].input /\ q[k - 1].output <= q[k].output

(* The same of any two of the points.                                      *)
LEMMA CurveRises ==
  ASSUME NEW q, Curve(q), NEW n, n = Len(q)
  PROVE  /\ n \in Nat /\ n >= 2 /\ DOMAIN q = 1..n
         /\ \A k \in 1..n : q[k].input \in Int /\ q[k].output \in Int
         /\ \A i, j \in 1..n : i < j => q[i].input < q[j].input
         /\ \A i, j \in 1..n : i <= j => q[i].input <= q[j].input
         /\ \A i, j \in 1..n : i <= j => q[i].output <= q[j].output
<1> DEFINE P == [input : Int, output : Int]
           f == [k \in 1..n |-> q[k].input]
           g == [k \in 1..n |-> q[k].output]
<1>1. q \in Seq(P) /\ n >= 2 /\ n \in Nat /\ DOMAIN q = 1..n
  BY DEF Curve
<1>2. \A k \in 1..n : q[k] \in P
  <2> HIDE DEF P
  <2> QED
    BY <1>1
<1>3. \A k \in 1..n : q[k].input \in Int /\ q[k].output \in Int
  BY <1>2
<1>4. f \in [1..n -> Int] /\ g \in [1..n -> Int]
  BY <1>3
<1>5. \A k \in (1 + 1)..n : f[k - 1] < f[k] /\ g[k - 1] <= g[k]
  <2> TAKE k \in (1 + 1)..n
  <2>1. k \in 2..Len(q) /\ k \in 1..n /\ k - 1 \in 1..n
    BY <1>1
  <2>2. q[k - 1].input < q[k].input /\ q[k - 1].output <= q[k].output
    BY <2>1 DEF Curve
  <2> QED
    BY <2>1, <2>2
<1>6. \A i, j \in 1..n : i <= j => f[j] - f[i] >= j - i
  <2>1. 1 \in Int /\ n \in Int
    BY <1>1
  <2> HIDE DEF f, g
  <2> QED
    BY <1>4, <1>5, <2>1, AscendingGaps
<1>7. \A i, j \in 1..n : i <= j => g[i] <= g[j]
  <2>1. 1 \in Int /\ n \in Int
    BY <1>1
  <2> HIDE DEF f, g
  <2> QED
    BY <1>4, <1>5, <2>1, Monotone
<1>8. ASSUME NEW i \in 1..n, NEW j \in 1..n
      PROVE  /\ i < j => q[i].input < q[j].input
             /\ i <= j => q[i].input <= q[j].input
             /\ i <= j => q[i].output <= q[j].output
  <2>1. i \in Int /\ j \in Int /\ f[i] = q[i].input /\ f[j] = q[j].input /\ g[i] = q[i].output /\ g[j] = q[j].output
    BY <1>1
  <2>2. f[i] \in Int /\ f[j] \in Int
    BY <1>3, <2>1
  <2>3. (i <= j => f[j] - f[i] >= j - i) /\ (i <= j => g[i] <= g[j])
    BY <1>6, <1>7
  <2> HIDE DEF f, g
  <2> QED
    BY <2>1, <2>2, <2>3
<1> QED
  BY <1>1, <1>3, <1>8

(* The line of the segment that ends at a point.                           *)
LineAt(q, k, v) == Line(q[k - 1].input, q[k - 1].output, q[k].input, q[k].output, v)

(* The lines of a curve go through its points, and rise.                   *)
LEMMA LinesOf ==
  ASSUME NEW q, Curve(q), NEW k \in 2..Len(q)
  PROVE  /\ k \in 1..Len(q) /\ k - 1 \in 1..Len(q)
         /\ LineAt(q, k, q[k - 1].input) = q[k - 1].output
         /\ LineAt(q, k, q[k].input) = q[k].output
         /\ \A v \in Int : LineAt(q, k, v) \in Int
         /\ \A v, w \in Int : v <= w => LineAt(q, k, v) <= LineAt(q, k, w)
<1> DEFINE n == Len(q)
<1>1. /\ n \in Nat
      /\ \A i \in 1..n : q[i].input \in Int /\ q[i].output \in Int
      /\ \A i, j \in 1..n : i < j => q[i].input < q[j].input
      /\ \A i, j \in 1..n : i <= j => q[i].output <= q[j].output
  BY CurveRises
<1>2. k \in 1..n /\ k - 1 \in 1..n /\ k - 1 < k /\ k - 1 <= k
  BY <1>1
<1>0. /\ q[k - 1].input \in Int /\ q[k].input \in Int /\ q[k - 1].output \in Int /\ q[k].output \in Int
      /\ q[k - 1].input < q[k].input /\ q[k - 1].output <= q[k].output
  <2> HIDE DEF n
  <2> QED
    BY <1>1, <1>2
<1>a. PICK a1 \in Int : a1 = q[k - 1].input
  BY <1>0
<1>b. PICK a2 \in Int : a2 = q[k].input
  BY <1>0
<1>c. PICK b1 \in Int : b1 = q[k - 1].output
  BY <1>0
<1>d. PICK b2 \in Int : b2 = q[k].output
  BY <1>0
<1>3. a1 < a2 /\ b1 <= b2
  BY <1>0, <1>a, <1>b, <1>c, <1>d
<1>4. \A v : LineAt(q, k, v) = Line(a1, b1, a2, b2, v)
  BY <1>a, <1>b, <1>c, <1>d DEF LineAt
<1>5. Line(a1, b1, a2, b2, a1) = b1 /\ Line(a1, b1, a2, b2, a2) = b2
  BY <1>3, LineEnds
<1>6. \A v, w \in Int : v <= w =>
        /\ Line(a1, b1, a2, b2, v) \in Int
        /\ Line(a1, b1, a2, b2, v) <= Line(a1, b1, a2, b2, w)
  BY <1>3, LineRises
<1>7. \A v \in Int : Line(a1, b1, a2, b2, v) \in Int
  <2> TAKE v \in Int
  <2>1. v <= v
    OBVIOUS
  <2> QED
    BY <1>6, <2>1
<1>8. LineAt(q, k, a1) = b1 /\ LineAt(q, k, a2) = b2
  BY <1>4, <1>5
<1>9. \A v \in Int : LineAt(q, k, v) \in Int
  BY <1>4, <1>7
<1>10. \A v, w \in Int : v <= w => LineAt(q, k, v) <= LineAt(q, k, w)
  BY <1>4, <1>6
<1> QED
  BY <1>2, <1>8, <1>9, <1>10, <1>a, <1>b, <1>c, <1>d

(* SearchFinds, of a search from the second value on.                      *)
LEMMA SearchFromTwo ==
  ASSUME NEW n \in Nat, n >= 2, NEW f \in [1..n -> Int],
         \A i, j \in 1..n : i <= j => f[i] <= f[j],
         NEW v \in Int, NEW s, s = SearchFrom(f, v, 2, n)
  PROVE  /\ s \in 2..n
         /\ \A i \in 2..(s - 1) : f[i] < v
         /\ \A i \in s..(n - 1) : v <= f[i]
<1>1. 1 \in Int /\ n \in Int /\ 2 \in Int /\ 1 <= 2 /\ 2 <= n /\ n <= n + 1
  OBVIOUS
<1> QED
  BY <1>1, SearchFinds

(* A value inside a curve is in the segment that the search finds.         *)
LEMMA SegmentIs ==
  ASSUME NEW q, Curve(q), NEW n, n = Len(q), NEW v \in Int, q[1].input < v, v < q[n].input
  PROVE  /\ Segment(q, v) \in 2..n
         /\ q[Segment(q, v) - 1].input <= v /\ v <= q[Segment(q, v)].input
<1>1. /\ n \in Nat /\ n >= 2
      /\ \A k \in 1..n : q[k].input \in Int
      /\ \A i, j \in 1..n : i <= j => q[i].input <= q[j].input
  BY CurveRises
<1> DEFINE f == [k \in 1..n |-> q[k].input]
<1>2. f \in [1..n -> Int] /\ \A k \in 1..n : f[k] = q[k].input
  BY <1>1
<1>3. \A i, j \in 1..n : i <= j => f[i] <= f[j]
  BY <1>1
<1>4. Segment(q, v) = SearchFrom(f, v, 2, n)
  BY DEF Segment
<1> DEFINE s == SearchFrom(f, v, 2, n)
<1>5. /\ 1 \in Int /\ n \in Int /\ 2 \in Int /\ 1 <= 2 /\ 2 <= n /\ n <= n + 1
      /\ s = SearchFrom(f, v, 2, n)
  BY <1>1
<1> HIDE DEF f, s
<1>6. /\ s \in 2..n
      /\ \A i \in 2..(s - 1) : f[i] < v
      /\ \A i \in s..(n - 1) : v <= f[i]
  BY <1>1, <1>2, <1>3, <1>5, SearchFromTwo
<1>7. f[s - 1] <= v
  <2>1. CASE s = 2
    <3>1. s - 1 = 1 /\ 1 \in 1..n
      BY <2>1, <1>1
    <3>2. f[1] = q[1].input /\ f[1] \in Int
      BY <1>1, <1>2, <3>1
    <3> QED
      BY <3>1, <3>2
  <2>2. CASE s # 2
    <3>1. s - 1 \in 2..(s - 1) /\ s - 1 \in 1..n
      BY <2>2, <1>6, <1>1
    <3>2. f[s - 1] \in Int /\ f[s - 1] < v
      BY <3>1, <1>6, <1>2
    <3> QED
      BY <3>2
  <2> QED
    BY <2>1, <2>2
<1>8. v <= f[s]
  <2>1. CASE s = n
    <3>1. f[n] = q[n].input /\ f[n] \in Int
      BY <1>1, <1>2
    <3> QED
      BY <2>1, <3>1
  <2>2. CASE s # n
    <3>1. s \in s..(n - 1)
      BY <2>2, <1>6, <1>1
    <3> QED
      BY <3>1, <1>6
  <2> QED
    BY <2>1, <2>2
<1>9. s \in 1..n /\ s - 1 \in 1..n
  BY <1>6, <1>1
<1> QED
  BY <1>2, <1>4, <1>6, <1>7, <1>8, <1>9 DEF s

(* Where a value is on a curve: in a segment, the first and the last of    *)
(* which go on beyond the ends.                                            *)
InSegment(q, k, v) ==
    /\ k \in 2..Len(q)
    /\ k = 2 \/ q[k - 1].input <= v
    /\ k = Len(q) \/ v <= q[k].input

(* Linear interpolation follows the line of the segment.                   *)
LEMMA LinearIs ==
  ASSUME NEW q, Curve(q), NEW v \in Int
  PROVE  \E k \in 2..Len(q) : InSegment(q, k, v) /\ interpolatePoints(q, v, "linear") = LineAt(q, k, v)
<1> DEFINE n == Len(q)
<1>1. /\ n \in Nat /\ n >= 2
      /\ \A k \in 1..n : q[k].input \in Int /\ q[k].output \in Int
      /\ \A i, j \in 1..n : i <= j => q[i].input <= q[j].input
  BY CurveRises
<1>2. 2 \in 2..n /\ n \in 2..n /\ 2 - 1 = 1 /\ 1 \in 1..n /\ n \in 1..n /\ 2 \in 1..n
  BY <1>1
<1>3. interpolatePoints(q, v, "linear") =
        IF v <= q[1].input
        THEN IF v = q[1].input THEN q[1].output ELSE LineAt(q, 2, v)
        ELSE IF v >= q[n].input
        THEN IF v = q[n].input THEN q[n].output ELSE LineAt(q, n, v)
        ELSE LineAt(q, Segment(q, v), v)
  BY DEF interpolatePoints, LineAt
<1>4. LineAt(q, 2, q[1].input) = q[1].output /\ LineAt(q, n, q[n].input) = q[n].output
  BY <1>2, LinesOf
<1>5. CASE v <= q[1].input
  <2>1. v <= q[2].input
    <3>1. q[1].input <= q[2].input /\ q[1].input \in Int /\ q[2].input \in Int
      BY <1>1, <1>2
    <3> QED
      BY <3>1, <1>5
  <2>2. interpolatePoints(q, v, "linear") = LineAt(q, 2, v)
    BY <1>3, <1>4, <1>5
  <2>3. InSegment(q, 2, v)
    BY <1>2, <2>1 DEF InSegment
  <2> QED
    BY <1>2, <2>2, <2>3
<1>6. CASE ~(v <= q[1].input) /\ v >= q[n].input
  <2>1. n - 1 \in 1..n /\ n - 1 <= n
    BY <1>1
  <2>2. q[n - 1].input <= v
    <3>1. q[n - 1].input <= q[n].input /\ q[n - 1].input \in Int /\ q[n].input \in Int
      BY <1>1, <1>2, <2>1
    <3> QED
      BY <3>1, <1>6
  <2>3. interpolatePoints(q, v, "linear") = LineAt(q, n, v)
    BY <1>3, <1>4, <1>6
  <2>4. InSegment(q, n, v)
    BY <1>2, <2>2 DEF InSegment
  <2> QED
    BY <1>2, <2>3, <2>4
<1>7. CASE ~(v <= q[1].input) /\ ~(v >= q[n].input)
  <2>1. q[1].input < v /\ v < q[n].input
    BY <1>7, <1>1, <1>2
  <2>2. /\ Segment(q, v) \in 2..n
        /\ q[Segment(q, v) - 1].input <= v /\ v <= q[Segment(q, v)].input
    BY <2>1, SegmentIs
  <2>3. interpolatePoints(q, v, "linear") = LineAt(q, Segment(q, v), v)
    BY <1>3, <1>7
  <2>4. InSegment(q, Segment(q, v), v)
    BY <2>2 DEF InSegment
  <2> QED
    BY <2>2, <2>3, <2>4
<1> QED
  BY <1>5, <1>6, <1>7

(* Two segments that a value is in give it the same.                       *)
LEMMA SegmentsRise ==
  ASSUME NEW q, Curve(q), NEW v \in Int, NEW w \in Int, v <= w,
         NEW j, InSegment(q, j, v), NEW k, InSegment(q, k, w)
  PROVE  LineAt(q, j, v) \in Int /\ LineAt(q, k, w) \in Int /\ LineAt(q, j, v) <= LineAt(q, k, w)
<1> DEFINE n == Len(q)
<1>1. /\ n \in Nat /\ n >= 2
      /\ \A i \in 1..n : q[i].input \in Int /\ q[i].output \in Int
      /\ \A a, b \in 1..n : a < b => q[a].input < q[b].input
      /\ \A a, b \in 1..n : a <= b => q[a].input <= q[b].input
      /\ \A a, b \in 1..n : a <= b => q[a].output <= q[b].output
  BY CurveRises
<1>2. /\ j \in 2..n /\ k \in 2..n
      /\ j = 2 \/ q[j - 1].input <= v
      /\ j = n \/ v <= q[j].input
      /\ k = 2 \/ q[k - 1].input <= w
      /\ k = n \/ w <= q[k].input
  BY DEF InSegment
<1>3. /\ LineAt(q, j, v) \in Int /\ LineAt(q, k, w) \in Int /\ LineAt(q, j, w) \in Int
      /\ j \in 1..n /\ j - 1 \in 1..n /\ k \in 1..n /\ k - 1 \in 1..n
  BY <1>1, <1>2, LinesOf
<1>4. CASE j = k
  BY <1>2, <1>4, LinesOf
<1>5. CASE j < k
  <2>1. j # n /\ k # 2 /\ j <= k - 1
    BY <1>5, <1>2, <1>1
  <2>2. v <= q[j].input /\ q[k - 1].input <= w /\ q[j].input \in Int /\ q[k - 1].input \in Int
    BY <2>1, <1>1, <1>2, <1>3
  <2>3. LineAt(q, j, v) <= LineAt(q, j, q[j].input) /\ LineAt(q, j, q[j].input) = q[j].output
    BY <1>2, <2>2, LinesOf
  <2>4. LineAt(q, k, q[k - 1].input) <= LineAt(q, k, w) /\ LineAt(q, k, q[k - 1].input) = q[k - 1].output
    BY <1>2, <2>2, LinesOf
  <2>5. q[j].output <= q[k - 1].output /\ q[j].output \in Int /\ q[k - 1].output \in Int
    BY <1>1, <1>3, <2>1
  <2> QED
    BY <1>3, <2>3, <2>4, <2>5
<1>6. CASE k < j
  <2>1. k # n /\ j # 2 /\ k <= j - 1 /\ k \in Int /\ j \in Int
    BY <1>6, <1>2, <1>1
  <2>2. q[j - 1].input <= v /\ w <= q[k].input /\ q[k].input \in Int /\ q[j - 1].input \in Int
    BY <2>1, <1>1, <1>2, <1>3
  <2>3. q[k].input <= q[j - 1].input
    BY <1>1, <1>3, <2>1
  <2>4. v = q[j - 1].input /\ w = q[k].input /\ q[k].input = q[j - 1].input
    BY <2>2, <2>3
  <2>5. k = j - 1
    <3>1. ~(k < j - 1)
      BY <1>1, <1>3, <2>2, <2>4
    <3> QED
      BY <3>1, <2>1
  <2>6. LineAt(q, j, v) = q[j - 1].output
    BY <1>2, <2>4, LinesOf
  <2>7. LineAt(q, k, w) = q[k].output
    BY <1>2, <2>4, LinesOf
  <2>8. q[k].output \in Int
    BY <1>1, <1>3
  <2> QED
    BY <2>5, <2>6, <2>7, <2>8
<1>7. j \in Int /\ k \in Int
  BY <1>2, <1>1
<1> QED
  BY <1>3, <1>4, <1>5, <1>6, <1>7

(* Linear interpolation is in order, between the points and beyond them.   *)
LEMMA LinearRises ==
  ASSUME NEW q, Curve(q), NEW v \in Int, NEW w \in Int, v <= w
  PROVE  /\ interpolatePoints(q, v, "linear") \in Int /\ interpolatePoints(q, w, "linear") \in Int
         /\ interpolatePoints(q, v, "linear") <= interpolatePoints(q, w, "linear")
<1>1. PICK j \in 2..Len(q) : InSegment(q, j, v) /\ interpolatePoints(q, v, "linear") = LineAt(q, j, v)
  BY LinearIs
<1>2. PICK k \in 2..Len(q) : InSegment(q, k, w) /\ interpolatePoints(q, w, "linear") = LineAt(q, k, w)
  BY LinearIs
<1> QED
  BY <1>1, <1>2, SegmentsRise

(* In any segment of a value, linear interpolation is on its line.         *)
LEMMA LinearInSegment ==
  ASSUME NEW q, Curve(q), NEW v \in Int, NEW k, InSegment(q, k, v)
  PROVE  interpolatePoints(q, v, "linear") = LineAt(q, k, v)
<1>1. PICK j \in 2..Len(q) : InSegment(q, j, v) /\ interpolatePoints(q, v, "linear") = LineAt(q, j, v)
  BY LinearIs
<1>2. v <= v
  OBVIOUS
<1>3. LineAt(q, j, v) \in Int /\ LineAt(q, k, v) \in Int /\ LineAt(q, j, v) <= LineAt(q, k, v)
  BY <1>1, <1>2, SegmentsRise
<1>4. LineAt(q, k, v) <= LineAt(q, j, v)
  BY <1>1, <1>2, SegmentsRise
<1> QED
  BY <1>1, <1>3, <1>4

(* A point maps to itself.                                                 *)
LEMMA LinearAt ==
  ASSUME NEW q, Curve(q), NEW k \in 1..Len(q)
  PROVE  interpolatePoints(q, q[k].input, "linear") = q[k].output
<1> DEFINE n == Len(q)
<1>1. /\ n \in Nat /\ n >= 2
      /\ \A i \in 1..n : q[i].input \in Int /\ q[i].output \in Int
      /\ \A a, b \in 1..n : a <= b => q[a].input <= q[b].input
  BY CurveRises
<1>2. q[k].input \in Int
  BY <1>1
<1>3. CASE k = 1
  <2>1. 2 \in 2..n /\ 1 \in 1..n /\ 2 \in 1..n /\ 2 - 1 = 1
    BY <1>1
  <2>2. q[1].input <= q[2].input
    BY <1>1, <2>1
  <2>3. InSegment(q, 2, q[1].input)
    BY <2>1, <2>2 DEF InSegment
  <2>4. LineAt(q, 2, q[1].input) = q[1].output
    BY <2>1, LinesOf
  <2> QED
    BY <1>2, <1>3, <2>3, <2>4, LinearInSegment
<1>4. CASE k # 1
  <2>1. k \in 2..n /\ k - 1 \in 1..n /\ k - 1 <= k
    BY <1>1, <1>4
  <2>2. q[k - 1].input <= q[k].input /\ q[k].input <= q[k].input
    <3>1. q[k - 1].input \in Int /\ q[k].input \in Int /\ q[k - 1].input <= q[k].input
      BY <1>1, <2>1
    <3> QED
      BY <3>1
  <2>3. InSegment(q, k, q[k].input)
    BY <2>1, <2>2 DEF InSegment
  <2>4. LineAt(q, k, q[k].input) = q[k].output
    BY <2>1, LinesOf
  <2> QED
    BY <1>2, <2>3, <2>4, LinearInSegment
<1> QED
  BY <1>3, <1>4

(* Clamped interpolation is linear between the ends, and the end beyond    *)
(* them.                                                                   *)
LEMMA ClampedIs ==
  ASSUME NEW q, Curve(q), NEW n, n = Len(q), NEW v \in Int
  PROVE  /\ v <= q[1].input => interpolatePoints(q, v, "clamp") = q[1].output
         /\ v >= q[n].input => interpolatePoints(q, v, "clamp") = q[n].output
         /\ q[1].input <= v /\ v <= q[n].input =>
                interpolatePoints(q, v, "clamp") = interpolatePoints(q, v, "linear")
<1>1. /\ n \in Nat /\ n >= 2
      /\ \A i \in 1..n : q[i].input \in Int
      /\ \A a, b \in 1..n : a < b => q[a].input < q[b].input
  BY CurveRises
<1>2. 1 \in 1..n /\ n \in 1..n /\ 1 < n
  BY <1>1
<1>3. q[1].input < q[n].input /\ q[1].input \in Int /\ q[n].input \in Int
  BY <1>1, <1>2
<1>4. interpolatePoints(q, v, "clamp") =
        IF v <= q[1].input THEN q[1].output
        ELSE IF v >= q[n].input THEN q[n].output
        ELSE LineAt(q, Segment(q, v), v)
  BY DEF interpolatePoints, LineAt
<1>5. interpolatePoints(q, v, "linear") =
        IF v <= q[1].input
        THEN IF v = q[1].input THEN q[1].output ELSE LineAt(q, 2, v)
        ELSE IF v >= q[n].input
        THEN IF v = q[n].input THEN q[n].output ELSE LineAt(q, n, v)
        ELSE LineAt(q, Segment(q, v), v)
  BY DEF interpolatePoints, LineAt
<1>6. /\ v <= q[1].input => interpolatePoints(q, v, "clamp") = q[1].output
      /\ v >= q[n].input => interpolatePoints(q, v, "clamp") = q[n].output
  BY <1>3, <1>4
<1>7. ASSUME q[1].input <= v, v <= q[n].input
      PROVE  interpolatePoints(q, v, "clamp") = interpolatePoints(q, v, "linear")
  BY <1>3, <1>4, <1>5, <1>7
<1> QED
  BY <1>6, <1>7

(* In a segment, clamped interpolation is on its line.                     *)
LEMMA ClampedInSegment ==
  ASSUME NEW q, Curve(q), NEW v \in Int, NEW k \in 2..Len(q), q[k - 1].input <= v, v <= q[k].input
  PROVE  interpolatePoints(q, v, "clamp") = LineAt(q, k, v)
<1> DEFINE n == Len(q)
<1>1. /\ n \in Nat /\ n >= 2
      /\ \A i \in 1..n : q[i].input \in Int
      /\ \A a, b \in 1..n : a <= b => q[a].input <= q[b].input
  BY CurveRises
<1>2. k - 1 \in 1..n /\ k \in 1..n /\ 1 \in 1..n /\ n \in 1..n /\ 1 <= k - 1 /\ k <= n
  BY <1>1
<1>3. q[1].input <= q[k - 1].input /\ q[k].input <= q[n].input
  BY <1>1, <1>2
<1>4. q[1].input <= v /\ v <= q[n].input
  <2>1. q[1].input \in Int /\ q[k - 1].input \in Int /\ q[k].input \in Int /\ q[n].input \in Int
    BY <1>1, <1>2
  <2> HIDE DEF n
  <2> QED
    BY <1>3, <2>1
<1>5. InSegment(q, k, v)
  BY DEF InSegment
<1> QED
  BY <1>4, <1>5, ClampedIs, LinearInSegment

(* Clamped interpolation is in order, and stays between the ends.          *)
LEMMA ClampedRises ==
  ASSUME NEW q, Curve(q), NEW n, n = Len(q), NEW v \in Int, NEW w \in Int, v <= w
  PROVE  /\ interpolatePoints(q, v, "clamp") \in Int /\ interpolatePoints(q, w, "clamp") \in Int
         /\ interpolatePoints(q, v, "clamp") <= interpolatePoints(q, w, "clamp")
         /\ q[1].output <= interpolatePoints(q, v, "clamp") /\ interpolatePoints(q, w, "clamp") <= q[n].output
<1>1. /\ n \in Nat /\ n >= 2
      /\ \A i \in 1..n : q[i].input \in Int /\ q[i].output \in Int
      /\ \A a, b \in 1..n : a <= b => q[a].input <= q[b].input
  BY CurveRises
<1>2. 1 \in 1..n /\ n \in 1..n /\ 1 <= n
  BY <1>1
<1> DEFINE low == q[1].input  high == q[n].input  lin(u) == interpolatePoints(q, u, "linear")
           clamp(u) == interpolatePoints(q, u, "clamp")
           into(u) == IF u <= low THEN low ELSE IF u >= high THEN high ELSE u
<1>3. low \in Int /\ high \in Int /\ low <= high
  BY <1>1, <1>2
<1>4. \A u \in Int : into(u) \in Int /\ low <= into(u) /\ into(u) <= high
  BY <1>3
<1>5. \A u, x \in Int : u <= x => into(u) <= into(x)
  BY <1>3
<1>6. lin(low) = q[1].output /\ lin(high) = q[n].output
  BY <1>2, LinearAt
<1>7. \A u \in Int : clamp(u) = lin(into(u))
  <2> TAKE u \in Int
  <2>1. /\ u <= low => clamp(u) = q[1].output
        /\ u >= high => clamp(u) = q[n].output
        /\ low <= u /\ u <= high => clamp(u) = lin(u)
    BY ClampedIs
  <2>2. CASE u <= low
    <3>1. into(u) = low
      BY <2>2
    <3> QED
      BY <3>1, <2>1, <2>2, <1>6
  <2>3. CASE ~(u <= low) /\ u >= high
    <3>1. into(u) = high
      BY <2>3
    <3> QED
      BY <3>1, <2>1, <2>3, <1>6
  <2>4. CASE ~(u <= low) /\ ~(u >= high)
    <3>1. into(u) = u /\ low <= u /\ u <= high
      BY <2>4, <1>3
    <3> QED
      BY <3>1, <2>1
  <2> QED
    BY <2>2, <2>3, <2>4
<1>8. \A u, x \in Int : u <= x => lin(u) \in Int /\ lin(x) \in Int /\ lin(u) <= lin(x)
  BY LinearRises
<1> HIDE DEF low, high, lin, clamp, into
<1>9. clamp(v) \in Int /\ clamp(w) \in Int /\ clamp(v) <= clamp(w)
  BY <1>4, <1>5, <1>7, <1>8
<1>10. lin(low) <= clamp(v) /\ clamp(w) <= lin(high)
  BY <1>3, <1>4, <1>7, <1>8
<1> QED
  BY <1>6, <1>9, <1>10 DEF clamp

-----------------------------------------------------------------------------
(* A mapping of points, forward and back.                                  *)

(* Sorted leaves out no element.                                           *)
LEMMA SortedOnto ==
  ASSUME NEW S \in SUBSET Int, IsFiniteSet(S), NEW x \in S
  PROVE  \E k \in 1..Cardinality(S) : Sorted(S)[k] = x
<1> DEFINE rank(y) == Cardinality(UpTo(S, y))
           k == rank(x)
<1>1. /\ Cardinality(S) \in Nat
      /\ \A y \in S : rank(y) \in Nat /\ IsFiniteSet(UpTo(S, y))
  BY Ranks
<1>2. UpTo(S, x) \subseteq S /\ x \in UpTo(S, x) /\ x <= x
  BY DEF UpTo
<1>3. k <= Cardinality(S)
  BY <1>2, FS_Subset
<1>4. k >= 1
  <2>1. k # 0
    BY <1>1, <1>2, FS_EmptySet
  <2>2. k \in Nat
    BY <1>1
  <2> HIDE DEF k
  <2> QED
    BY <2>1, <2>2
<1>5. k \in 1..Cardinality(S)
  <2>1. k \in Nat
    BY <1>1
  <2> HIDE DEF k
  <2> QED
    BY <1>1, <1>3, <1>4, <2>1
<1>6. ASSUME NEW y \in S, NEW z \in S, y < z
      PROVE  rank(y) < rank(z)
  <2>1. y \in Int /\ z \in Int
    OBVIOUS
  <2>2. UpTo(S, y) \subseteq UpTo(S, z) \ {z}
    <3> SUFFICES ASSUME NEW u \in UpTo(S, y)
                 PROVE  u \in UpTo(S, z) /\ u # z
      OBVIOUS
    <3>1. u \in S /\ u <= y /\ u \in Int
      BY DEF UpTo
    <3>2. u <= z /\ u # z
      BY <1>6, <2>1, <3>1
    <3> QED
      BY <3>1, <3>2 DEF UpTo
  <2>3. z \in UpTo(S, z) /\ IsFiniteSet(UpTo(S, z))
    BY <1>1, <2>1 DEF UpTo
  <2>4. IsFiniteSet(UpTo(S, z) \ {z}) /\ Cardinality(UpTo(S, z) \ {z}) = rank(z) - 1
    BY <2>3, FS_RemoveElement
  <2>5. Cardinality(UpTo(S, y)) <= Cardinality(UpTo(S, z) \ {z})
    BY <2>2, <2>4, FS_Subset
  <2>6. rank(y) \in Nat /\ rank(z) \in Nat
    BY <1>1
  <2> HIDE DEF rank
  <2>7. rank(y) <= rank(z) - 1
    BY <2>4, <2>5 DEF rank
  <2> QED
    BY <2>6, <2>7
<1>7. Sorted(S)[k] = CHOOSE y \in S : rank(y) = k
  BY <1>5 DEF Sorted
<1>8. Sorted(S)[k] \in S /\ rank(Sorted(S)[k]) = rank(x)
  BY <1>7
<1> DEFINE y == Sorted(S)[k]
<1>9. y = x
  <2>1. y \in Int /\ x \in Int /\ y \in S
    BY <1>8
  <2>2. rank(y) \in Nat /\ rank(x) \in Nat /\ rank(y) = rank(x)
    BY <1>1, <1>8
  <2> HIDE DEF y, k, rank
  <2>3. ~(y < x) /\ ~(x < y)
    BY <1>6, <2>1, <2>2
  <2> QED
    BY <2>1, <2>3
<1> QED
  BY <1>5, <1>9

(* A mapping, from REF to DUT, is a curve.                                 *)
LEMMA RefToDutIs ==
  ASSUME NEW q, Points(q), Len(q) >= 2, NEW c, c = RefToDut(q)
  PROVE  /\ Curve(c) /\ Len(c) = Len(q)
         /\ \A k \in 1..Len(q) : c[k].input = q[k].refTime /\ c[k].output = q[k].dutTime
<1> DEFINE n == Len(q)
<1>1. /\ n \in Nat /\ DOMAIN q = 1..n
      /\ \A k \in 1..n : q[k].refTime \in Int /\ q[k].dutTime \in Int
  BY PointsRise
<1>2. c = [k \in 1..n |-> [input |-> q[k].refTime, output |-> q[k].dutTime]]
  BY <1>1 DEF RefToDut
<1>3. \A k \in 1..n : c[k].input = q[k].refTime /\ c[k].output = q[k].dutTime
  BY <1>2
<1>4. c \in Seq([input : Int, output : Int]) /\ Len(c) = n
  <2> DEFINE P == [input : Int, output : Int]
  <2>1. c \in [1..n -> P]
    BY <1>1, <1>2
  <2> HIDE DEF P
  <2>2. c \in Seq(P) /\ DOMAIN c = 1..n
    BY <2>1, <1>1
  <2> QED
    BY <2>2, <1>1 DEF P
<1>5. \A k \in 2..n : q[k - 1].refTime < q[k].refTime /\ q[k - 1].dutTime <= q[k].dutTime
  BY DEF Points, Ascending
<1>6. \A k \in 2..n : c[k - 1].input < c[k].input /\ c[k - 1].output <= c[k].output
  <2> TAKE k \in 2..n
  <2>1. k \in 1..n /\ k - 1 \in 1..n
    BY <1>1
  <2> QED
    BY <1>3, <1>5, <2>1
<1> QED
  BY <1>3, <1>4, <1>6 DEF Curve

(* The REF times of a path.                                                *)
RefTimes(p) == {p[k].referenceTime : k \in DOMAIN p}

(* The points of a path have the times of REF on it, all of them, and the  *)
(* mean of the DUT times at each.                                          *)
LEMMA PointsOfPath ==
  ASSUME NEW p, PathOfTimes(p), NEW q, q = Collapsed(p)
  PROVE  /\ RefTimes(p) \in SUBSET Int /\ IsFiniteSet(RefTimes(p))
         /\ Points(q) /\ Len(q) >= 2 /\ Len(q) = Cardinality(RefTimes(p)) /\ DOMAIN q = 1..Len(q)
         /\ \A m \in 1..Len(q) :
                /\ q[m].refTime = Sorted(RefTimes(p))[m]
                /\ q[m].refTime \in RefTimes(p)
                /\ q[m].dutTime = Middle(p, q[m].refTime)
         /\ \A t \in RefTimes(p) : \E m \in 1..Len(q) : q[m].refTime = t
<1> DEFINE T == RefTimes(p)
           times == Sorted(T)
           c == Cardinality(T)
           n == Len(p)
<1>1. n \in Nat /\ DOMAIN p = 1..n /\ \A k \in 1..n : p[k].referenceTime \in Int
  BY PathRises
<1>2. T \in SUBSET Int /\ IsFiniteSet(T)
  <2> DEFINE f == [k \in 1..n |-> p[k].referenceTime]
  <2>1. f \in [1..n -> Int] /\ IsFiniteSet(1..n)
    <3>1. f \in [1..n -> Int]
      BY <1>1
    <3>2. IsFiniteSet(1..n)
      BY <1>1, FS_Interval
    <3> QED
      BY <3>1, <3>2
  <2>2. T = {f[k] : k \in 1..n}
    BY <1>1 DEF RefTimes
  <2> HIDE DEF f
  <2>3. {f[k] : k \in 1..n} \in SUBSET Int /\ IsFiniteSet({f[k] : k \in 1..n})
    BY <2>1, FiniteImage
  <2> QED
    BY <2>2, <2>3
<1>3. c \in Nat /\ times \in [1..c -> T]
  BY <1>2, SortedIs
<1>4. q = [m \in DOMAIN times |-> [refTime |-> times[m], dutTime |-> Middle(p, times[m])]]
  BY DEF Collapsed, Middle, At, RefTimes
<1>5. Points(q) /\ Len(q) >= 2
  BY CollapsedIs
<1>6. DOMAIN q = 1..Len(q) /\ Len(q) \in Nat
  BY <1>5, PointsRise
<1>7. \A t \in T : \E m \in 1..c : times[m] = t
  BY <1>2, SortedOnto
<1> HIDE DEF c, times, T
<1>8. DOMAIN q = 1..c
  BY <1>3, <1>4
<1>9. Len(q) = c
  <2>1. c >= 1 /\ Len(q) >= 1
    <3>1. 1 \in 1..Len(q)
      BY <1>5, <1>6
    <3>2. 1 \in 1..c
      BY <1>6, <1>8, <3>1
    <3> QED
      BY <1>3, <1>5, <1>6, <3>2
  <2>2. c \in 1..c /\ Len(q) \in 1..Len(q)
    BY <1>3, <1>6, <2>1
  <2>3. c \in 1..Len(q) /\ Len(q) \in 1..c
    BY <1>6, <1>8, <2>2
  <2>4. c \in Int /\ Len(q) \in Int
    BY <1>3, <1>6
  <2>5. c <= Len(q) /\ Len(q) <= c
    BY <2>3
  <2> QED
    BY <2>4, <2>5
<1>10. \A m \in 1..c : q[m].refTime = times[m] /\ q[m].dutTime = Middle(p, times[m]) /\ times[m] \in T
  BY <1>3, <1>4
<1> QED
  BY <1>2, <1>5, <1>6, <1>7, <1>9, <1>10 DEF T, times, c

(* The points of a mapping as a path, from DUT to REF.                     *)
Swapped(q) ==
    [k \in DOMAIN q |-> [index |-> <<0, 0>>, referenceTime |-> q[k].dutTime, dutTime |-> q[k].refTime]]

(* Swapped points are a path, if they have more than one DUT time.         *)
LEMMA SwappedIs ==
  ASSUME NEW q, Points(q), Len(q) >= 2, NEW p, p = Swapped(q)
  PROVE  /\ DOMAIN p = 1..Len(q) /\ DOMAIN q = 1..Len(q)
         /\ \A k \in 1..Len(q) : p[k].referenceTime = q[k].dutTime /\ p[k].dutTime = q[k].refTime
         /\ RefTimes(p) = {q[k].dutTime : k \in DOMAIN q}
         /\ q[1].dutTime < q[Len(q)].dutTime => PathOfTimes(p)
<1> DEFINE n == Len(q)
           X == [index : Nat \X Nat, referenceTime : Int, dutTime : Int]
<1>1. /\ n \in Nat /\ DOMAIN q = 1..n
      /\ \A k \in 1..n : q[k].refTime \in Int /\ q[k].dutTime \in Int
      /\ \A i, j \in 1..n : i < j => q[i].refTime < q[j].refTime
      /\ \A i, j \in 1..n : i <= j => q[i].dutTime <= q[j].dutTime
  BY PointsRise
<1>2. p = [k \in 1..n |-> [index |-> <<0, 0>>, referenceTime |-> q[k].dutTime, dutTime |-> q[k].refTime]]
  BY <1>1 DEF Swapped
<1>3. \A k \in 1..n : p[k].referenceTime = q[k].dutTime /\ p[k].dutTime = q[k].refTime
  BY <1>2
<1>4. RefTimes(p) = {q[k].dutTime : k \in 1..n}
  <2>1. RefTimes(p) = {p[k].referenceTime : k \in 1..n}
    BY <1>2 DEF RefTimes
  <2>2. \A k \in 1..n : p[k].referenceTime = q[k].dutTime
    BY <1>3
  <2> QED
    BY <2>1, <2>2
<1>5. p \in Seq(X) /\ Len(p) = n
  <2>1. p \in [1..n -> X]
    <3>1. \A k \in 1..n : [index |-> <<0, 0>>, referenceTime |-> q[k].dutTime, dutTime |-> q[k].refTime] \in X
      BY <1>1
    <3> HIDE DEF X
    <3> QED
      BY <1>2, <3>1
  <2> HIDE DEF X
  <2>2. p \in Seq(X) /\ DOMAIN p = 1..n
    BY <1>1, <2>1
  <2> QED
    BY <1>1, <2>2
<1>6. \A k \in 2..n : p[k - 1].referenceTime <= p[k].referenceTime /\ p[k - 1].dutTime <= p[k].dutTime
  <2> TAKE k \in 2..n
  <2>1. k \in 1..n /\ k - 1 \in 1..n /\ k - 1 < k /\ k - 1 <= k
    BY <1>1
  <2>2. q[k - 1].refTime < q[k].refTime /\ q[k - 1].dutTime <= q[k].dutTime
    BY <1>1, <2>1
  <2>3. q[k - 1].refTime \in Int /\ q[k].refTime \in Int
    BY <1>1, <2>1
  <2>4. q[k - 1].refTime <= q[k].refTime
    BY <2>2, <2>3
  <2> QED
    BY <1>3, <2>1, <2>2, <2>4
<1>7. q[1].dutTime < q[n].dutTime => p[1].referenceTime < p[n].referenceTime
  BY <1>1, <1>3
<1>8. q[1].dutTime < q[Len(q)].dutTime => PathOfTimes(p)
  <2> HIDE DEF X
  <2> QED
    BY <1>5, <1>6, <1>7 DEF PathOfTimes, X
<1> QED
  BY <1>1, <1>2, <1>3, <1>4, <1>8

(* The mean of the REF times at a DUT time is that of the swapped path.    *)
LEMMA SwappedMiddle ==
  ASSUME NEW q, Points(q), Len(q) >= 2, NEW t
  PROVE  Middle(Swapped(q), t) = Mean([k \in {j \in DOMAIN q : q[j].dutTime = t} |-> q[k].refTime])
<1> DEFINE p == Swapped(q)
           A == {j \in DOMAIN q : q[j].dutTime = t}
<1>1. /\ DOMAIN p = DOMAIN q
      /\ \A k \in DOMAIN q : p[k].referenceTime = q[k].dutTime /\ p[k].dutTime = q[k].refTime
  BY SwappedIs
<1> HIDE DEF p
<1>2. At(p, t) = A
  BY <1>1 DEF At
<1>3. [k \in At(p, t) |-> p[k].dutTime] = [k \in A |-> q[k].refTime]
  BY <1>1, <1>2
<1>4. Middle(p, t) = Mean([k \in A |-> q[k].refTime])
  BY <1>3 DEF Middle
<1> QED
  BY <1>4 DEF p

(* A mapping is a curve from DUT to REF too, if it has more than one DUT   *)
(* time; what it maps a DUT time to lies between the REF times there.      *)
LEMMA DutToRefIs ==
  ASSUME NEW q, Points(q), Len(q) >= 2, q[1].dutTime < q[Len(q)].dutTime, NEW c, c = DutToRef(q)
  PROVE  /\ Curve(c)
         /\ \A k \in 1..Len(q) : \E m \in 1..Len(c) : c[m].input = q[k].dutTime
         /\ \A m \in 1..Len(c) : \E i, j \in 1..Len(q) :
                /\ q[i].dutTime = c[m].input /\ q[j].dutTime = c[m].input
                /\ q[i].refTime <= c[m].output /\ c[m].output <= q[j].refTime
<1> DEFINE n == Len(q)
           p == Swapped(q)
           T == RefTimes(p)
           d == Collapsed(p)
<1>1. /\ DOMAIN p = 1..n /\ DOMAIN q = 1..n
      /\ \A k \in 1..n : p[k].referenceTime = q[k].dutTime /\ p[k].dutTime = q[k].refTime
      /\ T = {q[k].dutTime : k \in DOMAIN q}
      /\ PathOfTimes(p)
  BY SwappedIs
<1>2. /\ T \in SUBSET Int /\ IsFiniteSet(T)
      /\ Points(d) /\ Len(d) >= 2 /\ Len(d) = Cardinality(T) /\ DOMAIN d = 1..Len(d)
      /\ \A m \in 1..Len(d) :
                /\ d[m].refTime = Sorted(T)[m]
                /\ d[m].refTime \in T
                /\ d[m].dutTime = Middle(p, d[m].refTime)
      /\ \A t \in T : \E m \in 1..Len(d) : d[m].refTime = t
  <2>1. PathOfTimes(p) /\ d = Collapsed(p)
    BY <1>1
  <2> HIDE DEF p, d
  <2> QED
    BY <2>1, PointsOfPath
<1>3. DOMAIN Sorted(T) = 1..Len(d)
  BY <1>2, SortedIs
<1>4. \A t : Middle(p, t) = Mean([k \in {j \in DOMAIN q : q[j].dutTime = t} |-> q[k].refTime])
  BY SwappedMiddle
<1>5. c = [m \in DOMAIN Sorted(T) |-> [input |-> Sorted(T)[m],
                output |-> Mean([k \in {j \in DOMAIN q : q[j].dutTime = Sorted(T)[m]} |-> q[k].refTime])]]
  BY <1>1 DEF DutToRef
<1>6. \A t \in T : /\ Middle(p, t) \in Int
                   /\ \E i, j \in At(p, t) : p[i].dutTime <= Middle(p, t) /\ Middle(p, t) <= p[j].dutTime
  BY <1>1, MiddleIs DEF RefTimes
<1> HIDE DEF p, T, d
<1>7. c = [m \in 1..Len(d) |-> [input |-> d[m].refTime, output |-> d[m].dutTime]]
  <2>1. \A m \in 1..Len(d) : [input |-> Sorted(T)[m],
                output |-> Mean([k \in {j \in DOMAIN q : q[j].dutTime = Sorted(T)[m]} |-> q[k].refTime])]
            = [input |-> d[m].refTime, output |-> d[m].dutTime]
    <3> TAKE m \in 1..Len(d)
    <3>1. Sorted(T)[m] = d[m].refTime /\ Middle(p, d[m].refTime) = d[m].dutTime
      BY <1>2
    <3> QED
      BY <1>4, <3>1
  <2> QED
    BY <1>3, <1>5, <2>1
<1>8. c = RefToDut(d)
  BY <1>2, <1>7 DEF RefToDut
<1>9. /\ Curve(c) /\ Len(c) = Len(d)
      /\ \A m \in 1..Len(d) : c[m].input = d[m].refTime /\ c[m].output = d[m].dutTime
  BY <1>2, <1>8, RefToDutIs
<1>10. ASSUME NEW k \in 1..n
       PROVE  \E m \in 1..Len(c) : c[m].input = q[k].dutTime
  <2>1. q[k].dutTime \in T
    BY <1>1
  <2>2. PICK m \in 1..Len(d) : d[m].refTime = q[k].dutTime
    BY <1>2, <2>1
  <2> QED
    BY <1>9, <2>2
<1>11. ASSUME NEW m \in 1..Len(c)
       PROVE  \E i, j \in 1..n :
                /\ q[i].dutTime = c[m].input /\ q[j].dutTime = c[m].input
                /\ q[i].refTime <= c[m].output /\ c[m].output <= q[j].refTime
  <2>1. m \in 1..Len(d) /\ c[m].input = d[m].refTime /\ c[m].output = Middle(p, d[m].refTime) /\ d[m].refTime \in T
    BY <1>2, <1>9
  <2>2. PICK i \in At(p, d[m].refTime), j \in At(p, d[m].refTime) :
            p[i].dutTime <= Middle(p, d[m].refTime) /\ Middle(p, d[m].refTime) <= p[j].dutTime
    BY <1>6, <2>1
  <2>3. /\ i \in 1..n /\ j \in 1..n
        /\ p[i].referenceTime = d[m].refTime /\ p[j].referenceTime = d[m].refTime
    BY <1>1, <2>2 DEF At
  <2>4. /\ q[i].dutTime = c[m].input /\ q[j].dutTime = c[m].input
        /\ q[i].refTime <= c[m].output /\ c[m].output <= q[j].refTime
    BY <1>1, <2>1, <2>2, <2>3
  <2> QED
    BY <2>3, <2>4
<1> QED
  BY <1>9, <1>10, <1>11

(* Points of one DUT time only have one point from DUT to REF.             *)
LEMMA OneDutTime ==
  ASSUME NEW q, Points(q), Len(q) >= 2, Len(DutToRef(q)) > 1
  PROVE  q[1].dutTime < q[Len(q)].dutTime
<1> DEFINE n == Len(q)
           T == {q[k].dutTime : k \in DOMAIN q}
<1>1. /\ n \in Nat /\ DOMAIN q = 1..n
      /\ \A k \in 1..n : q[k].dutTime \in Int
      /\ \A i, j \in 1..n : i <= j => q[i].dutTime <= q[j].dutTime
  BY PointsRise
<1>2. 1 \in 1..n /\ n \in 1..n /\ 1 <= n
  BY <1>1
<1>3. SUFFICES ASSUME ~(q[1].dutTime < q[n].dutTime)
               PROVE  FALSE
  OBVIOUS
<1> DEFINE x == q[1].dutTime
<1>4. x = q[n].dutTime /\ x \in Int
  BY <1>1, <1>2, <1>3
<1>5. \A k \in 1..n : q[k].dutTime = x
  <2> TAKE k \in 1..n
  <2>1. x <= q[k].dutTime /\ q[k].dutTime <= q[n].dutTime /\ q[k].dutTime \in Int
    BY <1>1, <1>2
  <2> QED
    BY <1>4, <2>1
<1>6. T = {x}
  BY <1>1, <1>2, <1>5
<1>7. IsFiniteSet(T) /\ Cardinality(T) = 1 /\ T \in SUBSET Int
  BY <1>4, <1>6, FS_Singleton
<1>8. DOMAIN Sorted(T) = 1..1
  BY <1>7, SortedIs
<1>9. DOMAIN DutToRef(q) = 1..1
  <2>1. DOMAIN DutToRef(q) = DOMAIN Sorted(T)
    BY DEF DutToRef
  <2> QED
    BY <1>8, <2>1
<1>10. Len(DutToRef(q)) = 1
  BY <1>9
<1> QED
  BY <1>10

(* From DUT to REF, later points map to later times, and the only point of *)
(* its DUT time maps to its REF time.                                      *)
LEMMA MapsBack ==
  ASSUME NEW q, Points(q), Len(q) >= 2, Len(DutToRef(q)) > 1
  PROVE  /\ \A k, j \in 1..Len(q) : q[k].dutTime < q[j].dutTime =>
                mapDutToRef(q, q[k].dutTime, "linear") < mapDutToRef(q, q[j].dutTime, "linear")
         /\ \A k \in 1..Len(q) : (\A j \in 1..Len(q) : q[j].dutTime = q[k].dutTime => q[j] = q[k]) =>
                mapDutToRef(q, q[k].dutTime, "linear") = q[k].refTime
<1> DEFINE n == Len(q)
           c == DutToRef(q)
           back(t) == mapDutToRef(q, t, "linear")
<1>1. /\ n \in Nat /\ DOMAIN q = 1..n
      /\ \A k \in 1..n : q[k].refTime \in Int /\ q[k].dutTime \in Int
      /\ \A i, j \in 1..n : i < j => q[i].refTime < q[j].refTime
      /\ \A i, j \in 1..n : i <= j => q[i].dutTime <= q[j].dutTime
  BY PointsRise
<1>2. /\ Curve(c)
      /\ \A k \in 1..n : \E m \in 1..Len(c) : c[m].input = q[k].dutTime
      /\ \A m \in 1..Len(c) : \E i, j \in 1..n :
            /\ q[i].dutTime = c[m].input /\ q[j].dutTime = c[m].input
            /\ q[i].refTime <= c[m].output /\ c[m].output <= q[j].refTime
  BY OneDutTime, DutToRefIs
<1>3. \A t : back(t) = interpolatePoints(c, t, "linear")
  BY DEF mapDutToRef
<1>4. \A m \in 1..Len(c) : interpolatePoints(c, c[m].input, "linear") = c[m].output /\ c[m].output \in Int
  BY <1>2, LinearAt, CurveRises
<1> HIDE DEF c, back
<1>5. ASSUME NEW k \in 1..n
      PROVE  /\ back(q[k].dutTime) \in Int
             /\ \E i, j \in 1..n :
                    /\ q[i].dutTime = q[k].dutTime /\ q[j].dutTime = q[k].dutTime
                    /\ q[i].refTime <= back(q[k].dutTime) /\ back(q[k].dutTime) <= q[j].refTime
  <2>1. PICK m \in 1..Len(c) : c[m].input = q[k].dutTime
    BY <1>2
  <2>2. back(q[k].dutTime) = c[m].output /\ c[m].output \in Int
    BY <1>3, <1>4, <2>1
  <2> QED
    BY <1>2, <2>1, <2>2
<1>6. ASSUME NEW k \in 1..n, NEW j \in 1..n, q[k].dutTime < q[j].dutTime
      PROVE  back(q[k].dutTime) < back(q[j].dutTime)
  <2>1. PICK a \in 1..n : q[a].dutTime = q[k].dutTime /\ back(q[k].dutTime) <= q[a].refTime
    BY <1>5
  <2>2. PICK b \in 1..n : q[b].dutTime = q[j].dutTime /\ q[b].refTime <= back(q[j].dutTime)
    BY <1>5
  <2>3. q[a].dutTime \in Int /\ q[b].dutTime \in Int /\ q[a].refTime \in Int /\ q[b].refTime \in Int
    BY <1>1
  <2>4. ~(b <= a)
    BY <1>1, <1>6, <2>1, <2>2, <2>3
  <2>5. a < b
    BY <1>1, <2>4
  <2>6. q[a].refTime < q[b].refTime
    BY <1>1, <2>5
  <2>7. back(q[k].dutTime) \in Int /\ back(q[j].dutTime) \in Int
    BY <1>5
  <2> QED
    BY <2>1, <2>2, <2>3, <2>6, <2>7
<1>7. ASSUME NEW k \in 1..n, \A j \in 1..n : q[j].dutTime = q[k].dutTime => q[j] = q[k]
      PROVE  back(q[k].dutTime) = q[k].refTime
  <2>1. PICK a \in 1..n : q[a].dutTime = q[k].dutTime /\ back(q[k].dutTime) <= q[a].refTime
    BY <1>5
  <2>2. PICK b \in 1..n : q[b].dutTime = q[k].dutTime /\ q[b].refTime <= back(q[k].dutTime)
    BY <1>5
  <2>3. q[a] = q[k] /\ q[b] = q[k]
    BY <1>7, <2>1, <2>2
  <2>4. q[k].refTime \in Int /\ back(q[k].dutTime) \in Int
    BY <1>1, <1>5
  <2>5. back(q[k].dutTime) <= q[k].refTime /\ q[k].refTime <= back(q[k].dutTime)
    BY <2>1, <2>2, <2>3
  <2> QED
    BY <2>4, <2>5
<1> QED
  BY <1>6, <1>7 DEF back

(* From REF to DUT, points map to themselves, times map in order, and the  *)
(* times that are clamped stay within the DUT times of the points.         *)
LEMMA MapsForward ==
  ASSUME NEW q, Points(q), NEW n, n = Len(q), n >= 2
  PROVE  /\ \A k \in 1..n : mapRefToDut(q, q[k].refTime, "linear") = q[k].dutTime
         /\ \A t, u \in Int : t <= u =>
                /\ mapRefToDut(q, t, "linear") <= mapRefToDut(q, u, "linear")
                /\ mapRefToDut(q, t, "clamp") \in Int /\ mapRefToDut(q, u, "clamp") \in Int
                /\ mapRefToDut(q, t, "clamp") <= mapRefToDut(q, u, "clamp")
                /\ q[1].dutTime <= mapRefToDut(q, t, "clamp") /\ mapRefToDut(q, u, "clamp") <= q[n].dutTime
<1> DEFINE c == RefToDut(q)
<1>1. /\ n \in Nat
      /\ Curve(c) /\ Len(c) = n
      /\ \A k \in 1..n : c[k].input = q[k].refTime /\ c[k].output = q[k].dutTime
  BY RefToDutIs, PointsRise
<1>2. \A t, e : mapRefToDut(q, t, e) = interpolatePoints(c, t, e)
  BY DEF mapRefToDut
<1> HIDE DEF c
<1>3. 1 \in 1..n /\ n \in 1..n
  BY <1>1
<1>4. ASSUME NEW k \in 1..n
      PROVE  mapRefToDut(q, q[k].refTime, "linear") = q[k].dutTime
  <2>1. interpolatePoints(c, c[k].input, "linear") = c[k].output
    BY <1>1, LinearAt
  <2> QED
    BY <1>1, <1>2, <2>1
<1>5. ASSUME NEW t \in Int, NEW u \in Int, t <= u
      PROVE  /\ interpolatePoints(c, t, "linear") <= interpolatePoints(c, u, "linear")
             /\ interpolatePoints(c, t, "clamp") \in Int /\ interpolatePoints(c, u, "clamp") \in Int
             /\ interpolatePoints(c, t, "clamp") <= interpolatePoints(c, u, "clamp")
             /\ c[1].output <= interpolatePoints(c, t, "clamp") /\ interpolatePoints(c, u, "clamp") <= c[n].output
  <2>1. interpolatePoints(c, t, "linear") <= interpolatePoints(c, u, "linear")
    BY <1>1, <1>5, LinearRises
  <2>2. /\ interpolatePoints(c, t, "clamp") \in Int /\ interpolatePoints(c, u, "clamp") \in Int
        /\ interpolatePoints(c, t, "clamp") <= interpolatePoints(c, u, "clamp")
        /\ c[1].output <= interpolatePoints(c, t, "clamp") /\ interpolatePoints(c, u, "clamp") <= c[n].output
    BY <1>1, <1>5, ClampedRises
  <2> QED
    BY <2>1, <2>2
<1>6. c[1].output = q[1].dutTime /\ c[n].output = q[n].dutTime
  BY <1>1, <1>3
<1>7. ASSUME NEW t \in Int, NEW u \in Int, t <= u
      PROVE  /\ mapRefToDut(q, t, "linear") <= mapRefToDut(q, u, "linear")
             /\ mapRefToDut(q, t, "clamp") \in Int /\ mapRefToDut(q, u, "clamp") \in Int
             /\ mapRefToDut(q, t, "clamp") <= mapRefToDut(q, u, "clamp")
             /\ q[1].dutTime <= mapRefToDut(q, t, "clamp") /\ mapRefToDut(q, u, "clamp") <= q[n].dutTime
  <2>1. /\ interpolatePoints(c, t, "linear") <= interpolatePoints(c, u, "linear")
        /\ interpolatePoints(c, t, "clamp") \in Int /\ interpolatePoints(c, u, "clamp") \in Int
        /\ interpolatePoints(c, t, "clamp") <= interpolatePoints(c, u, "clamp")
        /\ c[1].output <= interpolatePoints(c, t, "clamp") /\ interpolatePoints(c, u, "clamp") <= c[n].output
    BY <1>5, <1>7
  <2> QED
    BY <1>2, <1>6, <2>1
<1> QED
  BY <1>4, <1>7

-----------------------------------------------------------------------------
(* simplifyRdp splits every stretch that is too far off.                   *)

(* How far a point is off the line of a stretch.                           *)
Off(q, start, end, k) == perpendicularError(q[k], q[start], q[end])

(* The points kept and the stretches on the stack.                         *)
Stretches(n) == (1..n) \X (1..n)
Splits(n) == [keep : SUBSET (1..n), stack : Seq(Stretches(n))]

(* One step of simplifyRdp.                                                *)
Split(q, tolerance, v) ==
    LET start == Last(v.stack)[1]
        end == Last(v.stack)[2]
        between == (start + 1)..(end - 1)
        worst == Max({Off(q, start, end, k) : k \in between})
        at == Min({k \in between : Off(q, start, end, k) = worst})
    IN  IF between = {} \/ worst <= tolerance THEN [v EXCEPT !.stack = Front(@)]
        ELSE [keep |-> v.keep \cup {at}, stack |-> Front(v.stack) \o <<<<start, at>>, <<at, end>>>>]

(* No point inside a stretch is farther off than the tolerance.            *)
Near(q, tolerance, start, end) == \A k \in (start + 1)..(end - 1) : Off(q, start, end, k) <= tolerance

(* A distance off a line is a number.                                      *)
LEMMA OffIs ==
  ASSUME NEW q, Points(q), NEW n, n = Len(q), NEW start \in 1..n, NEW end \in 1..n, start < end, NEW k \in 1..n
  PROVE  Off(q, start, end, k) \in Int
<1>1. /\ n \in Nat
      /\ \A j \in 1..n : q[j].refTime \in Int /\ q[j].dutTime \in Int
      /\ \A i, j \in 1..n : i < j => q[i].refTime < q[j].refTime
      /\ \A i, j \in 1..n : i <= j => q[i].dutTime <= q[j].dutTime
  BY PointsRise
<1>2. PICK x1 \in Int : x1 = q[start].refTime
  BY <1>1
<1>3. PICK x2 \in Int : x2 = q[end].refTime
  BY <1>1
<1>4. PICK y1 \in Int : y1 = q[start].dutTime
  BY <1>1
<1>5. PICK y2 \in Int : y2 = q[end].dutTime
  BY <1>1
<1>6. PICK x \in Int : x = q[k].refTime
  BY <1>1
<1>7. PICK y \in Int : y = q[k].dutTime
  BY <1>1
<1>8. start <= end /\ x1 < x2 /\ y1 <= y2
  BY <1>1, <1>2, <1>3, <1>4, <1>5
<1>9. Off(q, start, end, k) = Distance(y, Line(x1, y1, x2, y2, x))
  BY <1>2, <1>3, <1>4, <1>5, <1>6, <1>7 DEF Off, perpendicularError
<1>10. Line(x1, y1, x2, y2, x) \in Int
  <2>1. x <= x
    OBVIOUS
  <2> QED
    BY <1>8, <2>1, LineRises
<1> QED
  BY <1>9, <1>10 DEF Distance

(* A sequence that is not empty has a last element after the others.       *)
LEMMA LastAndFront ==
  ASSUME NEW P, NEW stack, stack \in Seq(P), stack # <<>>
  PROVE  /\ Last(stack) \in P /\ Front(stack) \in Seq(P)
         /\ Len(stack) \in Nat /\ Len(stack) >= 1
         /\ Len(Front(stack)) = Len(stack) - 1
         /\ stack[Len(stack)] = Last(stack)
         /\ \A i \in 1..(Len(stack) - 1) : Front(stack)[i] = stack[i]
<1>1. Len(stack) \in Nat /\ Len(stack) >= 1
  OBVIOUS
<1>2. Last(stack) \in P
  BY <1>1 DEF Last
<1>3. Front(stack) = [i \in 1..(Len(stack) - 1) |-> stack[i]]
  BY <1>1 DEF Front
<1>4. Front(stack) \in Seq(P) /\ Len(Front(stack)) = Len(stack) - 1
  BY <1>1, <1>3
<1> QED
  BY <1>1, <1>2, <1>3, <1>4 DEF Last

(* A stack without its last stretch, or with that split in two.            *)
Popped(v) == [keep |-> v.keep, stack |-> Front(v.stack)]
Pushed(v, start, at, end) ==
    [keep |-> v.keep \cup {at}, stack |-> Front(v.stack) \o <<<<start, at>>, <<at, end>>>>]

(* What becomes of the last stretch.                                       *)
SplitOf(q, tolerance, v, start, end, w) ==
    \/ Near(q, tolerance, start, end) /\ w = Popped(v)
    \/ \E at \in (start + 1)..(end - 1) : w = Pushed(v, start, at, end)

(* A step takes the last stretch from the stack: either no point inside is *)
(* too far off, or the stretch is split at one of them.                    *)
LEMMA SplitIs ==
  ASSUME NEW q, Points(q), NEW n, n = Len(q), NEW tolerance \in Int,
         NEW v \in Splits(n), NEW stack, stack = v.stack, stack # <<>>,
         NEW start, start = Last(stack)[1], NEW end, end = Last(stack)[2], start < end
  PROVE  /\ start \in 1..n /\ end \in 1..n
         /\ SplitOf(q, tolerance, v, start, end, Split(q, tolerance, v))
<1> DEFINE between == (start + 1)..(end - 1)
           f == [k \in between |-> Off(q, start, end, k)]
           worst == Max({f[k] : k \in between})
           at == Min({k \in between : f[k] = worst})
<1>1. n \in Nat
  BY PointsRise
<1>2. stack \in Seq(Stretches(n))
  BY DEF Splits
<1>3. Last(stack) \in Stretches(n)
  BY <1>2, LastAndFront
<1>4. start \in 1..n /\ end \in 1..n
  BY <1>3 DEF Stretches
<1>5. between \in SUBSET (1..n) /\ between \in SUBSET Int /\ IsFiniteSet(between)
  <2>1. start + 1 \in Int /\ end - 1 \in Int
    BY <1>1, <1>4
  <2>2. IsFiniteSet(between)
    BY <2>1, FS_Interval
  <2>3. between \in SUBSET (1..n) /\ between \in SUBSET Int
    BY <1>1, <1>4
  <2> QED
    BY <2>2, <2>3
<1>6. \A k \in between : Off(q, start, end, k) \in Int /\ f[k] = Off(q, start, end, k)
  BY <1>4, <1>5, OffIs
<1>7. f \in [between -> Int]
  BY <1>6
<1>8. {f[k] : k \in between} = {Off(q, start, end, k) : k \in between}
  BY <1>6
<1>10. Split(q, tolerance, v) =
         IF between = {} \/ worst <= tolerance THEN [v EXCEPT !.stack = Front(stack)]
         ELSE [keep |-> v.keep \cup {at}, stack |-> Front(stack) \o <<<<start, at>>, <<at, end>>>>]
  <2> DEFINE most == Max({Off(q, start, end, k) : k \in between})
             first == Min({k \in between : Off(q, start, end, k) = most})
  <2>1. Split(q, tolerance, v) =
          IF between = {} \/ most <= tolerance THEN [v EXCEPT !.stack = Front(stack)]
          ELSE [keep |-> v.keep \cup {first}, stack |-> Front(stack) \o <<<<start, first>>, <<first, end>>>>]
    BY DEF Split
  <2>2. most = worst
    BY <1>8
  <2> HIDE DEF most, worst
  <2>3. first = at
    BY <1>6, <2>2
  <2> HIDE DEF first, at
  <2> QED
    BY <2>1, <2>2, <2>3
<1>11. [v EXCEPT !.stack = Front(stack)] = [keep |-> v.keep, stack |-> Front(stack)]
  BY DEF Splits
<1>12. CASE between = {}
  <2>1. Near(q, tolerance, start, end)
    BY <1>12 DEF Near
  <2> QED
    BY <1>4, <1>10, <1>11, <1>12, <2>1 DEF SplitOf, Popped
<1>13. CASE between # {} /\ worst <= tolerance
  <2>1. {f[k] : k \in between} \in SUBSET Int /\ IsFiniteSet({f[k] : k \in between})
    <3> HIDE DEF f, between
    <3> QED
      BY <1>5, <1>7, FiniteImage
  <2>2. {f[k] : k \in between} # {}
    BY <1>13
  <2>3. worst \in Int /\ \A x \in {f[k] : k \in between} : x <= worst
    <3> HIDE DEF f, between
    <3> QED
      BY <2>1, <2>2, MaxIs
  <2> HIDE DEF worst
  <2>4. \A k \in between : f[k] <= worst /\ f[k] \in Int
    BY <1>6, <2>3
  <2>5. \A k \in between : Off(q, start, end, k) <= tolerance
    <3> TAKE k \in between
    <3>1. f[k] <= worst /\ f[k] \in Int /\ Off(q, start, end, k) = f[k]
      BY <1>6, <2>4
    <3> HIDE DEF f, between
    <3> QED
      BY <1>13, <2>3, <3>1
  <2>6. Near(q, tolerance, start, end)
    BY <2>5 DEF Near
  <2> HIDE DEF between, at
  <2> QED
    BY <1>4, <1>10, <1>11, <1>13, <2>6 DEF SplitOf, Popped
<1>14. CASE between # {} /\ ~(worst <= tolerance)
  <2>1. at \in between
    <3> HIDE DEF f, between
    <3> QED
      BY <1>5, <1>7, <1>14, WorstIs
  <2>2. Split(q, tolerance, v) =
            [keep |-> v.keep \cup {at}, stack |-> Front(stack) \o <<<<start, at>>, <<at, end>>>>]
    BY <1>10, <1>14
  <2> HIDE DEF at
  <2>3. Split(q, tolerance, v) = Pushed(v, start, at, end)
    BY <2>2 DEF Pushed
  <2> QED
    BY <1>4, <2>1, <2>3 DEF SplitOf
<1> QED
  BY <1>12, <1>13, <1>14

(* Two points that are kept, and none between them.                        *)
Neighbours(keep, a, b) ==
    /\ a \in keep /\ b \in keep /\ a < b
    /\ \A x \in keep : x <= a \/ b <= x

(* The stretches on the stack are from one point kept to the next, in      *)
(* order; of the others no point inside is too far off.                    *)
Splitting(q, tolerance, n, v) ==
    /\ v \in Splits(n)
    /\ 1 \in v.keep /\ n \in v.keep
    /\ \A i \in 1..Len(v.stack) : Neighbours(v.keep, v.stack[i][1], v.stack[i][2])
    /\ \A i, j \in 1..Len(v.stack) : i < j => v.stack[i][2] <= v.stack[j][1]
    /\ \A a, b \in v.keep : Neighbours(v.keep, a, b) =>
            Near(q, tolerance, a, b) \/ \E i \in 1..Len(v.stack) : v.stack[i] = <<a, b>>

(* A stack without its last stretch is still one of these.                 *)
LEMMA PopKeeps ==
  ASSUME NEW q, NEW tolerance, NEW n \in Nat, NEW v, Splitting(q, tolerance, n, v), v.stack # <<>>,
         NEW start, start = Last(v.stack)[1], NEW end, end = Last(v.stack)[2],
         Near(q, tolerance, start, end)
  PROVE  Splitting(q, tolerance, n, Popped(v))
<1> DEFINE P == Stretches(n)
           l == Len(v.stack)
<1>1. /\ v.stack \in Seq(P) /\ v.keep \in SUBSET (1..n) /\ 1 \in v.keep /\ n \in v.keep
      /\ \A i \in 1..l : Neighbours(v.keep, v.stack[i][1], v.stack[i][2])
      /\ \A i, j \in 1..l : i < j => v.stack[i][2] <= v.stack[j][1]
      /\ \A a, b \in v.keep : Neighbours(v.keep, a, b) =>
            Near(q, tolerance, a, b) \/ \E i \in 1..l : v.stack[i] = <<a, b>>
  BY DEF Splitting, Splits
<1> DEFINE stack == v.stack
           keep == v.keep
           rest == Front(v.stack)
<1>2. /\ rest \in Seq(P) /\ l \in Nat /\ l >= 1
      /\ Len(rest) = l - 1 /\ stack[l] = Last(stack)
      /\ \A i \in 1..(l - 1) : rest[i] = stack[i]
  <2>1. stack \in Seq(P) /\ stack # <<>>
    BY <1>1
  <2> HIDE DEF P, stack
  <2> QED
    BY <2>1, LastAndFront DEF stack
<1> DEFINE w == [keep |-> keep, stack |-> rest]
<1>3. w \in Splits(n)
  <2> HIDE DEF P, keep, rest
  <2> QED
    BY <1>1, <1>2 DEF Splits, P, keep
<1>4. w.keep = keep /\ w.stack = rest
  OBVIOUS
<1> HIDE DEF P, stack, keep, rest, l, w
<1>5. \A i \in 1..(l - 1) : i \in 1..l
  BY <1>2
<1>6. \A i \in 1..(l - 1) : Neighbours(keep, rest[i][1], rest[i][2])
  BY <1>1, <1>2, <1>5 DEF keep, stack
<1>7. \A i, j \in 1..(l - 1) : i < j => rest[i][2] <= rest[j][1]
  BY <1>1, <1>2, <1>5 DEF stack
<1>8. ASSUME NEW a \in keep, NEW b \in keep, Neighbours(keep, a, b), ~Near(q, tolerance, a, b)
      PROVE  \E i \in 1..(l - 1) : rest[i] = <<a, b>>
  <2>1. PICK i \in 1..l : stack[i] = <<a, b>>
    BY <1>1, <1>8 DEF keep, stack
  <2>2. i # l
    <3> SUFFICES ASSUME i = l PROVE FALSE
      OBVIOUS
    <3>1. start = a /\ end = b
      BY <1>2, <2>1 DEF stack
    <3> QED
      BY <1>8, <3>1
  <2>3. i \in 1..(l - 1)
    BY <1>2, <2>2
  <2> QED
    BY <1>2, <2>1, <2>3
<1>9. Splitting(q, tolerance, n, w)
  <2>1. 1 \in keep /\ n \in keep
    BY <1>1 DEF keep
  <2>2. Len(w.stack) = l - 1
    BY <1>2, <1>4
  <2>3. \A i \in 1..Len(w.stack) : Neighbours(w.keep, w.stack[i][1], w.stack[i][2])
    BY <1>4, <1>6, <2>2
  <2>4. \A i, j \in 1..Len(w.stack) : i < j => w.stack[i][2] <= w.stack[j][1]
    BY <1>4, <1>7, <2>2
  <2>5. \A a, b \in w.keep : Neighbours(w.keep, a, b) =>
            Near(q, tolerance, a, b) \/ \E i \in 1..Len(w.stack) : w.stack[i] = <<a, b>>
    BY <1>4, <1>8, <2>2
  <2> QED
    BY <1>3, <1>4, <2>1, <2>3, <2>4, <2>5 DEF Splitting
<1> QED
  BY <1>9 DEF w, keep, rest, Popped

(* The stretches of a stack whose last one is split in two.                *)
LEMMA TwoMore ==
  ASSUME NEW P, NEW rest \in Seq(P), NEW x \in P, NEW y \in P,
         NEW stack, stack = rest \o <<x, y>>, NEW m, m = Len(rest)
  PROVE  /\ stack \in Seq(P) /\ m \in Nat /\ Len(stack) = m + 2
         /\ \A i \in 1..m : stack[i] = rest[i]
         /\ stack[m + 1] = x /\ stack[m + 2] = y
<1>1. <<x, y>> \in Seq(P) /\ Len(<<x, y>>) = 2 /\ <<x, y>>[1] = x /\ <<x, y>>[2] = y
  OBVIOUS
<1>2. m \in Nat
  OBVIOUS
<1>3. stack \in Seq(P) /\ Len(stack) = m + 2
  BY <1>1
<1>4. \A i \in 1..m : stack[i] = rest[i]
  BY <1>1, <1>2
<1>5. stack[m + 1] = <<x, y>>[1] /\ stack[m + 2] = <<x, y>>[2]
  BY <1>1, <1>2
<1> QED
  BY <1>1, <1>2, <1>3, <1>4, <1>5

(* A stack with its last stretch split in two is still one of these.       *)
LEMMA PushKeeps ==
  ASSUME NEW q, NEW tolerance, NEW n \in Nat, NEW v, Splitting(q, tolerance, n, v), v.stack # <<>>,
         NEW start \in 1..n, start = Last(v.stack)[1], NEW end \in 1..n, end = Last(v.stack)[2],
         NEW at \in (start + 1)..(end - 1)
  PROVE  /\ at \in 1..n /\ at \notin v.keep
         /\ Splitting(q, tolerance, n, Pushed(v, start, at, end))
<1> DEFINE P == Stretches(n)
           l == Len(v.stack)
<1>1. /\ v.stack \in Seq(P) /\ v.keep \in SUBSET (1..n) /\ 1 \in v.keep /\ n \in v.keep
      /\ \A i \in 1..l : Neighbours(v.keep, v.stack[i][1], v.stack[i][2])
      /\ \A i, j \in 1..l : i < j => v.stack[i][2] <= v.stack[j][1]
      /\ \A a, b \in v.keep : Neighbours(v.keep, a, b) =>
            Near(q, tolerance, a, b) \/ \E i \in 1..l : v.stack[i] = <<a, b>>
  BY DEF Splitting, Splits
<1> DEFINE stack == v.stack
           keep == v.keep
           more == v.keep \cup {at}
           rest == Front(v.stack)
           new == Front(v.stack) \o <<<<start, at>>, <<at, end>>>>
<1>2. /\ rest \in Seq(P) /\ l \in Nat /\ l >= 1
      /\ Len(rest) = l - 1 /\ stack[l] = Last(stack) /\ Last(stack) \in P
      /\ \A i \in 1..(l - 1) : rest[i] = stack[i]
  <2>1. stack \in Seq(P) /\ stack # <<>>
    BY <1>1
  <2> HIDE DEF P, stack
  <2> QED
    BY <2>1, LastAndFront DEF stack
<1>3. at \in 1..n /\ at \in Int /\ start < at /\ at < end /\ start \in Int /\ end \in Int
  OBVIOUS
<1>4. <<start, at>> \in P /\ <<at, end>> \in P
  BY <1>3 DEF Stretches
<1>5. /\ new \in Seq(P) /\ Len(new) = l + 1
      /\ \A i \in 1..(l - 1) : new[i] = stack[i]
      /\ new[l] = <<start, at>> /\ new[l + 1] = <<at, end>>
  <2> DEFINE x == <<start, at>>  y == <<at, end>>
  <2>1. x \in P /\ y \in P /\ new = rest \o <<x, y>>
    BY <1>4
  <2> HIDE DEF P, rest, new, x, y
  <2> DEFINE m == Len(rest)
  <2>4. rest \in Seq(P) /\ m = Len(rest)
    BY <1>2
  <2> HIDE DEF m
  <2>5. /\ new \in Seq(P) /\ m \in Nat /\ Len(new) = m + 2
        /\ \A i \in 1..m : new[i] = rest[i]
        /\ new[m + 1] = x /\ new[m + 2] = y
    BY <2>1, <2>4, TwoMore
  <2>2. /\ new \in Seq(P) /\ l - 1 \in Nat /\ Len(new) = (l - 1) + 2
        /\ \A i \in 1..(l - 1) : new[i] = rest[i]
        /\ new[(l - 1) + 1] = x /\ new[(l - 1) + 2] = y
    <3>1. m = l - 1
      BY <1>2, <2>4
    <3> QED
      BY <2>5, <3>1
  <2> HIDE DEF l
  <2>3. (l - 1) + 2 = l + 1 /\ (l - 1) + 1 = l
    BY <1>2
  <2> QED
    BY <1>2, <2>2, <2>3 DEF x, y
<1> DEFINE w == [keep |-> more, stack |-> new]
<1>6. w \in Splits(n) /\ w.keep = more /\ w.stack = new
  <2>1. more \in SUBSET (1..n)
    BY <1>1, <1>3
  <2> HIDE DEF P, more, new
  <2> QED
    BY <1>5, <2>1 DEF Splits, P
<1>7. stack[l][1] = start /\ stack[l][2] = end
  BY <1>2
<1>8. /\ start \in keep /\ end \in keep /\ \A x \in keep : x <= start \/ end <= x
      /\ \A x \in keep : x \in Int
  <2>1. l \in 1..l
    BY <1>2
  <2>2. Neighbours(keep, start, end)
    BY <1>1, <1>7, <2>1
  <2> QED
    BY <1>1, <2>2 DEF Neighbours
<1> HIDE DEF P, stack, keep, rest, l, w, new
<1>9. \A x \in more : x \in keep \/ x = at
  BY DEF keep
<1>10. at \notin keep
  BY <1>3, <1>8
<1>11. ASSUME NEW i \in 1..(l - 1)
       PROVE  /\ i \in 1..l /\ i < l
              /\ Neighbours(keep, stack[i][1], stack[i][2])
              /\ stack[i][1] \in Int /\ stack[i][2] \in Int
              /\ stack[i][2] <= start
  <2>1. i \in 1..l /\ i < l /\ l \in 1..l
    BY <1>2
  <2>2. Neighbours(keep, stack[i][1], stack[i][2]) /\ stack[i][2] <= stack[l][1]
    BY <1>1, <2>1 DEF keep, stack
  <2>3. stack[i][1] \in Int /\ stack[i][2] \in Int
    BY <1>8, <2>2 DEF Neighbours
  <2> QED
    BY <1>7, <2>1, <2>2, <2>3
<1>12. ASSUME NEW i \in 1..(l - 1)
       PROVE  Neighbours(more, stack[i][1], stack[i][2])
  <2>1. /\ stack[i][1] \in keep /\ stack[i][2] \in keep /\ stack[i][1] < stack[i][2]
        /\ \A x \in keep : x <= stack[i][1] \/ stack[i][2] <= x
    BY <1>11 DEF Neighbours
  <2>2. stack[i][2] <= at
    BY <1>3, <1>11
  <2>3. \A x \in more : x <= stack[i][1] \/ stack[i][2] <= x
    BY <1>9, <2>1, <2>2
  <2>4. stack[i][1] \in more /\ stack[i][2] \in more
    BY <2>1 DEF keep
  <2> QED
    BY <2>1, <2>3, <2>4 DEF Neighbours
<1>13. Neighbours(more, start, at) /\ Neighbours(more, at, end)
  <2>1. start \in more /\ end \in more /\ at \in more
    BY <1>8 DEF keep
  <2>2. \A x \in more : (x <= start \/ at <= x) /\ (x <= at \/ end <= x)
    <3> TAKE x \in more
    <3>1. CASE x = at
      BY <1>3, <3>1
    <3>2. CASE x \in keep
      <4>1. (x <= start \/ end <= x) /\ x \in Int
        BY <1>8, <3>2
      <4> QED
        BY <1>3, <4>1
    <3> QED
      BY <1>9, <3>1, <3>2
  <2> HIDE DEF more
  <2> QED
    BY <1>3, <2>1, <2>2 DEF Neighbours
<1>14. \A i \in 1..(l + 1) : i \in 1..(l - 1) \/ i = l \/ i = l + 1
  BY <1>2
<1>15. \A i \in 1..(l + 1) : Neighbours(more, new[i][1], new[i][2])
  <2> TAKE i \in 1..(l + 1)
  <2>1. CASE i \in 1..(l - 1)
    BY <1>5, <1>12, <2>1
  <2>2. CASE i = l
    BY <1>5, <1>13, <2>2
  <2>3. CASE i = l + 1
    BY <1>5, <1>13, <2>3
  <2> QED
    BY <1>14, <2>1, <2>2, <2>3
<1>16. \A i, j \in 1..(l + 1) : i < j => new[i][2] <= new[j][1]
  <2> TAKE i, j \in 1..(l + 1)
  <2> HAVE i < j
  <2>1. CASE i \in 1..(l - 1)
    <3>1. new[i] = stack[i] /\ stack[i][2] <= start /\ stack[i][2] \in Int
      BY <1>5, <1>11, <2>1
    <3>2. CASE j \in 1..(l - 1)
      <4>1. new[j] = stack[j] /\ j \in 1..l /\ i \in 1..l
        BY <1>5, <1>11, <2>1, <3>2
      <4> QED
        BY <1>1, <3>1, <4>1 DEF stack
    <3>3. CASE j = l
      BY <1>5, <3>1, <3>3
    <3>4. CASE j = l + 1
      <4>1. new[j][1] = at
        BY <1>5, <3>4
      <4> QED
        BY <1>3, <3>1, <4>1
    <3> QED
      BY <1>14, <3>2, <3>3, <3>4
  <2>2. CASE ~(i \in 1..(l - 1))
    <3>1. i = l /\ j = l + 1
      BY <1>2, <1>14, <2>2
    <3>2. new[i][2] = at /\ new[j][1] = at
      BY <1>5, <3>1
    <3> QED
      BY <1>3, <3>2
  <2> QED
    BY <2>1, <2>2
<1>17. ASSUME NEW a \in more, NEW b \in more, Neighbours(more, a, b), ~Near(q, tolerance, a, b)
       PROVE  \E i \in 1..(l + 1) : new[i] = <<a, b>>
  <2>1. a < b /\ \A x \in more : x <= a \/ b <= x
    BY <1>17 DEF Neighbours
  <2>2. start \in more /\ end \in more /\ at \in more
    BY <1>8 DEF keep
  <2>3. a \in Int /\ b \in Int
    BY <1>3, <1>8, <1>9
  <2>4. l \in 1..(l + 1) /\ l + 1 \in 1..(l + 1)
    BY <1>2
  <2>5. CASE a = at
    <3>1. b <= end
      BY <1>3, <2>1, <2>2, <2>5
    <3>2. b # at /\ b \in keep
      BY <1>9, <2>1, <2>3, <2>5
    <3>3. end <= b
      BY <1>3, <1>8, <2>1, <2>3, <2>5, <3>2
    <3>4. b = end
      BY <1>3, <2>3, <3>1, <3>3
    <3> QED
      BY <1>5, <2>4, <2>5, <3>4
  <2>6. CASE b = at
    <3>1. start <= a
      BY <1>3, <2>1, <2>2, <2>3, <2>6
    <3>2. a # at /\ a \in keep
      BY <1>9, <2>1, <2>3, <2>6
    <3>3. a <= start
      BY <1>3, <1>8, <2>1, <2>3, <2>6, <3>2
    <3>4. a = start
      BY <1>3, <2>3, <3>1, <3>3
    <3> QED
      BY <1>5, <2>4, <2>6, <3>4
  <2>7. CASE a # at /\ b # at
    <3>1. a \in keep /\ b \in keep
      BY <1>9, <2>7
    <3>2. \A x \in keep : x <= a \/ b <= x
      BY <2>1 DEF keep
    <3>3. Neighbours(keep, a, b)
      BY <2>1, <3>1, <3>2 DEF Neighbours
    <3>4. PICK i \in 1..l : stack[i] = <<a, b>>
      BY <1>1, <1>17, <3>1, <3>3 DEF keep, stack
    <3>5. i # l
      <4> SUFFICES ASSUME i = l PROVE FALSE
        OBVIOUS
      <4>1. a = start /\ b = end
        BY <1>7, <3>4
      <4>2. at <= start \/ end <= at
        BY <2>1, <2>2, <4>1
      <4> QED
        BY <1>3, <4>2
    <3>6. i \in 1..(l - 1) /\ i \in 1..(l + 1)
      BY <1>2, <3>5
    <3> QED
      BY <1>5, <3>4, <3>6
  <2> QED
    BY <2>5, <2>6, <2>7
<1>18. 1 \in more /\ n \in more
  BY <1>1
<1> HIDE DEF more
<1>19. Splitting(q, tolerance, n, w)
  <2>1. Len(w.stack) = l + 1
    BY <1>5, <1>6
  <2>2. \A i \in 1..Len(w.stack) : Neighbours(w.keep, w.stack[i][1], w.stack[i][2])
    BY <1>6, <1>15, <2>1
  <2>3. \A i, j \in 1..Len(w.stack) : i < j => w.stack[i][2] <= w.stack[j][1]
    BY <1>6, <1>16, <2>1
  <2>4. \A a, b \in w.keep : Neighbours(w.keep, a, b) =>
            Near(q, tolerance, a, b) \/ \E i \in 1..Len(w.stack) : w.stack[i] = <<a, b>>
    BY <1>6, <1>17, <2>1
  <2> QED
    BY <1>6, <1>18, <2>2, <2>3, <2>4 DEF Splitting
<1> QED
  BY <1>3, <1>10, <1>19 DEF w, keep, more, new, Pushed

(* What is left to do: two steps for each point that may still be kept and *)
(* one for each stretch on the stack.                                      *)
Left(n, v) == 2 * (n - Cardinality(v.keep)) + Len(v.stack)

(* Something is left of a stack that is not empty.                         *)
LEMMA SomethingLeft ==
  ASSUME NEW n \in Nat, NEW v \in Splits(n)
  PROVE  /\ IsFiniteSet(v.keep) /\ Cardinality(v.keep) \in Nat /\ Len(v.stack) \in Nat
         /\ Left(n, v) \in Int /\ Left(n, v) >= Len(v.stack)
<1>1. v.keep \in SUBSET (1..n) /\ v.stack \in Seq(Stretches(n))
  BY DEF Splits
<1>2. IsFiniteSet(1..n) /\ Cardinality(1..n) = n
  <2>1. 1 \in Int /\ n \in Int
    OBVIOUS
  <2>2. IsFiniteSet(1..n)
    BY <2>1, FS_Interval
  <2>3. Cardinality(1..n) = IF 1 > n THEN 0 ELSE n - 1 + 1
    BY <2>1, FS_Interval
  <2> QED
    BY <2>2, <2>3
<1>3. IsFiniteSet(v.keep) /\ Cardinality(v.keep) <= n
  BY <1>1, <1>2, FS_Subset
<1>4. Cardinality(v.keep) \in Nat
  BY <1>3, FS_CardinalityType
<1>5. Len(v.stack) \in Nat
  BY <1>1
<1> QED
  BY <1>3, <1>4, <1>5 DEF Left

(* A step keeps the stack as it was described, and leaves less to do.      *)
LEMMA SplitKeeps ==
  ASSUME NEW q, Points(q), NEW n, n = Len(q), NEW tolerance \in Int,
         NEW v, Splitting(q, tolerance, n, v), v.stack # <<>>,
         NEW w, w = Split(q, tolerance, v)
  PROVE  Splitting(q, tolerance, n, w) /\ Left(n, w) = Left(n, v) - 1
<1> DEFINE l == Len(v.stack)
           start == Last(v.stack)[1]
           end == Last(v.stack)[2]
<1>1. n \in Nat
  BY PointsRise
<1>2. /\ v \in Splits(n) /\ v.stack \in Seq(Stretches(n)) /\ v.keep \in SUBSET (1..n)
      /\ \A i \in 1..l : Neighbours(v.keep, v.stack[i][1], v.stack[i][2])
  BY DEF Splitting, Splits
<1>3. /\ l \in Nat /\ l >= 1 /\ v.stack[l] = Last(v.stack)
      /\ Front(v.stack) \in Seq(Stretches(n)) /\ Len(Front(v.stack)) = l - 1
  <2> DEFINE stack == v.stack
             P == Stretches(n)
  <2>1. stack \in Seq(P) /\ stack # <<>>
    BY <1>2
  <2> HIDE DEF stack, P
  <2> QED
    BY <2>1, LastAndFront DEF stack, P
<1>4. Neighbours(v.keep, start, end)
  <2>1. l \in 1..l
    BY <1>3
  <2> QED
    BY <1>2, <1>3, <2>1
<1>5. start < end
  BY <1>4 DEF Neighbours
<1>6. start \in 1..n /\ end \in 1..n /\ SplitOf(q, tolerance, v, start, end, w)
  <2>1. /\ v \in Splits(n) /\ start = Last(v.stack)[1] /\ end = Last(v.stack)[2]
    BY <1>2
  <2> HIDE DEF start, end
  <2> QED
    BY <1>5, <2>1, SplitIs
<1>7. IsFiniteSet(v.keep) /\ Cardinality(v.keep) \in Nat
  BY <1>1, <1>2, SomethingLeft
<1> HIDE DEF start, end
<1>8. CASE Near(q, tolerance, start, end) /\ w = Popped(v)
  <2>1. Splitting(q, tolerance, n, w)
    BY <1>1, <1>8, PopKeeps DEF start, end
  <2>2. w.keep = v.keep /\ Len(w.stack) = l - 1
    BY <1>3, <1>8 DEF Popped
  <2> HIDE DEF l
  <2>3. Left(n, w) = 2 * (n - Cardinality(v.keep)) + (l - 1) /\ Left(n, v) = 2 * (n - Cardinality(v.keep)) + l
    BY <2>2 DEF Left, l
  <2> QED
    BY <1>1, <1>3, <1>7, <2>1, <2>3
<1>9. ASSUME NEW at \in (start + 1)..(end - 1), w = Pushed(v, start, at, end)
      PROVE  Splitting(q, tolerance, n, w) /\ Left(n, w) = Left(n, v) - 1
  <2>1. at \in 1..n /\ at \notin v.keep /\ Splitting(q, tolerance, n, w)
    <3>1. start = Last(v.stack)[1] /\ end = Last(v.stack)[2] /\ start \in 1..n /\ end \in 1..n
      BY <1>6 DEF start, end
    <3>2. at \in 1..n /\ at \notin v.keep /\ Splitting(q, tolerance, n, Pushed(v, start, at, end))
      <4>1. PICK s \in 1..n, e \in 1..n : s = start /\ e = end
        BY <1>6
      <4>2. s = Last(v.stack)[1] /\ e = Last(v.stack)[2] /\ at \in (s + 1)..(e - 1)
        BY <1>9, <3>1, <4>1
      <4>3. at \in 1..n /\ at \notin v.keep /\ Splitting(q, tolerance, n, Pushed(v, s, at, e))
        <5>1. n \in Nat /\ Splitting(q, tolerance, n, v) /\ v.stack # <<>>
          BY <1>1
        <5>2. at \in 1..n
          BY <4>2, <5>1
        <5>3. at \notin v.keep
          <6>1. \A x \in v.keep : x <= s \/ e <= x
            BY <1>4, <4>1 DEF Neighbours
          <6> QED
            BY <4>2, <6>1
        <5>4. Splitting(q, tolerance, n, Pushed(v, s, at, e))
          BY <4>2, <5>1, PushKeeps
        <5> QED
          BY <5>2, <5>3, <5>4
      <4> QED
        BY <4>1, <4>3
    <3> QED
      BY <1>9, <3>2
  <2>2. Cardinality(w.keep) = Cardinality(v.keep) + 1
    <3>1. Cardinality(v.keep \cup {at}) = Cardinality(v.keep) + 1
      BY <1>7, <2>1, FS_AddElement
    <3> QED
      BY <1>9, <3>1 DEF Pushed
  <2>3. Len(w.stack) = l + 1
    <3> DEFINE P == Stretches(n)
               rest == Front(v.stack)
               x == <<start, at>>
               y == <<at, end>>
    <3>1. x \in P /\ y \in P
      BY <1>6, <2>1 DEF Stretches
    <3>2. w.stack = rest \o <<x, y>> /\ rest \in Seq(P)
      BY <1>3, <1>9 DEF Pushed
    <3> HIDE DEF P, rest, x, y
    <3>3. Len(w.stack) = Len(rest) + 2
      BY <3>1, <3>2, TwoMore
    <3> QED
      BY <1>3, <3>3 DEF rest
  <2> HIDE DEF l
  <2>4. Left(n, w) = 2 * (n - (Cardinality(v.keep) + 1)) + (l + 1) /\ Left(n, v) = 2 * (n - Cardinality(v.keep)) + l
    BY <2>2, <2>3 DEF Left, l
  <2>5. Left(n, w) = Left(n, v) - 1
    <3>1. PICK c \in Int : c = Cardinality(v.keep)
      BY <1>7
    <3>2. Left(n, w) = 2 * (n - (c + 1)) + (l + 1) /\ Left(n, v) = 2 * (n - c) + l
      BY <2>4, <3>1
    <3>3. n \in Int /\ l \in Int
      BY <1>1, <1>3
    <3> QED
      BY <3>2, <3>3
  <2> QED
    BY <2>1, <2>5
<1> QED
  BY <1>6, <1>8, <1>9 DEF SplitOf

(* A step makes a stack of stretches from one.                             *)
LEMMA SplitTyped ==
  ASSUME NEW q, Points(q), NEW n, n = Len(q), NEW tolerance \in Int,
         NEW v, v \in Splits(n), v.stack # <<>>
  PROVE  Split(q, tolerance, v) \in Splits(n)
<1> DEFINE P == Stretches(n)
           stack == v.stack
           rest == Front(v.stack)
           start == Last(v.stack)[1]
           end == Last(v.stack)[2]
<1>1. n \in Nat /\ v.keep \in SUBSET (1..n) /\ stack \in Seq(P)
  BY PointsRise DEF Splits
<1>2. Last(stack) \in P /\ rest \in Seq(P)
  <2>1. stack # <<>>
    OBVIOUS
  <2> HIDE DEF stack, P
  <2> QED
    BY <1>1, <2>1, LastAndFront DEF stack
<1>3. start \in 1..n /\ end \in 1..n
  BY <1>2 DEF Stretches
<1>4. Popped(v) \in Splits(n)
  <2> HIDE DEF P, rest
  <2> QED
    BY <1>1, <1>2 DEF Splits, Popped, P, rest
<1>5. CASE start < end
  <2>1. SplitOf(q, tolerance, v, start, end, Split(q, tolerance, v))
    <3>1. start = Last(v.stack)[1] /\ end = Last(v.stack)[2]
      OBVIOUS
    <3> HIDE DEF start, end
    <3> QED
      BY <1>5, <3>1, SplitIs
  <2>2. ASSUME NEW at \in (start + 1)..(end - 1)
        PROVE  Pushed(v, start, at, end) \in Splits(n)
    <3> DEFINE x == <<start, at>>
               y == <<at, end>>
    <3>1. at \in 1..n
      BY <1>1, <1>3
    <3>2. x \in P /\ y \in P
      BY <1>3, <3>1 DEF Stretches
    <3>3. rest \o <<x, y>> \in Seq(P)
      <4> HIDE DEF P, rest, x, y
      <4> QED
        BY <1>2, <3>2, TwoMore
    <3>4. Pushed(v, start, at, end) = [keep |-> v.keep \cup {at}, stack |-> rest \o <<x, y>>]
      BY DEF Pushed
    <3>5. v.keep \cup {at} \in SUBSET (1..n)
      BY <1>1, <3>1
    <3> HIDE DEF P, rest, x, y
    <3> QED
      BY <3>3, <3>4, <3>5 DEF Splits, P
  <2> QED
    BY <1>4, <2>1, <2>2 DEF SplitOf
<1>6. CASE ~(start < end)
  <2>1. (start + 1)..(end - 1) = {}
    BY <1>1, <1>3, <1>6
  <2>2. Split(q, tolerance, v) = [v EXCEPT !.stack = rest]
    BY <2>1 DEF Split
  <2>3. [v EXCEPT !.stack = rest] = Popped(v)
    BY DEF Splits, Popped
  <2> QED
    BY <1>4, <2>2, <2>3
<1> QED
  BY <1>5, <1>6

(* Two numbers are two.                                                    *)
LEMMA PairIsTwo ==
  ASSUME NEW a, NEW b, b # a
  PROVE  Cardinality({a} \cup {b}) = 2
<1>1. IsFiniteSet({a}) /\ Cardinality({a}) = 1
  BY FS_Singleton
<1>2. Cardinality({a} \cup {b}) = IF b \in {a} THEN Cardinality({a}) ELSE Cardinality({a}) + 1
  BY <1>1, FS_AddElement
<1> QED BY <1>1, <1>2

(* simplifyRdp starts with one stretch, from the first to the last point.  *)
LEMMA FirstSplit ==
  ASSUME NEW q, NEW tolerance, NEW n \in Nat, n >= 2,
         NEW v, v = [keep |-> {1, n}, stack |-> <<<<1, n>>>>]
  PROVE  v \in Splits(n) /\ Splitting(q, tolerance, n, v) /\ Left(n, v) = 2 * n - 3
<1>1. v \in Splits(n)
  <2> DEFINE P == Stretches(n)
             x == <<1, n>>
  <2>1. x \in P /\ {1, n} \in SUBSET (1..n)
    BY DEF Stretches
  <2> HIDE DEF P, x
  <2>2. <<x>> \in Seq(P)
    BY <2>1
  <2>3. v = [keep |-> {1, n}, stack |-> <<x>>]
    BY DEF x
  <2> QED
    BY <2>1, <2>2, <2>3 DEF Splits, P
<1>2. v.keep = {1, n} /\ Len(v.stack) = 1 /\ v.stack[1] = <<1, n>> /\ v.stack[1][1] = 1 /\ v.stack[1][2] = n
  OBVIOUS
<1>3. Neighbours(v.keep, 1, n)
  BY <1>2 DEF Neighbours
<1>4. \A a, b \in v.keep : Neighbours(v.keep, a, b) => a = 1 /\ b = n
  BY <1>2 DEF Neighbours
<1>5. Splitting(q, tolerance, n, v)
  <2>1. \A i \in 1..Len(v.stack) : i = 1
    BY <1>2
  <2>2. \A i \in 1..Len(v.stack) : Neighbours(v.keep, v.stack[i][1], v.stack[i][2])
    BY <1>2, <1>3, <2>1
  <2>3. \A i, j \in 1..Len(v.stack) : i < j => v.stack[i][2] <= v.stack[j][1]
    BY <2>1
  <2>4. 1 \in 1..Len(v.stack)
    BY <1>2
  <2>5. \A a, b \in v.keep : Neighbours(v.keep, a, b) =>
            Near(q, tolerance, a, b) \/ \E i \in 1..Len(v.stack) : v.stack[i] = <<a, b>>
    BY <1>2, <1>4, <2>4
  <2>6. 1 \in v.keep /\ n \in v.keep
    BY <1>2
  <2> QED
    BY <1>1, <2>2, <2>3, <2>5, <2>6 DEF Splitting
<1>6. Cardinality(v.keep) = 2
  <2>1. n # 1
    OBVIOUS
  <2>2. Cardinality({1} \cup {n}) = 2
    BY <2>1, PairIsTwo
  <2>3. v.keep = {1} \cup {n}
    BY <1>2
  <2> QED
    BY <2>2, <2>3
<1>7. Left(n, v) = 2 * (n - 2) + 1
  BY <1>2, <1>6 DEF Left
<1> QED
  BY <1>1, <1>5, <1>7

(* The points kept: the first and the last, and between two that follow    *)
(* each other no point is farther off than the tolerance.                  *)
LEMMA KeptNear ==
  ASSUME NEW q, Points(q), NEW n, n = Len(q), n >= 2, NEW tolerance \in Int,
         NEW keep, keep = Kept(q, tolerance)
  PROVE  /\ keep \in SUBSET (1..n) /\ 1 \in keep /\ n \in keep
         /\ \A a, b \in keep : Neighbours(keep, a, b) => Near(q, tolerance, a, b)
<1> DEFINE V == Splits(n)
           next == [step \in 1..(2 * n) |-> [v \in V |-> IF v.stack = <<>> THEN v ELSE Split(q, tolerance, v)]]
           initial == [keep |-> {1, n}, stack |-> <<<<1, n>>>>]
           L == Loop(0, 2 * n, initial, next)
<1>1. n \in Nat /\ n >= 2 /\ 2 * n \in Nat
  BY PointsRise
<1>2. keep = L[2 * n].keep
  BY DEF Kept, Split, Splits, Stretches, Off
<1>3. initial \in V /\ Splitting(q, tolerance, n, initial) /\ Left(n, initial) = 2 * n - 3
  BY <1>1, FirstSplit
<1>4. next \in [1..(2 * n) -> [V -> V]]
  <2>1. \A v \in V : (IF v.stack = <<>> THEN v ELSE Split(q, tolerance, v)) \in V
    BY SplitTyped
  <2> HIDE DEF V
  <2> QED
    BY <2>1
<1>5. \A k \in 1..(2 * n) : \A v \in V : next[k][v] = IF v.stack = <<>> THEN v ELSE Split(q, tolerance, v)
  OBVIOUS
<1> HIDE DEF V, next, initial
<1>6. /\ L \in [0..(2 * n) -> V] /\ L[0] = initial
      /\ \A k \in 1..(2 * n) : L[k] = next[k][L[k - 1]]
  BY SMTT(30), <1>1, <1>3, <1>4, LoopFromZero
<1> HIDE DEF L
<1> DEFINE S == {k \in 0..(2 * n) :
                    /\ Splitting(q, tolerance, n, L[k])
                    /\ L[k].stack = <<>> \/ Left(n, L[k]) = 2 * n - 3 - k}
<1>7. 0 \in S
  BY <1>1, <1>3, <1>6
<1>8. ASSUME NEW k \in 1..(2 * n), k - 1 \in S PROVE k \in S
  <2>1. k \in 0..(2 * n) /\ k - 1 \in 0..(2 * n) /\ k \in Int
    BY <1>1
  <2>2. L[k - 1] \in V /\ Splitting(q, tolerance, n, L[k - 1])
    BY <1>6, <1>8, <2>1
  <2>3. L[k] = IF L[k - 1].stack = <<>> THEN L[k - 1] ELSE Split(q, tolerance, L[k - 1])
    BY <1>5, <1>6, <2>2
  <2>4. CASE L[k - 1].stack = <<>>
    BY <2>1, <2>2, <2>3, <2>4
  <2>5. CASE L[k - 1].stack # <<>>
    <3>1. Left(n, L[k - 1]) = 2 * n - 3 - (k - 1)
      BY <1>8, <2>5
    <3>2. L[k] = Split(q, tolerance, L[k - 1])
      BY <2>3, <2>5
    <3>3. Splitting(q, tolerance, n, L[k]) /\ Left(n, L[k]) = Left(n, L[k - 1]) - 1
      <4> DEFINE v == L[k - 1]
                 w == L[k]
      <4>1. Splitting(q, tolerance, n, v) /\ v.stack # <<>> /\ w = Split(q, tolerance, v)
        BY <2>2, <2>5, <3>2
      <4> HIDE DEF v, w
      <4>2. Splitting(q, tolerance, n, w) /\ Left(n, w) = Left(n, v) - 1
        BY <4>1, SplitKeeps
      <4> QED
        BY <4>2 DEF v, w
    <3>4. Left(n, L[k]) = 2 * n - 3 - k
      BY <1>1, <2>1, <3>1, <3>3
    <3> QED
      BY <2>1, <3>3, <3>4
  <2> QED
    BY <2>4, <2>5
<1>9. \A k \in 0..(2 * n) : k \in S
  <2> HIDE DEF S
  <2> QED
    BY <1>1, <1>7, <1>8, Induction
<1> DEFINE w == L[2 * n]
<1>10. Splitting(q, tolerance, n, w) /\ (w.stack = <<>> \/ Left(n, w) = 2 * n - 3 - 2 * n)
  BY <1>1, <1>9
<1> HIDE DEF w
<1>11. w.stack = <<>>
  <2>1. w \in Splits(n)
    BY <1>10 DEF Splitting
  <2>2. Left(n, w) >= Len(w.stack) /\ Len(w.stack) \in Nat /\ Left(n, w) \in Int
    BY <1>1, <2>1, SomethingLeft
  <2> QED
    BY <1>1, <1>10, <2>2
<1>12. /\ w.keep \in SUBSET (1..n) /\ 1 \in w.keep /\ n \in w.keep
       /\ \A a, b \in w.keep : Neighbours(w.keep, a, b) => Near(q, tolerance, a, b)
  <2>1. Len(w.stack) = 0
    BY <1>11
  <2>2. ~ \E i \in 1..Len(w.stack) : TRUE
    BY <2>1
  <2> QED
    BY <1>10, <2>2 DEF Splitting, Splits
<1> QED
  BY <1>2, <1>12 DEF w

-----------------------------------------------------------------------------
(* What is drawn from points is near to them.                              *)

(* Sorted begins with the least element, ends with the greatest, and has   *)
(* no element between two that follow each other.                          *)
LEMMA SortedEnds ==
  ASSUME NEW S \in SUBSET Int, IsFiniteSet(S), NEW a \in S, NEW b \in S, a < b,
         \A x \in S : a <= x /\ x <= b,
         NEW m, m = Cardinality(S), NEW f, f = Sorted(S)
  PROVE  /\ m \in Nat /\ m >= 2 /\ f \in [1..m -> S]
         /\ f[1] = a /\ f[m] = b
         /\ \A j, k \in 1..m : j < k => f[j] < f[k]
         /\ \A k \in 2..m : Neighbours(S, f[k - 1], f[k])
<1>1. /\ m \in Nat /\ f \in [1..m -> S]
      /\ \A j, k \in 1..m : j < k => f[j] < f[k]
  BY SortedIs
<1>2. \A x \in S : \E k \in 1..m : f[k] = x
  BY SortedOnto
<1>3. \A k \in 1..m : f[k] \in S /\ f[k] \in Int
  BY <1>1
<1>4. PICK i \in 1..m : f[i] = a
  BY <1>2
<1>5. PICK j \in 1..m : f[j] = b
  BY <1>2
<1>6. i = 1
  <2> SUFFICES ASSUME i # 1 PROVE FALSE
    OBVIOUS
  <2>1. 1 \in 1..m /\ 1 < i
    BY <1>1
  <2>2. f[1] < f[i] /\ f[1] \in S /\ f[1] \in Int /\ f[i] \in Int
    BY <1>1, <1>3, <2>1
  <2> QED
    BY <1>4, <2>2
<1>7. j = m
  <2> SUFFICES ASSUME j # m PROVE FALSE
    OBVIOUS
  <2>1. m \in 1..m /\ j < m
    BY <1>1
  <2>2. f[j] < f[m] /\ f[m] \in S /\ f[m] \in Int /\ f[j] \in Int
    BY <1>1, <1>3, <2>1
  <2> QED
    BY <1>5, <2>2
<1>8. m >= 2
  <2>1. 1 # m
    BY <1>4, <1>5, <1>6, <1>7
  <2> QED
    BY <1>1, <1>6, <2>1
<1>9. ASSUME NEW k \in 2..m
      PROVE  Neighbours(S, f[k - 1], f[k])
  <2>1. k - 1 \in 1..m /\ k \in 1..m /\ k - 1 < k
    BY <1>1
  <2>2. f[k - 1] < f[k] /\ f[k - 1] \in S /\ f[k] \in S
    BY <1>1, <1>3, <2>1
  <2>3. \A x \in S : x <= f[k - 1] \/ f[k] <= x
    <3> TAKE x \in S
    <3>1. PICK l \in 1..m : f[l] = x
      BY <1>2
    <3>2. f[l] \in Int /\ f[k] \in Int /\ f[k - 1] \in Int
      BY <1>3, <2>1
    <3>3. l < k - 1 \/ l = k - 1 \/ l = k \/ k < l
      BY <1>1
    <3>4. l < k - 1 => f[l] < f[k - 1]
      BY <1>1, <2>1
    <3>5. k < l => f[k] < f[l]
      BY <1>1, <2>1
    <3> QED
      BY <3>1, <3>2, <3>3, <3>4, <3>5
  <2> QED
    BY <2>2, <2>3 DEF Neighbours
<1> QED
  BY <1>1, <1>4, <1>5, <1>6, <1>7, <1>8, <1>9

(* Where an index is among rising indices from the first to the last.      *)
LEMMA Bracketed ==
  ASSUME NEW m \in Nat, m >= 2, NEW f \in [1..m -> Int], NEW k \in Int, f[1] <= k, k <= f[m]
  PROVE  \E j \in 2..m : f[j - 1] <= k /\ k <= f[j]
<1> DEFINE J == {j \in 2..m : k <= f[j]}
           j == Min(J)
<1>1. J \in SUBSET Int /\ m \in J
  OBVIOUS
<1>2. IsFiniteSet(J)
  <2>1. IsFiniteSet(2..m)
    BY FS_Interval
  <2>2. J \subseteq 2..m
    OBVIOUS
  <2> QED
    BY <2>1, <2>2, FS_Subset
<1>3. j \in J /\ \A i \in J : j <= i
  <2>1. J # {}
    BY <1>1
  <2> HIDE DEF J
  <2> QED
    BY <1>1, <1>2, <2>1, MinIs
<1> HIDE DEF j
<1>4. f[j - 1] <= k
  <2>1. CASE j = 2
    BY <2>1
  <2>2. CASE j # 2
    <3>1. j - 1 \in 2..m /\ j - 1 \in 1..m /\ ~(j <= j - 1)
      BY <1>3, <2>2
    <3>2. j - 1 \notin J
      BY <1>3, <3>1
    <3>3. f[j - 1] \in Int /\ ~(k <= f[j - 1])
      BY <3>1, <3>2
    <3> QED
      BY <3>3
  <2> QED
    BY <2>1, <2>2
<1> QED
  BY <1>3, <1>4

(* A distance is the same both ways, and none from a number to itself.     *)
LEMMA DistanceIs ==
  ASSUME NEW x \in Int, NEW y \in Int
  PROVE  Distance(x, y) = Distance(y, x) /\ Distance(x, x) = 0 /\ Distance(x, y) \in Nat
BY DEF Distance

(* Points map to themselves when they are clamped, too.                    *)
LEMMA ClampedAt ==
  ASSUME NEW q, Points(q), NEW n, n = Len(q), n >= 2, NEW k \in 1..n
  PROVE  mapRefToDut(q, q[k].refTime, "clamp") = q[k].dutTime
<1> DEFINE c == RefToDut(q)
<1>1. /\ n \in Nat
      /\ Curve(c) /\ Len(c) = n
      /\ \A j \in 1..n : c[j].input = q[j].refTime /\ c[j].output = q[j].dutTime
  BY RefToDutIs, PointsRise
<1>2. mapRefToDut(q, q[k].refTime, "clamp") = interpolatePoints(c, q[k].refTime, "clamp")
  BY DEF mapRefToDut
<1> HIDE DEF c
<1>3. /\ \A i \in 1..n : c[i].input \in Int
      /\ \A a, b \in 1..n : a <= b => c[a].input <= c[b].input
  BY <1>1, CurveRises
<1>4. 1 \in 1..n /\ n \in 1..n /\ 1 <= k /\ k <= n
  BY <1>1
<1>5. c[1].input <= c[k].input /\ c[k].input <= c[n].input /\ c[k].input \in Int
  BY <1>3, <1>4
<1>6. interpolatePoints(c, c[k].input, "clamp") = interpolatePoints(c, c[k].input, "linear")
  BY <1>1, <1>5, ClampedIs
<1>7. interpolatePoints(c, c[k].input, "linear") = c[k].output
  BY <1>1, LinearAt
<1> QED
  BY <1>1, <1>2, <1>6, <1>7

(* Some of the points in their order, the first and the last among them.   *)
Drawn(c, q) ==
    /\ Points(c) /\ Len(c) >= 2
    /\ c[1] = q[1] /\ c[Len(c)] = q[Len(q)]
    /\ \A k \in 1..Len(c) : \E j \in 1..Len(q) : c[k] = q[j]

(* All the points are some of them.                                        *)
LEMMA DrawnItself ==
  ASSUME NEW q, Points(q), Len(q) >= 2
  PROVE  Drawn(q, q)
BY DEF Drawn

(* Points drawn by rising indices from the first to the last.              *)
LEMMA DrawnIs ==
  ASSUME NEW q, Points(q), NEW m \in Nat, m >= 2, NEW f \in [1..m -> 1..Len(q)],
         \A j, k \in 1..m : j < k => f[j] < f[k], f[1] = 1, f[m] = Len(q),
         NEW c, c = [k \in 1..m |-> q[f[k]]]
  PROVE  Drawn(c, q) /\ Len(c) = m
<1>1. Points(c) /\ Len(c) = m
  <2>1. Points([k \in 1..m |-> q[f[k]]]) /\ Len([k \in 1..m |-> q[f[k]]]) = m
    BY ZenonT(60), ChosenPoints
  <2> QED
    BY <2>1
<1>2. \A k \in 1..m : c[k] = q[f[k]] /\ f[k] \in 1..Len(q)
  OBVIOUS
<1>3. c[1] = q[1] /\ c[m] = q[Len(q)]
  BY <1>2
<1> QED
  BY <1>1, <1>2, <1>3 DEF Drawn

(* Points drawn from points that were drawn.                               *)
LEMMA DrawnTwice ==
  ASSUME NEW a, NEW b, NEW c, Drawn(b, a), Drawn(c, b)
  PROVE  Drawn(c, a)
<1>1. \A k \in 1..Len(c) : \E j \in 1..Len(a) : c[k] = a[j]
  <2> TAKE k \in 1..Len(c)
  <2>1. PICK i \in 1..Len(b) : c[k] = b[i]
    BY DEF Drawn
  <2>2. PICK j \in 1..Len(a) : b[i] = a[j]
    BY DEF Drawn
  <2> QED
    BY <2>1, <2>2
<1> QED
  BY <1>1 DEF Drawn

(* Simplified points begin and end where the points do, and map the time   *)
(* of each of the points as near to it as the tolerance allows.            *)
LEMMA SimplifiedFollows ==
  ASSUME NEW q, Points(q), NEW n, n = Len(q), n >= 2, NEW tolerance \in Nat,
         NEW s, s = simplifyRdp(q, tolerance)
  PROVE  /\ Drawn(s, q)
         /\ \A k \in 1..n : Distance(mapRefToDut(s, q[k].refTime, "clamp"), q[k].dutTime) <= tolerance
<1> DEFINE keep == Kept(q, tolerance)
           m == Cardinality(keep)
           f == Sorted(keep)
<1>1. /\ n \in Nat /\ DOMAIN q = 1..n
      /\ \A k \in 1..n : q[k].refTime \in Int /\ q[k].dutTime \in Int
      /\ \A i, j \in 1..n : i < j => q[i].refTime < q[j].refTime
      /\ \A i, j \in 1..n : i <= j => q[i].dutTime <= q[j].dutTime
  BY PointsRise
<1>2. CASE n <= 2 \/ tolerance <= 0
  <2>1. s = q
    BY <1>2 DEF simplifyRdp
  <2>2. \A k \in 1..n : Distance(mapRefToDut(q, q[k].refTime, "clamp"), q[k].dutTime) = 0
    BY <1>1, ClampedAt, DistanceIs
  <2>3. Drawn(q, q)
    BY DrawnItself
  <2> QED
    BY <2>1, <2>2, <2>3
<1>3. CASE ~(n <= 2 \/ tolerance <= 0)
  <2>1. s = [k \in DOMAIN f |-> q[f[k]]]
    BY <1>3 DEF simplifyRdp
  <2>2. /\ keep \in SUBSET (1..n) /\ 1 \in keep /\ n \in keep
        /\ \A a, b \in keep : Neighbours(keep, a, b) => Near(q, tolerance, a, b)
    BY KeptNear
  <2> HIDE DEF keep
  <2>3. keep \in SUBSET Int /\ IsFiniteSet(keep) /\ 1 < n /\ \A x \in keep : 1 <= x /\ x <= n
    <3>1. IsFiniteSet(1..n)
      BY <1>1, FS_Interval
    <3>2. IsFiniteSet(keep)
      BY <2>2, <3>1, FS_Subset
    <3> QED
      BY <1>1, <2>2, <3>2
  <2>4. /\ m \in Nat /\ m >= 2 /\ f \in [1..m -> keep]
        /\ f[1] = 1 /\ f[m] = n
        /\ \A j, k \in 1..m : j < k => f[j] < f[k]
        /\ \A k \in 2..m : Neighbours(keep, f[k - 1], f[k])
    BY <2>2, <2>3, SortedEnds
  <2> HIDE DEF m, f
  <2>5. \A j \in 1..m : f[j] \in keep /\ f[j] \in 1..n
    BY <2>2, <2>4
  <2>6. s = [j \in 1..m |-> q[f[j]]]
    BY <2>1, <2>4
  <2>7. Drawn(s, q) /\ Points(s) /\ Len(s) = m
    <3>1. PICK g \in [1..m -> 1..Len(q)] : g = f
      BY <2>4, <2>5
    <3>2. /\ s = [j \in 1..m |-> q[g[j]]] /\ g[1] = 1 /\ g[m] = Len(q)
          /\ \A j, k \in 1..m : j < k => g[j] < g[k]
      BY <2>4, <2>6, <3>1
    <3>3. Drawn(s, q)
      BY <2>4, <3>2, DrawnIs
    <3>4. Len(s) = m
      BY <2>4, <3>2, DrawnIs
    <3> QED
      BY <3>3, <3>4 DEF Drawn
  <2>9. ASSUME NEW k \in 1..n
        PROVE  Distance(mapRefToDut(s, q[k].refTime, "clamp"), q[k].dutTime) <= tolerance
    <3>1. PICK j \in 2..m : f[j - 1] <= k /\ k <= f[j]
      <4>1. f \in [1..m -> Int]
        BY <2>3, <2>4
      <4>2. f[1] <= k /\ k <= f[m] /\ k \in Int
        BY <1>1, <2>4
      <4> QED
        BY <2>4, <4>1, <4>2, Bracketed
    <3>2. j - 1 \in 1..m /\ j \in 1..m
      BY <2>4
    <3> DEFINE a == f[j - 1]
               b == f[j]
    <3>3. a \in 1..n /\ b \in 1..n /\ a \in keep /\ b \in keep /\ s[j - 1] = q[a] /\ s[j] = q[b]
      BY <2>5, <2>6, <3>2
    <3> HIDE DEF a, b
    <3>4. CASE k = a
      <4>1. mapRefToDut(s, s[j - 1].refTime, "clamp") = s[j - 1].dutTime
        BY <2>4, <2>7, <3>2, ClampedAt
      <4>2. mapRefToDut(s, q[k].refTime, "clamp") = q[k].dutTime /\ q[k].dutTime \in Int
        BY <1>1, <3>3, <3>4, <4>1
      <4>3. Distance(q[k].dutTime, q[k].dutTime) = 0
        BY <4>2, DistanceIs
      <4> QED
        BY <4>2, <4>3
    <3>5. CASE k = b
      <4>1. mapRefToDut(s, s[j].refTime, "clamp") = s[j].dutTime
        BY <2>4, <2>7, <3>2, ClampedAt
      <4>2. mapRefToDut(s, q[k].refTime, "clamp") = q[k].dutTime /\ q[k].dutTime \in Int
        BY <1>1, <3>3, <3>5, <4>1
      <4>3. Distance(q[k].dutTime, q[k].dutTime) = 0
        BY <4>2, DistanceIs
      <4> QED
        BY <4>2, <4>3
    <3>6. CASE k # a /\ k # b
      <4>1. a < k /\ k < b
        BY <1>1, <3>1, <3>3, <3>6 DEF a, b
      <4>2. Near(q, tolerance, a, b)
        BY <2>2, <2>4, <3>3 DEF a, b
      <4>3. Off(q, a, b, k) <= tolerance
        <5>1. k \in (a + 1)..(b - 1)
          BY <1>1, <3>3, <4>1
        <5> QED
          BY <4>2, <5>1 DEF Near
      <4> DEFINE c == RefToDut(s)
      <4>4. /\ Curve(c) /\ Len(c) = m
            /\ c[j - 1].input = q[a].refTime /\ c[j - 1].output = q[a].dutTime
            /\ c[j].input = q[b].refTime /\ c[j].output = q[b].dutTime
        <5>1. /\ Curve(c) /\ Len(c) = Len(s)
              /\ \A i \in 1..Len(s) : c[i].input = s[i].refTime /\ c[i].output = s[i].dutTime
          BY <2>4, <2>7, RefToDutIs
        <5> QED
          BY <2>7, <3>2, <3>3, <5>1
      <4>5. mapRefToDut(s, q[k].refTime, "clamp") = interpolatePoints(c, q[k].refTime, "clamp")
        BY DEF mapRefToDut
      <4> HIDE DEF c
      <4> DEFINE x == q[k].refTime
                 y == LineAt(c, j, x)
      <4>6. x \in Int /\ c[j - 1].input <= x /\ x <= c[j].input
        <5>1. q[a].refTime < q[k].refTime /\ q[k].refTime < q[b].refTime
          BY <1>1, <3>3, <4>1
        <5>2. q[a].refTime \in Int /\ q[k].refTime \in Int /\ q[b].refTime \in Int
          BY <1>1, <3>3
        <5> QED
          BY <4>4, <5>1, <5>2
      <4> HIDE DEF x
      <4>7. interpolatePoints(c, x, "clamp") = y
        BY <4>4, <4>6, ClampedInSegment
      <4>8. y = Line(q[a].refTime, q[a].dutTime, q[b].refTime, q[b].dutTime, x)
        BY <4>4 DEF LineAt
      <4>9. y \in Int /\ q[k].dutTime \in Int
        BY <1>1, <4>4, <4>6, LinesOf
      <4>10. Off(q, a, b, k) = Distance(q[k].dutTime, y)
        BY <4>8 DEF Off, perpendicularError, x
      <4> HIDE DEF y
      <4> QED
        BY <4>3, <4>5, <4>7, <4>9, <4>10, DistanceIs DEF x
    <3> QED
      BY <3>4, <3>5, <3>6
  <2> QED
    BY <2>7, <2>9
<1> QED
  BY <1>2, <1>3

(* A whole number is what it is rounded to.                                *)
LEMMA RoundIs ==
  ASSUME NEW w \in Nat \ {0}, NEW d \in Nat
  PROVE  Round(0, w) = 0 /\ Round(w * d, w) = d
<1> DEFINE y == 2 * w
           z == 2 * (w * d) + w
<1>1. y \in Nat \ {0} /\ z \in Int /\ w \in Int /\ 0 * y <= w /\ w < y
  OBVIOUS
<1>2. Round(0, w) = w \div y /\ Round(w * d, w) = z \div y
  BY DEF Round
<1>3. d * y = 2 * (w * d) /\ (d + 1) * y = 2 * (w * d) + y
  OBVIOUS
<1>4. d * y \in Int /\ d * y <= z /\ z < (d + 1) * y
  BY <1>1, <1>3
<1> HIDE DEF y, z
<1>5. \A x, k \in Int : k * y <= x /\ x < (k + 1) * y => x \div y = k
  <2> TAKE x, k \in Int
  <2> HAVE k * y <= x /\ x < (k + 1) * y
  <2>1. k <= x \div y /\ x \div y \in Int /\ (x \div y) * y <= x
    BY <1>1, QuotientAtLeast, Quotient
  <2>2. ~(k + 1 <= x \div y)
    <3> SUFFICES ASSUME k + 1 <= x \div y PROVE FALSE
      OBVIOUS
    <3>1. (k + 1) * y <= (x \div y) * y /\ (k + 1) * y \in Int /\ (x \div y) * y \in Int
      BY <1>1, <2>1, Products
    <3> QED
      BY <2>1, <3>1
  <2> QED
    BY <2>1, <2>2
<1>6. w \div y = 0
  <2>1. (0 + 1) * y = y
    BY <1>1
  <2> QED
    BY <1>1, <1>5, <2>1
<1>7. z \div y = d
  BY <1>1, <1>4, <1>5
<1> QED
  BY <1>2, <1>6, <1>7

(* Points cut to a limit are some of the points.                           *)
LEMMA CappedFollows ==
  ASSUME NEW q, Points(q), Len(q) >= 2, NEW maximum \in Nat, maximum >= 2, NEW c, c = capPoints(q, maximum)
  PROVE  Drawn(c, q) /\ Len(c) <= maximum
<1> DEFINE n == Len(q)
           w == maximum - 1
           x(k) == (k - 1) * (n - 1)
           f == [k \in 1..maximum |-> 1 + Round(x(k), w)]
<1>1. n \in Nat
  BY PointsRise
<1> HIDE DEF n
<1>2. CASE n <= maximum
  <2>1. c = q
    BY <1>2 DEF capPoints, n
  <2>2. Drawn(q, q)
    BY <1>1, DrawnItself
  <2> QED
    BY <1>2, <2>1, <2>2 DEF n
<1>3. CASE ~(n <= maximum)
  <2>1. w \in Nat \ {0} /\ n \in Nat /\ n - 1 \in Nat /\ n - 1 >= w + 1 /\ maximum = w + 1
    BY <1>1, <1>3
  <2>2. capPoints(q, maximum) = [k \in 1..maximum |-> q[f[k]]]
    <3>1. capPoints(q, maximum) = [k \in 1..maximum |-> q[1 + Round((k - 1) * (Len(q) - 1), maximum - 1)]]
      BY <1>3 DEF capPoints, n
    <3> QED BY <3>1 DEF n
  <2> HIDE DEF w
  <2> DEFINE d == n - 1
             y == 2 * w
  <2>3. d \in Nat /\ y \in Nat \ {0} /\ d >= w
    BY <2>1
  <2>4. ASSUME NEW k \in 1..maximum
        PROVE  /\ x(k) \in Nat /\ 2 * x(k) + w \in Int
               /\ f[k] = 1 + (2 * x(k) + w) \div y
               /\ f[k] \in 1..n
    <3>1. k \in Int /\ k - 1 \in Nat /\ k - 1 <= w
      BY <2>1
    <3>2. x(k) = (k - 1) * d
      OBVIOUS
    <3> DEFINE j == k - 1
    <3>3. j \in Nat /\ j <= w /\ x(k) = j * d
      BY <3>1, <3>2
    <3>4. f[k] = 1 + (2 * x(k) + w) \div y
      BY DEF Round
    <3> HIDE DEF j, x, d, y, f
    <3>5. x(k) \in Nat /\ x(k) <= w * d /\ w * d \in Int
      BY <2>1, <2>3, <3>3, Products
    <3> DEFINE z == 2 * x(k) + w
    <3>6. z \in Int /\ 0 <= z
      BY <2>1, <3>5
    <3>7. z < (d + 1) * y
      <4>1. (d + 1) * y = 2 * (w * d) + 2 * w
        BY <2>1, <2>3 DEF y
      <4> QED BY <2>1, <3>5, <4>1
    <3>8. z \div y \in Int /\ (z \div y) * y <= z
      BY <2>3, <3>6, Quotient
    <3> HIDE DEF z
    <3>9. 0 <= z \div y
      <4>1. 0 * y <= z
        BY <2>3, <3>6
      <4> QED BY <2>3, <3>6, <4>1, QuotientAtLeast
    <3>10. z \div y <= d
      <4>1. CASE d + 1 <= z \div y
        <5>1. (d + 1) * y <= (z \div y) * y
          BY <2>3, <3>8, <4>1, Products
        <5>2. (d + 1) * y \in Int /\ (z \div y) * y \in Int
          BY <2>3, <3>8
        <5> QED BY <3>6, <3>7, <3>8, <5>1, <5>2
      <4> QED BY <2>3, <3>8, <4>1
    <3>11. f[k] = 1 + z \div y
      BY <3>4 DEF z
    <3>12. f[k] \in 1..n
      BY <2>1, <3>8, <3>9, <3>10, <3>11 DEF d
    <3> QED BY <3>4, <3>5, <3>6, <3>12 DEF z
  <2>5. ASSUME NEW k \in 2..maximum PROVE f[k - 1] < f[k]
    <3>1. k \in 1..maximum /\ k - 1 \in 1..maximum
      OBVIOUS
    <3> DEFINE u == 2 * x(k - 1) + w
               v == 2 * x(k) + w
    <3>2. x(k) = x(k - 1) + d
      <4>1. (k - 1) * d = (k - 2) * d + d
        BY <2>3
      <4> QED BY <4>1
    <3>3. u \in Int /\ v \in Int /\ f[k - 1] = 1 + u \div y /\ f[k] = 1 + v \div y
      BY <2>4, <3>1
    <3>4. x(k) \in Nat /\ x(k - 1) \in Nat
      BY <2>4, <3>1
    <3> HIDE DEF x, d, f
    <3>5. u + y <= v
      BY <2>1, <2>3, <3>2, <3>4
    <3> HIDE DEF u, v, y
    <3>6. u \div y < v \div y /\ u \div y \in Int /\ v \div y \in Int
      BY <2>3, <3>3, <3>5, QuotientRises, Quotient
    <3> QED BY <3>3, <3>6
  <2>6. f \in [1..maximum -> 1..n]
    <3>1. f = [k \in 1..maximum |-> f[k]]
      OBVIOUS
    <3>2. \A k \in 1..maximum : f[k] \in 1..n
      BY <2>4
    <3> HIDE DEF f
    <3> QED BY <3>1, <3>2
  <2> HIDE DEF f
  <2>7. \A j, k \in 1..maximum : j < k => f[j] < f[k]
    <3>1. f \in [1..maximum -> Int] /\ 1 \in Int /\ maximum \in Int
      BY <2>1, <2>6
    <3>2. \A i \in (1 + 1)..maximum : f[i - 1] < f[i]
      BY <2>5
    <3>3. \A i, j \in 1..maximum : i <= j => f[j] - f[i] >= j - i
      BY <3>1, <3>2, AscendingGaps
    <3> TAKE j, k \in 1..maximum
    <3>4. f[j] \in Int /\ f[k] \in Int /\ j \in Int /\ k \in Int
      BY <3>1
    <3>5. j <= k => f[k] - f[j] >= k - j
      BY <3>3
    <3> QED BY <3>4, <3>5
  <2>8. f \in [1..maximum -> 1..Len(q)]
    BY <2>6 DEF n
  <2>9. f[1] = 1 /\ f[maximum] = n
    <3>1. f[1] = 1 + Round(0, w) /\ f[maximum] = 1 + Round(w * d, w)
      <4>1. 1 \in 1..maximum /\ maximum \in 1..maximum /\ maximum - 1 = w
        BY <2>1
      <4>2. f[1] = 1 + Round(x(1), w) /\ f[maximum] = 1 + Round(x(maximum), w)
        BY <4>1 DEF f
      <4>3. x(1) = 0 /\ x(maximum) = w * d
        BY <2>1, <2>3, <4>1
      <4> QED
        BY <4>2, <4>3
    <3>2. Round(0, w) = 0 /\ Round(w * d, w) = d
      <4> HIDE DEF d
      <4> QED
        BY <2>1, <2>3, RoundIs
    <3> QED
      BY <2>1, <3>1, <3>2
  <2>10. maximum >= 2 /\ maximum \in Nat
    OBVIOUS
  <2>11. c = [k \in 1..maximum |-> q[f[k]]] /\ f[1] = 1 /\ f[maximum] = Len(q)
    BY <2>2, <2>9 DEF n
  <2>12. Drawn(c, q) /\ Len(c) = maximum
    <3>1. PICK g \in [1..maximum -> 1..Len(q)] : g = f
      BY <2>8
    <3>2. /\ c = [k \in 1..maximum |-> q[g[k]]] /\ g[1] = 1 /\ g[maximum] = Len(q)
          /\ \A j, k \in 1..maximum : j < k => g[j] < g[k]
      BY <2>7, <2>11, <3>1
    <3>3. Drawn(c, q)
      BY <2>10, <3>2, DrawnIs
    <3>4. Len(c) = maximum
      BY <2>10, <3>2, DrawnIs
    <3> QED
      BY <3>3, <3>4
  <2> QED
    BY <2>10, <2>12
<1> QED BY <1>2, <1>3

(* A path makes a mapping, whatever the tolerance and the limit.           *)
LEMMA PathsMap ==
  ASSUME NEW p, PathOfTimes(p), NEW tolerance \in Nat, NEW maximum \in Nat, maximum >= 2
  PROVE  /\ Len(Collapsed(p)) >= 2
         /\ Ascending(capPoints(simplifyRdp(Collapsed(p), tolerance), maximum))
<1> DEFINE q == Collapsed(p)
           r == simplifyRdp(q, tolerance)
<1>1. Points(q) /\ Len(q) >= 2
  BY CollapsedIs
<1> HIDE DEF q
<1>2. Points(r) /\ Len(r) >= 2
  BY <1>1, SimplifiedFollows DEF Drawn
<1> HIDE DEF r
<1>3. Points(capPoints(r, maximum))
  BY <1>2, CappedFollows DEF Drawn
<1> QED BY <1>1, <1>3 DEF q, r, Points

-----------------------------------------------------------------------------
(* Times a nanosecond apart stay so when they are sampled.                 *)

(* The times of a series, and times of which no two are nearer.             *)
Stamps(s) == {s.timestamps[i] : i \in DOMAIN s.timestamps}
Spaced(times) == \A x, y \in times : x < y => x + Unit <= y

(* Values that rise by a nanosecond at every index rise by as many as      *)
(* there are indices between two.                                          *)
LEMMA SpacedGaps ==
  ASSUME NEW a \in Int, NEW b \in Int, NEW f \in [a..b -> Int],
         \A i \in (a + 1)..b : f[i - 1] + Unit <= f[i]
  PROVE  \A i, j \in a..b : i <= j => f[i] + (j - i) * Unit <= f[j]
<1>0. Unit \in Nat
  BY AlignmentBounds
<1> SUFFICES ASSUME NEW i \in a..b
             PROVE  \A j \in i..b : f[i] + (j - i) * Unit <= f[j]
  OBVIOUS
<1> DEFINE S == {j \in i..b : f[i] + (j - i) * Unit <= f[j]}
<1>1. i \in S
  <2>1. (i - i) * Unit = 0 /\ f[i] \in Int /\ i \in i..b
    BY <1>0
  <2> QED BY <2>1
<1>2. ASSUME NEW j \in (i + 1)..b, j - 1 \in S PROVE j \in S
  <2>1. j \in (a + 1)..b /\ j - 1 \in a..b /\ j \in a..b /\ j \in i..b /\ j \in Int /\ i \in Int
    OBVIOUS
  <2>2. f[j - 1] + Unit <= f[j] /\ f[j - 1] \in Int /\ f[j] \in Int /\ f[i] \in Int
    BY <2>1
  <2>3. f[i] + ((j - 1) - i) * Unit <= f[j - 1]
    BY <1>2
  <2>4. (j - i) * Unit = ((j - 1) - i) * Unit + Unit /\ ((j - 1) - i) * Unit \in Int
    BY <1>0, <2>1
  <2>5. f[i] + (j - i) * Unit <= f[j]
    BY <1>0, <2>2, <2>3, <2>4
  <2> QED BY <2>1, <2>5
<1>3. i \in Int /\ b \in Int
  OBVIOUS
<1>4. \A j \in i..b : j \in S
  <2> HIDE DEF S
  <2> QED BY <1>1, <1>2, <1>3, IntervalInduction
<1> QED BY <1>4

(* Some divisors more raise the quotient by as many.                       *)
LEMMA QuotientRisesBy ==
  ASSUME NEW x \in Int, NEW z \in Int, NEW y \in Nat \ {0}, NEW k \in Nat, x + k * y <= z
  PROVE  x \div y + k <= z \div y
<1> DEFINE q == x \div y
<1>1. q \in Int /\ q * y <= x
  BY Quotient
<1> HIDE DEF q
<1>2. q + k \in Int /\ (q + k) * y = q * y + k * y /\ q * y \in Int /\ k * y \in Int
  BY <1>1
<1>3. (q + k) * y <= z
  BY <1>1, <1>2
<1>4. q + k <= z \div y
  BY <1>2, <1>3, QuotientAtLeast
<1> QED BY <1>4 DEF q

(* There are no more samples than nanoseconds in a range.                  *)
LEMMA NaturalSpaced ==
  ASSUME NEW s, Valid(s), NEW start \in Int, NEW end \in Int, InRange(s, start, end),
         Spaced(Stamps(s) \cup {start, end})
  PROVE  (NaturalCount(s, start, end) - 1) * Unit <= end - start
<1> DEFINE f == s.timestamps
           n == Count(f)
           first == lowerBound(f, start)
           last == lowerBound(f, end)
           points == (IF f[last] = end THEN last + 1 ELSE last) - first
           more == (IF f[first] = start THEN 0 ELSE 1) + (IF f[last] = end THEN 0 ELSE 1)
<1>0. Unit \in Nat \ {0}
  BY AlignmentBounds
<1>1. /\ n \in Nat /\ n >= 2 /\ f \in [0..(n - 1) -> Int]
      /\ 0 \in 0..(n - 1) /\ n - 1 \in 0..(n - 1) /\ Final(f) = f[n - 1]
      /\ \A i, j \in 0..(n - 1) : i < j => f[i] < f[j]
  BY ValidParts
<1>2. /\ first \in 0..n /\ last \in 0..n
      /\ \A i \in 0..(n - 1) : i < first => f[i] < start
      /\ \A i \in 0..(n - 1) : first <= i => start <= f[i]
      /\ \A i \in 0..(n - 1) : i < last => f[i] < end
      /\ \A i \in 0..(n - 1) : last <= i => end <= f[i]
  <2>1. n = Count(s.timestamps)
    OBVIOUS
  <2>2. /\ first \in 0..n
        /\ \A i \in 0..(n - 1) : i < first => f[i] < start
        /\ \A i \in 0..(n - 1) : first <= i => start <= f[i]
    BY <2>1, LowerBound
  <2>3. /\ last \in 0..n
        /\ \A i \in 0..(n - 1) : i < last => f[i] < end
        /\ \A i \in 0..(n - 1) : last <= i => end <= f[i]
    BY <2>1, LowerBound
  <2> HIDE DEF f, n, first, last
  <2> QED BY <2>2, <2>3
<1>3. start < end /\ f[0] <= start /\ end <= f[n - 1]
  <2>1. start >= s.timestamps[0] /\ start < end /\ end <= Final(f)
    BY DEF InRange
  <2> QED BY <1>1, <2>1
<1>4. NaturalCount(s, start, end) = Max({2, points + more})
  <2>1. NaturalCount(s, start, end) =
            Max({2, points + (IF f[first] = start THEN 0 ELSE 1) + (IF f[last] = end THEN 0 ELSE 1)})
    BY DEF NaturalCount
  <2>2. points + more = points + (IF f[first] = start THEN 0 ELSE 1) + (IF f[last] = end THEN 0 ELSE 1)
    <3>1. points \in Int
      <4> HIDE DEF f, first, last, n
      <4> QED BY <1>1, <1>2
    <3> HIDE DEF points, f, first, last
    <3> QED BY <3>1
  <2> HIDE DEF points, more, f, first, last
  <2> QED BY <2>1, <2>2
<1>5. /\ \A i, j \in 0..(n - 1) : i < j => f[i] + Unit <= f[j]
      /\ \A i \in 0..(n - 1) : start < f[i] => start + Unit <= f[i]
      /\ \A i \in 0..(n - 1) : f[i] < end => f[i] + Unit <= end
      /\ start + Unit <= end
  <2>1. \A i \in 0..(n - 1) : f[i] \in Stamps(s) \cup {start, end}
    BY <1>1 DEF Stamps
  <2> HIDE DEF f, n
  <2> QED BY <1>1, <1>3, <2>1 DEF Spaced
<1> HIDE DEF f, n, first, last
<1>6. \A i \in 0..(n - 1) : f[i] \in Int
  BY <1>1
<1>7. first # n /\ last # n
  <2>1. first = n => f[n - 1] < start
    BY <1>1, <1>2
  <2>2. last = n => f[n - 1] < end
    BY <1>1, <1>2
  <2> QED BY <1>1, <1>3, <1>6, <2>1, <2>2
<1>8. first \in 0..(n - 1) /\ last \in 0..(n - 1) /\ start <= f[first] /\ end <= f[last]
      /\ f[first] \in Int /\ f[last] \in Int
  BY <1>1, <1>2, <1>6, <1>7
<1>9. first <= last
  <2>1. last < first => f[last] < start
    BY <1>2, <1>8
  <2> QED BY <1>2, <1>3, <1>8, <2>1
<1> DEFINE k == points + more - 1
<1>10. k \in Int /\ k = (last - first) + (IF f[first] = start THEN 0 ELSE 1)
  BY <1>8
<1>11. k * Unit <= end - start
  <2>1. CASE first = last
    <3>1. k = 0 \/ k = 1
      BY <1>8, <1>10, <2>1
    <3> HIDE DEF k
    <3>2. 0 * Unit = 0 /\ 1 * Unit = Unit
      BY <1>0
    <3> QED BY <1>0, <1>3, <1>5, <3>1, <3>2
  <2>2. CASE first < last
    <3> DEFINE g == last - 1 - first
    <3>1. last - 1 \in 0..(n - 1) /\ f[last - 1] \in Int /\ first <= last - 1
      BY <1>1, <1>6, <1>8, <2>2
    <3>2. f[first] + g * Unit <= f[last - 1]
      <4>1. \A i \in (0 + 1)..(n - 1) : f[i - 1] + Unit <= f[i]
        <5> TAKE i \in (0 + 1)..(n - 1)
        <5>1. i - 1 \in 0..(n - 1) /\ i \in 0..(n - 1) /\ i - 1 < i
          BY <1>1
        <5> QED BY <1>5, <5>1
      <4>2. \A i, j \in 0..(n - 1) : i <= j => f[i] + (j - i) * Unit <= f[j]
        <5>1. 0 \in Int /\ n - 1 \in Int
          BY <1>1
        <5> QED BY <1>1, <4>1, <5>1, SpacedGaps
      <4> QED BY <1>8, <3>1, <4>2
    <3>3. f[last - 1] + Unit <= end
      <4>1. f[last - 1] < end
        BY <1>2, <1>8, <3>1
      <4> QED BY <1>5, <3>1, <4>1
    <3>4. g \in Int /\ k = g + 1 + (IF f[first] = start THEN 0 ELSE 1)
      BY <1>8, <1>10
    <3> HIDE DEF g, k
    <3>5. g * Unit \in Int /\ (g + 1) * Unit = g * Unit + Unit /\ (g + 1 + 1) * Unit = g * Unit + Unit + Unit
      BY <1>0, <3>4
    <3>6. CASE f[first] = start
      <4>1. k = g + 1
        BY <3>4, <3>6
      <4>2. k * Unit = g * Unit + Unit
        BY <3>5, <4>1
      <4> QED BY <1>0, <1>8, <3>1, <3>2, <3>3, <3>5, <3>6, <4>2
    <3>7. CASE f[first] # start
      <4>1. k = g + 1 + 1
        BY <3>4, <3>7
      <4>2. k * Unit = g * Unit + Unit + Unit
        BY <3>5, <4>1
      <4>3. start + Unit <= f[first]
        <5>1. start < f[first]
          BY <1>8, <3>7
        <5> QED BY <1>5, <1>8, <5>1
      <4> QED BY <1>0, <1>8, <3>1, <3>2, <3>3, <3>5, <4>2, <4>3
    <3> QED BY <3>6, <3>7
  <2> QED BY <1>1, <1>8, <1>9, <2>1, <2>2
<1>12. points + more = k + 1
  <2>1. points \in Int /\ more \in Int
    BY <1>8
  <2> HIDE DEF points, more
  <2> QED BY <2>1
<1> HIDE DEF k, points, more
<1>13. Max({2, k + 1}) = IF 2 <= k + 1 THEN k + 1 ELSE 2
  <2> DEFINE c == k + 1
  <2>1. c \in Int
    BY <1>10
  <2> HIDE DEF c
  <2>2. Max({2, c}) = IF 2 <= c THEN c ELSE 2
    BY <2>1, MinMaxTwo
  <2> QED BY <2>2 DEF c
<1>14. CASE 2 <= k + 1
  <2>1. NaturalCount(s, start, end) - 1 = k
    BY <1>4, <1>10, <1>12, <1>13, <1>14
  <2> QED BY <1>11, <2>1
<1>15. CASE ~(2 <= k + 1)
  <2>1. NaturalCount(s, start, end) - 1 = 1
    BY <1>4, <1>10, <1>12, <1>13, <1>15
  <2>2. 1 * Unit = Unit
    BY <1>0
  <2> QED BY <1>0, <1>3, <1>5, <2>1, <2>2
<1> QED BY <1>14, <1>15

(* Sample times that are no more than there are nanoseconds are a          *)
(* nanosecond apart.                                                       *)
LEMMA SpacedTimes ==
  ASSUME NEW start \in Int, NEW end \in Int, NEW count \in Nat, count >= 2, start < end,
         (count - 1) * Unit <= end - start,
         NEW f, f = SampleTimes(start, end, count)
  PROVE  \A i, j \in 0..(count - 1) : i < j => f[i] + Unit <= f[j]
<1> DEFINE d == end - start
           m == count - 1
<1>0. Unit \in Nat \ {0}
  BY AlignmentBounds
<1>1. d \in Nat /\ m \in Nat \ {0} /\ Unit * m <= d /\ count - 1 = m
  <2>1. m * Unit = Unit * m
    BY <1>0
  <2> QED BY <2>1
<1>2. f = [i \in 0..m |-> start + ((d * i) \div m)]
  BY DEF SampleTimes
<1> HIDE DEF d, m
<1>3. \A i \in 0..m : d * i \in Int /\ (d * i) \div m \in Int
  <2> TAKE i \in 0..m
  <2> DEFINE x == d * i
  <2>1. x \in Int
    BY <1>1
  <2> HIDE DEF x
  <2>2. x \div m \in Int
    BY <1>1, <2>1, Quotient
  <2> QED BY <2>1, <2>2 DEF x
<1>4. f \in [0..m -> Int]
  BY <1>2, <1>3
<1>5. ASSUME NEW i \in 1..m PROVE f[i - 1] + Unit <= f[i]
  <2>1. i \in 0..m /\ i - 1 \in 0..m
    BY <1>1
  <2>2. d * (i - 1) + Unit * m <= d * i
    <3>1. d * i = d * (i - 1) + d /\ d * (i - 1) \in Int /\ Unit * m \in Int
      BY <1>0, <1>1, <2>1
    <3> QED BY <1>1, <3>1
  <2>3. (d * (i - 1)) \div m + Unit <= (d * i) \div m
    BY <1>0, <1>1, <1>3, <2>1, <2>2, QuotientRisesBy
  <2> QED BY <1>0, <1>2, <1>3, <2>1, <2>3
<1>6. \A i, j \in 0..m : i <= j => f[i] + (j - i) * Unit <= f[j]
  <2>1. \A i \in (0 + 1)..m : f[i - 1] + Unit <= f[i]
    BY <1>5
  <2>2. 0 \in Int /\ m \in Int
    BY <1>1
  <2> QED BY <1>4, <2>1, <2>2, SpacedGaps
<1>7. ASSUME NEW i \in 0..m, NEW j \in 0..m, i < j PROVE f[i] + Unit <= f[j]
  <2>1. i <= j /\ j - i \in Nat /\ 1 <= j - i
    BY <1>1, <1>7
  <2>2. f[i] + (j - i) * Unit <= f[j] /\ f[i] \in Int /\ f[j] \in Int
    BY <1>4, <1>6, <2>1
  <2>3. 1 * Unit <= (j - i) * Unit /\ (j - i) * Unit \in Int /\ 1 * Unit = Unit
    <3> DEFINE g == j - i
    <3> HIDE DEF g
    <3>1. g \in Nat /\ 1 <= g
      BY <2>1 DEF g
    <3>2. 1 * Unit <= g * Unit /\ g * Unit \in Int /\ 1 * Unit = Unit
      BY <1>0, <3>1, Products
    <3> QED BY <3>2 DEF g
  <2> QED BY <1>0, <2>2, <2>3
<1> QED BY <1>1, <1>7

(* A sampled series of times a nanosecond apart has its times a nanosecond *)
(* apart.                                                                  *)
LEMMA SampledSpaced ==
  ASSUME NEW s, Valid(s), NEW start \in Int, NEW end \in Int, InRange(s, start, end),
         Spaced(Stamps(s) \cup {start, end}),
         NEW maximum \in Nat, maximum >= 2,
         NEW x, x = sampleSeriesRange(s, start, end, maximum)
  PROVE  Spaced(Stamps(x))
<1> DEFINE count == Max({2, Min({maximum, NaturalCount(s, start, end)})})
           k == NaturalCount(s, start, end)
           times == SampleTimes(start, end, count)
<1>0. Unit \in Nat \ {0}
  BY AlignmentBounds
<1>1. k \in Int /\ k >= 2 /\ (k - 1) * Unit <= end - start
  BY NaturalCounts, NaturalSpaced
<1>2. count \in Nat /\ count >= 2 /\ count <= k
  <2> DEFINE m == Min({maximum, k})
  <2>1. m = IF maximum <= k THEN maximum ELSE k
    <3> HIDE DEF k
    <3> QED BY <1>1, MinMaxTwo
  <2>2. m \in Int /\ m >= 2 /\ m <= k
    <3> HIDE DEF k, m
    <3> QED BY <1>1, <2>1
  <2> HIDE DEF m
  <2>3. Max({2, m}) = IF 2 <= m THEN m ELSE 2
    BY <2>2, MinMaxTwo
  <2>4. count = Max({2, m})
    BY DEF m
  <2> HIDE DEF count, k
  <2> QED BY <1>1, <2>2, <2>3, <2>4
<1>3. start < end
  BY DEF InRange
<1>4. x.timestamps = times
  BY DEF sampleSeriesRange
<1> HIDE DEF count, k
<1>5. (count - 1) * Unit <= end - start
  <2>1. count - 1 \in Int /\ k - 1 \in Int /\ count - 1 <= k - 1
    BY <1>1, <1>2
  <2> DEFINE a == count - 1
             b == k - 1
  <2>2. a * Unit <= b * Unit /\ a * Unit \in Int /\ b * Unit \in Int
    <3> HIDE DEF a, b
    <3> QED BY <1>0, <2>1, Products DEF a, b
  <2> QED BY <1>1, <2>2
<1>6. \A i, j \in 0..(count - 1) : i < j => times[i] + Unit <= times[j]
  BY <1>2, <1>3, <1>5, SpacedTimes
<1>7. times \in [0..(count - 1) -> Int]
  <2>1. count \in Nat /\ count >= 2
    BY <1>2
  <2>2. TimesOf(times, start, end, count)
    BY <1>3, <2>1, SampledTimes
  <2> QED BY <2>2 DEF TimesOf
<1> HIDE DEF times
<1>8. ASSUME NEW a \in Stamps(x), NEW b \in Stamps(x), a < b PROVE a + Unit <= b
  <2>1. PICK i \in 0..(count - 1) : a = times[i]
    BY <1>4, <1>7 DEF Stamps
  <2>2. PICK j \in 0..(count - 1) : b = times[j]
    BY <1>4, <1>7 DEF Stamps
  <2>3. i < j \/ i = j \/ j < i
    BY <1>2
  <2>4. times[i] \in Int /\ times[j] \in Int
    BY <1>7
  <2>5. ~(j < i)
    <3> SUFFICES ASSUME j < i PROVE FALSE
      OBVIOUS
    <3>1. times[j] + Unit <= times[i]
      BY <1>6
    <3> QED BY <1>0, <1>8, <2>1, <2>2, <2>4, <3>1
  <2>6. i # j
    BY <1>8, <2>1, <2>2, <2>4
  <2> QED BY <1>6, <2>1, <2>2, <2>3, <2>5, <2>6
<1> QED BY <1>8 DEF Spaced

(* Whole nanoseconds are a nanosecond apart.                               *)
LEMMA WholeSpaced ==
  ASSUME NEW T \in SUBSET Int, \A t \in T : Unit * (t \div Unit) = t
  PROVE  Spaced(T)
<1>0. Unit \in Nat \ {0}
  BY AlignmentBounds
<1>1. ASSUME NEW x \in T, NEW y \in T, x < y PROVE x + Unit <= y
  <2>1. PICK k \in Int : k = x \div Unit
    <3>1. x \div Unit \in Int
      BY <1>0, Quotient
    <3> QED BY <3>1
  <2>2. PICK m \in Int : m = y \div Unit
    <3>1. y \div Unit \in Int
      BY <1>0, Quotient
    <3> QED BY <3>1
  <2>3. x = Unit * k /\ y = Unit * m
    BY <2>1, <2>2
  <2>4. k < m
    <3>1. ASSUME m <= k PROVE FALSE
      <4>1. m * Unit <= k * Unit
        BY <1>0, <3>1, Products
      <4>2. m * Unit = Unit * m /\ k * Unit = Unit * k
        BY <1>0
      <4>3. y <= x
        BY <2>3, <4>1, <4>2
      <4> QED BY <1>1, <4>3
    <3> QED BY <3>1
  <2>5. (k + 1) * Unit <= m * Unit
    <3>1. k + 1 <= m /\ k + 1 \in Int
      BY <2>4
    <3> DEFINE c == k + 1
    <3>2. c \in Int /\ c <= m
      BY <3>1
    <3> HIDE DEF c
    <3>3. c * Unit <= m * Unit
      BY <1>0, <3>2, Products
    <3> QED BY <3>3 DEF c
  <2>6. (k + 1) * Unit = Unit * k + Unit /\ m * Unit = Unit * m
    BY <1>0
  <2> QED BY <2>3, <2>5, <2>6
<1> QED BY <1>1 DEF Spaced

(* In whole nanoseconds, times keep their order, and two that are a        *)
(* nanosecond apart stay two.                                              *)
LEMMA NanosecondsRise ==
  ASSUME NEW x \in Int, NEW y \in Int
  PROVE  /\ x <= y => Nanoseconds(x) <= Nanoseconds(y)
         /\ x + Unit <= y => Nanoseconds(x) < Nanoseconds(y)
<1> DEFINE a == 2 * x + Unit
           b == 2 * y + Unit
           u == 2 * Unit
<1>0. Unit \in Nat \ {0}
  BY AlignmentBounds
<1>1. a \in Int /\ b \in Int /\ u \in Nat \ {0} /\ (x <= y => a <= b) /\ (x + Unit <= y => a + u <= b)
  BY <1>0
<1>2. Nanoseconds(x) = a \div u /\ Nanoseconds(y) = b \div u
  BY DEF Nanoseconds, Round
<1> HIDE DEF a, b, u
<1>3. x <= y => a \div u <= b \div u
  BY <1>1, QuotientMonotone
<1>4. x + Unit <= y => a \div u < b \div u
  BY <1>1, QuotientRises
<1> QED BY <1>2, <1>3, <1>4

(* Points in whole nanoseconds.                                            *)
Rounded(points) ==
    [k \in DOMAIN points |-> [refTime |-> Nanoseconds(points[k].refTime), dutTime |-> Nanoseconds(points[k].dutTime)]]

(* Points whose REF times are a nanosecond apart are in order in whole     *)
(* nanoseconds too.                                                        *)
LEMMA RoundedRise ==
  ASSUME NEW q, Points(q), NEW T, Spaced(T), \A k \in 1..Len(q) : q[k].refTime \in T
  PROVE  Ascending(Rounded(q))
<1> DEFINE n == Len(q)
           r == Rounded(q)
<1>1. /\ n \in Nat /\ DOMAIN q = 1..n
      /\ \A k \in 1..n : q[k].refTime \in Int /\ q[k].dutTime \in Int
      /\ \A i, j \in 1..n : i < j => q[i].refTime < q[j].refTime
      /\ \A i, j \in 1..n : i <= j => q[i].dutTime <= q[j].dutTime
  BY PointsRise
<1>2. r \in [1..n -> {r[k] : k \in 1..n}]
  BY <1>1 DEF Rounded
<1>3. Len(r) = n
  <2> HIDE DEF r, n
  <2>1. DOMAIN r = 1..n
    BY <1>2
  <2>2. r \in Seq({r[k] : k \in 1..n})
    BY <1>1, <1>2
  <2> QED BY <1>1, <2>1, <2>2
<1>4. \A k \in 1..n : r[k].refTime = Nanoseconds(q[k].refTime) /\ r[k].dutTime = Nanoseconds(q[k].dutTime)
  BY <1>1 DEF Rounded
<1> HIDE DEF r, n
<1>5. ASSUME NEW k \in 2..n PROVE r[k - 1].refTime < r[k].refTime /\ r[k - 1].dutTime <= r[k].dutTime
  <2>1. k - 1 \in 1..n /\ k \in 1..n /\ k - 1 < k /\ k - 1 <= k
    BY <1>1
  <2>2. PICK a \in Int : a = q[k - 1].refTime
    BY <1>1, <2>1
  <2>3. PICK b \in Int : b = q[k].refTime
    BY <1>1, <2>1
  <2>4. PICK c \in Int : c = q[k - 1].dutTime
    BY <1>1, <2>1
  <2>5. PICK d \in Int : d = q[k].dutTime
    BY <1>1, <2>1
  <2>6. a < b /\ c <= d
    BY <1>1, <2>1, <2>2, <2>3, <2>4, <2>5
  <2>7. a + Unit <= b
    <3>1. a \in T /\ b \in T
      BY <2>1, <2>2, <2>3 DEF n
    <3> QED BY <2>6, <3>1 DEF Spaced
  <2>8. Nanoseconds(a) < Nanoseconds(b) /\ Nanoseconds(c) <= Nanoseconds(d)
    BY <2>6, <2>7, NanosecondsRise
  <2> QED BY <1>4, <2>1, <2>2, <2>3, <2>4, <2>5, <2>8
<1> QED BY <1>3, <1>5 DEF Ascending, r

(* DUT times in a range.                                                   *)
Within(p, low, high) == \A k \in DOMAIN p : low <= p[k].dutTime /\ p[k].dutTime <= high

(* The points of a path lie where its DUT times do.                        *)
LEMMA PointsWithin ==
  ASSUME NEW p, PathOfTimes(p), NEW low \in Int, NEW high \in Int, Within(p, low, high), NEW q, q = Collapsed(p)
  PROVE  \A m \in 1..Len(q) : low <= q[m].dutTime /\ q[m].dutTime <= high
<1> TAKE m \in 1..Len(q)
<1>1. q[m].refTime \in RefTimes(p) /\ q[m].dutTime = Middle(p, q[m].refTime)
  BY PointsOfPath
<1> DEFINE t == q[m].refTime
<1>2. t \in {p[k].referenceTime : k \in DOMAIN p}
  BY <1>1 DEF RefTimes
<1> HIDE DEF t
<1>3. /\ Middle(p, t) \in Int
      /\ \E i, j \in At(p, t) : p[i].dutTime <= Middle(p, t) /\ Middle(p, t) <= p[j].dutTime
  BY <1>2, MiddleIs
<1>4. PICK i, j \in At(p, t) : p[i].dutTime <= Middle(p, t) /\ Middle(p, t) <= p[j].dutTime
  BY <1>3
<1>5. i \in DOMAIN p /\ j \in DOMAIN p
  BY DEF At
<1>6. p[i].dutTime \in Int /\ p[j].dutTime \in Int
  <2>1. \A k \in 1..Len(p) : p[k].dutTime \in Int
    BY PathRises
  <2>2. DOMAIN p = 1..Len(p)
    BY PathRises
  <2> QED BY <1>5, <2>1, <2>2
<1>7. low <= p[i].dutTime /\ p[j].dutTime <= high
  BY <1>5 DEF Within
<1>8. low <= Middle(p, t) /\ Middle(p, t) <= high
  BY <1>3, <1>4, <1>6, <1>7
<1> QED BY <1>1, <1>8 DEF t

-----------------------------------------------------------------------------
(* What a mapping promises.                                                *)

(* MappingFollowsPath, of any mapping.                                     *)
FollowsPath(m, tolerance, maximum) ==
    LET points == m.points  all == m.collapsed
    IN  /\ Len(points) \in 2..maximum
        /\ points[1] = all[1] /\ points[Len(points)] = all[Len(all)]
        /\ Ascending(all)
        /\ m.capped \/ \A k \in DOMAIN all :
            Distance(mapRefToDut(points, all[k].refTime, "clamp"), all[k].dutTime) <= tolerance + 1
        /\ Ascending([k \in DOMAIN points |->
                [refTime |-> Nanoseconds(points[k].refTime), dutTime |-> Nanoseconds(points[k].dutTime)]])

(* MappingKeepsOrder, of any points and any call.                          *)
KeepsOrder(points, r) ==
    LET times == {k * (Unit \div 4) : k \in 0..((4 * Final(r.ref.timestamps)) \div Unit)}
        forward(t) == mapRefToDut(points, t, "linear")
        back(t) == mapDutToRef(points, t, "linear")
        range == <<mapRefToDut(points, r.start, "clamp"), mapRefToDut(points, r.end, "clamp")>>
    IN  /\ \A t \in times : t + Unit \div 4 \in times => forward(t) <= forward(t + Unit \div 4)
        /\ \A p \in Range(points) : forward(p.refTime) = p.dutTime
        /\ Len(DutToRef(points)) > 1 =>
            /\ \A p, q \in Range(points) : p.dutTime < q.dutTime => back(p.dutTime) < back(q.dutTime)
            /\ \A p \in Range(points) : (\A q \in Range(points) : q.dutTime = p.dutTime => q = p) => back(p.dutTime) = p.refTime
        /\ range[1] <= range[2]
        /\ range[1] >= r.dut.timestamps[0] /\ range[2] <= Final(r.dut.timestamps)

(* The mapping that is made of points.                                     *)
MappingOf(points, tolerance, maximum) ==
    LET simple == simplifyRdp(points, tolerance)
    IN  [points |-> capPoints(simple, maximum), collapsed |-> points, capped |-> Len(simple) > maximum]

(* The points of a mapping are drawn from those of the path, no more than  *)
(* the limit, and within the tolerance unless they were cut.               *)
LEMMA MappingDrawn ==
  ASSUME NEW q, Points(q), NEW n, n = Len(q), n >= 2, NEW tolerance \in Nat, NEW maximum \in Nat, maximum >= 2,
         NEW m, m = MappingOf(q, tolerance, maximum)
  PROVE  /\ m.collapsed = q /\ Drawn(m.points, q) /\ Len(m.points) <= maximum
         /\ m.capped \/ \A k \in 1..n : Distance(mapRefToDut(m.points, q[k].refTime, "clamp"), q[k].dutTime) <= tolerance
<1> DEFINE s == simplifyRdp(q, tolerance)
           c == capPoints(s, maximum)
<1>1. /\ Drawn(s, q)
      /\ \A k \in 1..n : Distance(mapRefToDut(s, q[k].refTime, "clamp"), q[k].dutTime) <= tolerance
  BY SimplifiedFollows
<1>2. m = [points |-> c, collapsed |-> q, capped |-> Len(s) > maximum]
  BY DEF MappingOf
<1> HIDE DEF s
<1>3. Points(s) /\ Len(s) >= 2
  BY <1>1 DEF Drawn
<1>4. Drawn(c, s) /\ Len(c) <= maximum
  BY <1>3, CappedFollows
<1>5. Drawn(c, q)
  BY <1>1, <1>4, DrawnTwice
<1>6. Len(s) <= maximum => c = s
  BY DEF capPoints
<1>7. Len(s) \in Nat
  BY <1>3 DEF Points
<1> HIDE DEF c
<1>8. m.points = c /\ m.collapsed = q /\ m.capped = (Len(s) > maximum)
  BY <1>2
<1>9. ~m.capped => c = s
  <2> DEFINE more == Len(s) > maximum
  <2>1. ~more => c = s
    BY <1>6, <1>7
  <2>2. m.capped = more
    BY <1>8
  <2> HIDE DEF more
  <2> QED BY <2>1, <2>2
<1> QED BY <1>1, <1>4, <1>5, <1>8, <1>9

(* A path whose REF times are a nanosecond apart makes a mapping that      *)
(* follows it.                                                             *)
LEMMA MappingFollows ==
  ASSUME NEW p, PathOfTimes(p), Spaced(RefTimes(p)), NEW q, q = Collapsed(p),
         NEW tolerance \in Nat, NEW maximum \in Nat, maximum >= 2,
         NEW m, m = MappingOf(q, tolerance, maximum)
  PROVE  FollowsPath(m, tolerance, maximum)
<1> DEFINE n == Len(q)
           c == m.points
<1>1. /\ Points(q) /\ n >= 2 /\ DOMAIN q = 1..n
      /\ \A k \in 1..n : q[k].refTime \in RefTimes(p)
  BY PointsOfPath
<1>2. /\ m.collapsed = q /\ Drawn(c, q) /\ Len(c) <= maximum
      /\ m.capped \/ \A k \in 1..n : Distance(mapRefToDut(c, q[k].refTime, "clamp"), q[k].dutTime) <= tolerance
  BY <1>1, MappingDrawn
<1>3. \A k \in 1..n : q[k].refTime \in Int /\ q[k].dutTime \in Int
  BY <1>1, PointsRise
<1> HIDE DEF c
<1>4. /\ Points(c) /\ Len(c) >= 2 /\ Len(c) \in Nat
      /\ c[1] = q[1] /\ c[Len(c)] = q[n]
      /\ \A k \in 1..Len(c) : c[k].refTime \in RefTimes(p)
  <2>1. /\ Points(c) /\ Len(c) >= 2 /\ c[1] = q[1] /\ c[Len(c)] = q[Len(q)]
        /\ \A k \in 1..Len(c) : \E j \in 1..Len(q) : c[k] = q[j]
    BY <1>2 DEF Drawn
  <2>2. Len(c) \in Nat
    BY <2>1 DEF Points
  <2>3. \A k \in 1..Len(c) : c[k].refTime \in RefTimes(p)
    BY <1>1, <2>1
  <2> QED BY <2>1, <2>2, <2>3
<1>5. Ascending(Rounded(c))
  BY <1>4, RoundedRise
<1>6. m.capped \/ \A k \in 1..n :
            Distance(mapRefToDut(c, q[k].refTime, "clamp"), q[k].dutTime) <= tolerance + 1
  <2> SUFFICES ASSUME ~m.capped, NEW k \in 1..n
               PROVE  Distance(mapRefToDut(c, q[k].refTime, "clamp"), q[k].dutTime) <= tolerance + 1
    OBVIOUS
  <2>1. Distance(mapRefToDut(c, q[k].refTime, "clamp"), q[k].dutTime) <= tolerance
    BY <1>2
  <2>2. PICK t \in Int : t = q[k].refTime
    BY <1>3
  <2>3. t <= t
    BY <2>2
  <2>4. mapRefToDut(c, t, "clamp") \in Int
    BY <1>4, <2>3, MapsForward
  <2>5. PICK x \in Int : x = mapRefToDut(c, t, "clamp")
    BY <2>4
  <2>6. PICK y \in Int : y = q[k].dutTime
    BY <1>3
  <2>7. Distance(x, y) \in Nat
    BY DistanceIs
  <2>8. Distance(x, y) <= tolerance
    BY <2>1, <2>2, <2>5, <2>6
  <2>9. Distance(x, y) <= tolerance + 1
    BY <2>7, <2>8
  <2> QED BY <2>2, <2>5, <2>6, <2>9
<1>7. Len(c) \in 2..maximum
  BY <1>2, <1>4
<1>8. Ascending(q)
  BY <1>1 DEF Points
<1>9. FollowsPath(m, tolerance, maximum) =
        (/\ Len(c) \in 2..maximum
         /\ c[1] = q[1] /\ c[Len(c)] = q[Len(q)]
         /\ Ascending(q)
         /\ m.capped \/ \A k \in DOMAIN q :
                Distance(mapRefToDut(c, q[k].refTime, "clamp"), q[k].dutTime) <= tolerance + 1
         /\ Ascending(Rounded(c)))
  BY <1>2 DEF FollowsPath, Rounded, c
<1> QED BY <1>1, <1>4, <1>5, <1>6, <1>7, <1>8, <1>9

(* Points that lie in the DUT series keep the order of times.              *)
LEMMA OrderKept ==
  ASSUME NEW c, Points(c), Len(c) >= 2, NEW r,
         r.start \in Int, r.end \in Int, r.start <= r.end,
         NEW low \in Int, low = r.dut.timestamps[0], NEW high \in Int, high = Final(r.dut.timestamps),
         low <= c[1].dutTime, c[Len(c)].dutTime <= high
  PROVE  KeepsOrder(c, r)
<1> DEFINE n == Len(c)
<1>1. /\ \A k \in 1..n : mapRefToDut(c, c[k].refTime, "linear") = c[k].dutTime
      /\ \A t, u \in Int : t <= u =>
            /\ mapRefToDut(c, t, "linear") <= mapRefToDut(c, u, "linear")
            /\ mapRefToDut(c, t, "clamp") \in Int /\ mapRefToDut(c, u, "clamp") \in Int
            /\ mapRefToDut(c, t, "clamp") <= mapRefToDut(c, u, "clamp")
            /\ c[1].dutTime <= mapRefToDut(c, t, "clamp") /\ mapRefToDut(c, u, "clamp") <= c[n].dutTime
  BY MapsForward
<1>2. n \in Nat /\ DOMAIN c = 1..n /\ \A k \in 1..n : c[k].dutTime \in Int
  BY PointsRise
<1>3. ASSUME NEW p \in Range(c) PROVE \E k \in 1..n : p = c[k]
  BY <1>2 DEF Range
<1>4. \A p \in Range(c) : mapRefToDut(c, p.refTime, "linear") = p.dutTime
  <2> TAKE p \in Range(c)
  <2>1. PICK k \in 1..n : p = c[k]
    BY <1>3
  <2> QED BY <1>1, <2>1
<1>5. \A t \in {k * (Unit \div 4) : k \in 0..((4 * Final(r.ref.timestamps)) \div Unit)} :
        mapRefToDut(c, t, "linear") <= mapRefToDut(c, t + Unit \div 4, "linear")
  <2>1. Unit \in Nat \ {0}
    BY AlignmentBounds
  <2>2. PICK u \in Int : u = Unit \div 4 /\ 0 <= u
    <3>1. Unit \div 4 \in Int /\ 0 <= Unit \div 4
      BY <2>1
    <3> QED BY <3>1
  <2> TAKE t \in {k * (Unit \div 4) : k \in 0..((4 * Final(r.ref.timestamps)) \div Unit)}
  <2>3. PICK k \in Int : t = k * u
    BY <2>2
  <2>4. k * u \in Int
    BY <2>2, <2>3
  <2>5. t \in Int /\ t + u \in Int /\ t <= t + u
    <3>1. t \in Int
      BY <2>3, <2>4
    <3> QED BY <2>2, <3>1
  <2>6. mapRefToDut(c, t, "linear") <= mapRefToDut(c, t + u, "linear")
    BY <1>1, <2>5
  <2> QED BY <2>2, <2>6
<1>6. Len(DutToRef(c)) > 1 =>
        /\ \A p, q \in Range(c) : p.dutTime < q.dutTime =>
                mapDutToRef(c, p.dutTime, "linear") < mapDutToRef(c, q.dutTime, "linear")
        /\ \A p \in Range(c) : (\A q \in Range(c) : q.dutTime = p.dutTime => q = p) =>
                mapDutToRef(c, p.dutTime, "linear") = p.refTime
  <2> SUFFICES ASSUME Len(DutToRef(c)) > 1
               PROVE  /\ \A p, q \in Range(c) : p.dutTime < q.dutTime =>
                            mapDutToRef(c, p.dutTime, "linear") < mapDutToRef(c, q.dutTime, "linear")
                      /\ \A p \in Range(c) : (\A q \in Range(c) : q.dutTime = p.dutTime => q = p) =>
                            mapDutToRef(c, p.dutTime, "linear") = p.refTime
    OBVIOUS
  <2>1. \A k, j \in 1..n : c[k].dutTime < c[j].dutTime =>
            mapDutToRef(c, c[k].dutTime, "linear") < mapDutToRef(c, c[j].dutTime, "linear")
    BY MapsBack
  <2>2. \A k \in 1..n : (\A j \in 1..n : c[j].dutTime = c[k].dutTime => c[j] = c[k]) =>
            mapDutToRef(c, c[k].dutTime, "linear") = c[k].refTime
    BY MapsBack
  <2>3. ASSUME NEW p \in Range(c), NEW q \in Range(c), p.dutTime < q.dutTime
        PROVE  mapDutToRef(c, p.dutTime, "linear") < mapDutToRef(c, q.dutTime, "linear")
    <3>1. PICK k \in 1..n : p = c[k]
      BY <1>3
    <3>2. PICK j \in 1..n : q = c[j]
      BY <1>3
    <3> QED BY <2>1, <2>3, <3>1, <3>2
  <2>4. ASSUME NEW p \in Range(c), \A q \in Range(c) : q.dutTime = p.dutTime => q = p
        PROVE  mapDutToRef(c, p.dutTime, "linear") = p.refTime
    <3>1. PICK k \in 1..n : p = c[k]
      BY <1>3
    <3>2. \A j \in 1..n : c[j] \in Range(c)
      BY <1>2 DEF Range
    <3>3. \A j \in 1..n : c[j].dutTime = c[k].dutTime => c[j] = c[k]
      BY <2>4, <3>1, <3>2
    <3> QED BY <2>2, <3>1, <3>3
  <2> QED BY <2>3, <2>4
<1>7. PICK x \in Int : x = mapRefToDut(c, r.start, "clamp")
  BY <1>1
<1>8. PICK y \in Int : y = mapRefToDut(c, r.end, "clamp")
  BY <1>1
<1>9. x <= y /\ low <= x /\ y <= high
  <2>1. c[1].dutTime \in Int /\ c[n].dutTime \in Int
    BY <1>2
  <2>2. x <= y /\ c[1].dutTime <= x /\ y <= c[n].dutTime
    BY <1>1, <1>7, <1>8
  <2> QED BY <2>1, <2>2
<1> QED BY <1>4, <1>5, <1>6, <1>7, <1>8, <1>9 DEF KeepsOrder

-----------------------------------------------------------------------------
(* The inductive invariant.                                                *)

(* The first error is none only if there is none.                          *)
LEMMA FirstErrorIs ==
  ASSUME NEW n \in Nat, NEW codes, DOMAIN codes = 1..n
  PROVE  /\ FirstError(codes) = "none" => \A k \in 1..n : codes[k] = "none"
         /\ FirstError(codes) # "none" => \E k \in 1..n : FirstError(codes) = codes[k]
<1> DEFINE bad == {k \in DOMAIN codes : codes[k] # "none"}
<1>1. bad \in SUBSET Int /\ IsFiniteSet(bad) /\ bad \in SUBSET (1..n)
  <2>1. IsFiniteSet(1..n) /\ bad \in SUBSET (1..n) /\ 1..n \in SUBSET Int
    BY FS_Interval
  <2> HIDE DEF bad
  <2> QED BY <2>1, FS_Subset
<1>2. ASSUME bad # {} PROVE FirstError(codes) # "none" /\ \E k \in 1..n : FirstError(codes) = codes[k]
  <2>1. Min(bad) \in bad
    <3> HIDE DEF bad
    <3> QED BY <1>1, <1>2, MinIs
  <2>2. FirstError(codes) = codes[Min(bad)]
    BY <1>2 DEF FirstError
  <2> DEFINE m == Min(bad)
  <2> HIDE DEF m
  <2>3. codes[m] # "none" /\ m \in 1..n
    BY <2>1 DEF m
  <2> QED BY <2>2, <2>3 DEF m
<1>3. bad = {} => FirstError(codes) = "none" /\ \A k \in 1..n : codes[k] = "none"
  BY DEF FirstError
<1> QED BY <1>2, <1>3

(* A series without an error is valid.                                     *)
LEMMA NoSeriesError ==
  ASSUME NEW s, IsSeries(s), NEW minimum \in Nat, minimum >= 2, SeriesError(s, minimum) = "none"
  PROVE  Valid(s)
<1> DEFINE n == Count(s.timestamps)
<1>1. n \in Nat /\ s.timestamps \in [0..(n - 1) -> Int]
  BY DEF IsSeries
<1>2. /\ ~(n < minimum)
      /\ ~(\E i \in 1..(n - 1) : s.timestamps[i] <= s.timestamps[i - 1])
  BY DEF SeriesError
<1> HIDE DEF n
<1>3. n >= 2
  BY <1>1, <1>2
<1>4. ASSUME NEW i \in 1..(n - 1) PROVE s.timestamps[i - 1] < s.timestamps[i]
  <2>1. i \in 0..(n - 1) /\ i - 1 \in 0..(n - 1)
    BY <1>1
  <2>2. s.timestamps[i] \in Int /\ s.timestamps[i - 1] \in Int
    BY <1>1, <2>1
  <2> QED BY <1>2, <2>2
<1> QED BY <1>3, <1>4 DEF Valid, Rising, n

(* The inductive invariant: the call and how it has failed, if it has,     *)
Errors == {"none", "LIMIT_EXCEEDED", "NO_CANDIDATE", "TIME_BUDGET_EXCEEDED", "DTW_FAILED"}

CallOK ==
    /\ request \in Requests /\ stage \in Stages
    /\ (stage = "failed") = (error # "none")
    /\ reference # Nothing => error \in Errors
    /\ stage = "select" => reference = Nothing /\ operations = 0 /\ error = "none"
    /\ stage \in {"select", "coarse"} => results = <<>>

(* the selection and the candidates to be followed,                        *)
SearchOK ==
    /\ stage \notin {"select", "failed"} => Selected /\ operations \in 1..Limits.maxOperations
    /\ stage \in {"dtw", "row", "backtrack"} =>
            /\ candidates \in Seq(Candidate)
            /\ \A k \in 1..Len(candidates) : Fits(request.dut, candidates[k])
            /\ Len(results) < Options.fineCandidateCount
    /\ stage = "dtw" => candidates # <<>>
    /\ stage = "dtw" /\ results = <<>> =>
            AreDistinct(candidates, rawCandidates, request.dut, Options, Limits)

(* the table of the warping under way,                                     *)
WarpingOK ==
    /\ stage \in {"row", "backtrack"} => Sampling(sampled) /\ Table(sampled, rows)
    /\ stage = "row" => Len(rows) <= LastRow(sampled) /\ Cover(sampled, request)
    /\ stage = "backtrack" => Len(rows) = LastRow(sampled) + 1

(* and the paths found.                                                    *)
PathsOfTimes == {p \in Seq([index : Nat \X Nat, referenceTime : Int, dutTime : Int]) : PathOfTimes(p)}

ResultsOK ==
    /\ results \in Seq(PathsOfTimes)
    /\ stage = "map" => Len(results) \in 1..Options.fineCandidateCount

IInv == CallOK /\ SearchOK /\ WarpingOK /\ ResultsOK /\ PathIsCheapest

(* The invariant holds initially.                                          *)
LEMMA InitOK == Init => IInv
<1> SUFFICES ASSUME Init PROVE IInv
  OBVIOUS
<1> USE DEF Init
<1>1. CallOK
  BY DEF CallOK, Stages, Errors
<1>2. SearchOK
  BY DEF SearchOK
<1>3. WarpingOK
  BY DEF WarpingOK
<1>4. ResultsOK
  BY DEF ResultsOK
<1>5. PathIsCheapest
  BY DEF PathIsCheapest
<1> QED BY <1>1, <1>2, <1>3, <1>4, <1>5 DEF IInv

(* The first checks leave a valid REF series and a range in it.            *)
LEMMA SelectionRef ==
  ASSUME request \in Requests,
         FirstError(<<IF resolveLimits THEN "none" ELSE "INVALID_OPTIONS",
                      SeriesError(request.ref, 2),
                      IF InRange(request.ref, request.start, request.end) THEN "none" ELSE "INVALID_RANGE">>) = "none"
  PROVE  resolveLimits /\ InRange(request.ref, request.start, request.end) /\ Valid(request.ref)
<1> DEFINE before == <<IF resolveLimits THEN "none" ELSE "INVALID_OPTIONS",
                       SeriesError(request.ref, 2),
                       IF InRange(request.ref, request.start, request.end) THEN "none" ELSE "INVALID_RANGE">>
<1>1. DOMAIN before = 1..3
  OBVIOUS
<1>2. /\ before[1] = IF resolveLimits THEN "none" ELSE "INVALID_OPTIONS"
      /\ before[2] = SeriesError(request.ref, 2)
      /\ before[3] = IF InRange(request.ref, request.start, request.end) THEN "none" ELSE "INVALID_RANGE"
  OBVIOUS
<1>3. FirstError(before) = "none"
  OBVIOUS
<1> HIDE DEF before
<1>4. before[1] = "none" /\ before[2] = "none" /\ before[3] = "none"
  <2>1. \A k \in 1..3 : before[k] = "none"
    BY <1>1, <1>3, FirstErrorIs
  <2> QED BY <2>1
<1>5. resolveLimits /\ InRange(request.ref, request.start, request.end)
  BY <1>2, <1>4
<1>6. IsSeries(request.ref)
  BY RequestTypes
<1>7. Valid(request.ref)
  BY <1>2, <1>4, <1>6, NoSeriesError
<1> QED BY <1>5, <1>7

(* The checks before the search leave two valid series and limits that are *)
(* accepted.                                                               *)
LEMMA Selection ==
  ASSUME request \in Requests,
         NEW selected, selected = sampleSeriesRange(request.ref, request.start, request.end, Limits.maxSamples),
         FirstError(<<IF resolveLimits THEN "none" ELSE "INVALID_OPTIONS",
                      SeriesError(request.ref, 2),
                      IF InRange(request.ref, request.start, request.end) THEN "none" ELSE "INVALID_RANGE">>) = "none",
         FirstError(<<SeriesError(selected, Options.minimumSamples),
                      SeriesError(request.dut, Options.minimumSamples)>>) = "none"
  PROVE  /\ Valid(selected) /\ Valid(request.dut) /\ resolveLimits
         /\ selected.timestamps[0] = request.start /\ Final(selected.timestamps) = request.end
         /\ request.start < request.end
         /\ FeatureOperations(selected) + FeatureOperations(request.dut) \in Nat
         /\ FeatureOperations(selected) + FeatureOperations(request.dut) >= 1
         /\ selected # Nothing
<1> DEFINE after == <<SeriesError(selected, Options.minimumSamples),
                      SeriesError(request.dut, Options.minimumSamples)>>
<1>1. DOMAIN after = 1..2 /\ after[2] = SeriesError(request.dut, Options.minimumSamples)
  OBVIOUS
<1>2. FirstError(after) = "none"
  OBVIOUS
<1> HIDE DEF after
<1>3. SeriesError(request.dut, Options.minimumSamples) = "none"
  <2>1. \A k \in 1..2 : after[k] = "none"
    BY <1>1, <1>2, FirstErrorIs
  <2> QED BY <1>1, <2>1
<1>4. IsSeries(request.dut) /\ request.start \in Int /\ request.end \in Int
  BY RequestTypes
<1>5. resolveLimits /\ InRange(request.ref, request.start, request.end) /\ Valid(request.ref)
  BY SelectionRef
<1>6. Valid(request.dut)
  <2>1. Options.minimumSamples \in Nat /\ Options.minimumSamples >= 2
    BY OptionTypes
  <2> QED BY <1>3, <1>4, <2>1, NoSeriesError
<1>7. Limits.maxSamples \in Nat /\ Limits.maxSamples >= 2
  BY <1>5, LimitTypes
<1>8. /\ Valid(selected)
       /\ selected.timestamps[0] = request.start /\ Final(selected.timestamps) = request.end
  BY <1>4, <1>5, <1>7, SampledSeries
<1>9. request.start < request.end
  BY <1>5 DEF InRange
<1>10. /\ FeatureOperations(selected) \in Nat /\ FeatureOperations(selected) >= 1
       /\ FeatureOperations(request.dut) \in Nat
  <2>1. Count(selected.timestamps) \in Nat /\ Count(selected.timestamps) >= 2
    BY <1>8, ValidParts
  <2>2. Count(request.dut.timestamps) \in Nat
    BY <1>6, ValidParts
  <2> QED BY <2>1, <2>2 DEF FeatureOperations, FeatureDimensions
<1>11. selected # Nothing
  <2>1. DOMAIN selected = {"timestamps", "values"}
    BY <1>8 DEF Valid, IsSeries
  <2>2. "candidate" \in DOMAIN Nothing
    BY DEF Nothing
  <2> QED BY <2>1, <2>2
<1> QED BY <1>5, <1>6, <1>8, <1>9, <1>10, <1>11

(* The checks before the search do not fail of the warping.                *)
LEMMA SelectionErrors ==
  ASSUME NEW selected, NEW before, NEW after,
         before = FirstError(<<IF resolveLimits THEN "none" ELSE "INVALID_OPTIONS",
                               SeriesError(request.ref, 2),
                               IF InRange(request.ref, request.start, request.end) THEN "none" ELSE "INVALID_RANGE">>),
         after = FirstError(<<SeriesError(selected, Options.minimumSamples),
                              SeriesError(request.dut, Options.minimumSamples)>>)
  PROVE  before # "DTW_FAILED" /\ after # "DTW_FAILED"
<1> DEFINE x == <<IF resolveLimits THEN "none" ELSE "INVALID_OPTIONS",
                  SeriesError(request.ref, 2),
                  IF InRange(request.ref, request.start, request.end) THEN "none" ELSE "INVALID_RANGE">>
           y == <<SeriesError(selected, Options.minimumSamples),
                  SeriesError(request.dut, Options.minimumSamples)>>
<1>1. \A s, m : SeriesError(s, m) # "DTW_FAILED"
  BY DEF SeriesError
<1>2. DOMAIN x = 1..3 /\ DOMAIN y = 1..2
  OBVIOUS
<1>3. x[1] # "DTW_FAILED" /\ x[2] # "DTW_FAILED" /\ x[3] # "DTW_FAILED"
  BY <1>1
<1>4. y[1] # "DTW_FAILED" /\ y[2] # "DTW_FAILED"
  BY <1>1
<1>5. before = FirstError(x) /\ after = FirstError(y)
  OBVIOUS
<1> HIDE DEF x, y
<1>6. before # "DTW_FAILED"
  <2> SUFFICES ASSUME before = "DTW_FAILED" PROVE FALSE
    OBVIOUS
  <2>1. PICK k \in 1..3 : FirstError(x) = x[k]
    BY <1>2, <1>5, FirstErrorIs
  <2>2. k = 1 \/ k = 2 \/ k = 3
    OBVIOUS
  <2> QED BY <1>3, <1>5, <2>1, <2>2
<1>7. after # "DTW_FAILED"
  <2> SUFFICES ASSUME after = "DTW_FAILED" PROVE FALSE
    OBVIOUS
  <2>1. PICK k \in 1..2 : FirstError(y) = y[k]
    BY <1>2, <1>5, FirstErrorIs
  <2>2. k = 1 \/ k = 2
    OBVIOUS
  <2> QED BY <1>4, <1>5, <2>1, <2>2
<1> QED BY <1>6, <1>7

(* Select keeps the invariant.                                             *)
LEMMA SelectOK ==
  ASSUME IInv, Select
  PROVE  IInv'
<1> DEFINE selected == sampleSeriesRange(request.ref, request.start, request.end, Limits.maxSamples)
           before == FirstError(<<IF resolveLimits THEN "none" ELSE "INVALID_OPTIONS",
                                  SeriesError(request.ref, 2),
                                  IF InRange(request.ref, request.start, request.end) THEN "none" ELSE "INVALID_RANGE">>)
           after == FirstError(<<SeriesError(selected, Options.minimumSamples),
                                 SeriesError(request.dut, Options.minimumSamples)>>)
           spent == FeatureOperations(selected) + FeatureOperations(request.dut)
<1>1. /\ stage = "select" /\ request \in Requests /\ reference = Nothing /\ operations = 0 /\ results = <<>>
      /\ error = "none" /\ results \in Seq(PathsOfTimes)
  BY DEF Select, IInv, CallOK, ResultsOK
<1>2. request' = request /\ results' = results /\ candidates' = candidates /\ sampled' = sampled /\ rows' = rows
  BY DEF Select
<1>3. \/ before # "none" /\ Fails(before) /\ reference' = reference
      \/ before = "none" /\ after # "none" /\ Fails(after) /\ reference' = reference
      \/ /\ before = "none" /\ after = "none" /\ reference' = selected
         /\ operations' = operations + spent
         /\ stage' \in {"failed", "coarse"}
         /\ stage' = "failed" => error' \in {"LIMIT_EXCEEDED", "TIME_BUDGET_EXCEEDED"}
         /\ stage' = "coarse" => error' = error /\ operations' <= Limits.maxOperations
  BY DEF Select, Checkpoint, Fails, Continues
<1>4. before # "DTW_FAILED" /\ after # "DTW_FAILED"
  BY SelectionErrors
<1>5. /\ before = "none" /\ after = "none" =>
            /\ Valid(selected) /\ Valid(request.dut) /\ resolveLimits
            /\ selected.timestamps[0] = request.start /\ Final(selected.timestamps) = request.end
            /\ request.start < request.end
            /\ spent \in Nat /\ spent >= 1 /\ selected # Nothing
  BY <1>1, Selection
<1> HIDE DEF before, after, selected, spent
<1>6. Limits' = Limits /\ Options' = Options
  BY <1>2 DEF Limits, Options
<1>7. CASE stage' = "failed"
  <2>1. error' # "none" /\ error' # "DTW_FAILED"
    BY <1>3, <1>4, <1>7 DEF Fails
  <2>2. reference' # Nothing => error' \in Errors
    BY <1>1, <1>3, <1>7 DEF Errors
  <2>3. CallOK'
    BY <1>1, <1>2, <1>7, <2>1, <2>2 DEF CallOK, Stages
  <2>4. SearchOK' /\ WarpingOK'
    BY <1>7 DEF SearchOK, WarpingOK
  <2>5. ResultsOK'
    BY <1>1, <1>2, <1>7 DEF ResultsOK
  <2>6. PathIsCheapest'
    BY <1>7, <2>1 DEF PathIsCheapest
  <2> QED BY <2>3, <2>4, <2>5, <2>6 DEF IInv
<1>8. CASE stage' # "failed"
  <2>1. /\ before = "none" /\ after = "none" /\ reference' = selected /\ stage' = "coarse" /\ error' = "none"
        /\ operations' = operations + spent /\ operations' <= Limits.maxOperations
    BY <1>1, <1>3, <1>8 DEF Fails
  <2>2. Selected'
    <3>1. resolveLimits' = resolveLimits
      BY <1>6 DEF resolveLimits, MinLimits
    <3> QED BY <1>1, <1>2, <1>5, <2>1, <3>1 DEF Selected
  <2>3. operations' \in 1..Limits.maxOperations
    <3>1. Limits.maxOperations \in Nat
      BY <1>1, LimitTypes
    <3> QED BY <1>1, <1>5, <2>1, <3>1
  <2>4. CallOK'
    BY <1>1, <1>2, <2>1 DEF CallOK, Stages, Errors
  <2>5. SearchOK'
    BY <1>6, <2>1, <2>2, <2>3 DEF SearchOK
  <2>6. WarpingOK' /\ PathIsCheapest'
    BY <2>1 DEF WarpingOK, PathIsCheapest
  <2>7. ResultsOK'
    BY <1>1, <1>2, <2>1 DEF ResultsOK
  <2> QED BY <2>4, <2>5, <2>6, <2>7 DEF IInv
<1> QED BY <1>7, <1>8

(* What stays of a call under way when it goes on.                         *)
LEMMA StaysSelected ==
  ASSUME Selected, UNCHANGED <<request, reference>>
  PROVE  Selected' /\ Limits' = Limits /\ Options' = Options
<1>1. Limits' = Limits /\ Options' = Options
  BY DEF Limits, Options
<1>2. resolveLimits' = resolveLimits
  BY <1>1 DEF resolveLimits, MinLimits
<1> QED BY <1>1, <1>2 DEF Selected

(* FindCandidates keeps the invariant.                                     *)
LEMMA FindCandidatesOK ==
  ASSUME IInv, FindCandidates
  PROVE  IInv'
<1> DEFINE n == Options.candidateCount
           spent == operationsPerStart * Cardinality(rawCandidates)
<1>1. /\ stage = "coarse" /\ error = "none" /\ request \in Requests /\ results = <<>> /\ results \in Seq(PathsOfTimes)
      /\ Selected /\ operations \in 1..Limits.maxOperations
  BY DEF FindCandidates, IInv, CallOK, SearchOK, ResultsOK
<1>2. UNCHANGED <<request, reference, sampled, rows, results>>
  BY DEF FindCandidates
<1>3. Selected' /\ Limits' = Limits /\ Options' = Options
  BY <1>1, <1>2, StaysSelected
<1>4. \/ Fails("NO_CANDIDATE")
      \/ Fails("LIMIT_EXCEEDED")
      \/ Fails("TIME_BUDGET_EXCEEDED")
      \/ /\ eligibleScales # {} /\ ~(maximumStartsPerScale < 1)
         /\ \E good : candidates' = selectDistinctCandidates(good, rawCandidates, n)
         /\ operations' = operations + spent /\ operations' <= Limits.maxOperations
         /\ stage' = "dtw" /\ error' = error
  BY DEF FindCandidates, Checkpoint, Continues
<1>5. CASE Fails("NO_CANDIDATE") \/ Fails("LIMIT_EXCEEDED") \/ Fails("TIME_BUDGET_EXCEEDED")
  <2>1. stage' = "failed" /\ error' \in {"NO_CANDIDATE", "LIMIT_EXCEEDED", "TIME_BUDGET_EXCEEDED"}
    BY <1>5 DEF Fails
  <2>2. CallOK'
    BY <1>1, <1>2, <2>1 DEF CallOK, Stages, Errors
  <2>3. SearchOK' /\ WarpingOK' /\ PathIsCheapest'
    BY <2>1 DEF SearchOK, WarpingOK, PathIsCheapest
  <2>4. ResultsOK'
    BY <1>1, <1>2, <2>1 DEF ResultsOK
  <2> QED BY <2>2, <2>3, <2>4 DEF IInv
<1>6. CASE /\ eligibleScales # {} /\ ~(maximumStartsPerScale < 1)
           /\ \E good : candidates' = selectDistinctCandidates(good, rawCandidates, n)
           /\ operations' = operations + spent /\ operations' <= Limits.maxOperations
           /\ stage' = "dtw" /\ error' = error
  <2>1. PICK good : candidates' = selectDistinctCandidates(good, rawCandidates, Options.candidateCount)
    BY <1>6
  <2>2. maximumStartsPerScale >= 1 /\ eligibleScales # {}
    <3>1. maximumStartsPerScale \in Int
      BY <1>1, <1>6, MostStarts
    <3> QED BY <1>6, <3>1
  <2>3. /\ AreDistinct(candidates', rawCandidates, request.dut, Options, Limits)
        /\ candidates' \in Seq(Candidate) /\ candidates' # <<>>
        /\ \A k \in 1..Len(candidates') : Fits(request.dut, candidates'[k])
    <3> DEFINE q == selectDistinctCandidates(good, rawCandidates, Options.candidateCount)
    <3>1. /\ AreDistinct(q, rawCandidates, request.dut, Options, Limits)
          /\ q \in Seq(Candidate) /\ q # <<>>
          /\ \A k \in 1..Len(q) : Fits(request.dut, q[k])
      BY <1>1, <2>2, CandidatesFound
    <3>2. candidates' = q
      BY <2>1
    <3> HIDE DEF q
    <3> QED BY <3>1, <3>2
  <2>4. rawCandidates' = rawCandidates
    BY <1>2, RawUnchanged
  <2>5. operations' \in 1..Limits.maxOperations
    <3>1. spent \in Nat /\ Limits.maxOperations \in Nat
      BY <1>1, <2>2, CandidatesFit, LimitTypes
    <3> HIDE DEF spent
    <3> QED BY <1>1, <1>6, <3>1
  <2>6. Len(results') < Options.fineCandidateCount
    <3>1. Options.fineCandidateCount \in Nat /\ Options.fineCandidateCount >= 1
      BY <1>1, OptionTypes
    <3> QED BY <1>1, <1>2, <3>1
  <2>7. CallOK'
    BY <1>1, <1>2, <1>6 DEF CallOK, Stages, Errors
  <2>8. SearchOK'
    BY <1>2, <1>3, <1>6, <2>3, <2>4, <2>5, <2>6 DEF SearchOK
  <2>9. WarpingOK' /\ PathIsCheapest'
    BY <1>1, <1>2, <1>6 DEF WarpingOK, PathIsCheapest
  <2>10. ResultsOK'
    BY <1>1, <1>2, <1>6 DEF ResultsOK
  <2> QED BY <2>7, <2>8, <2>9, <2>10 DEF IInv
<1> QED BY <1>4, <1>5, <1>6

(* A table without rows.                                                   *)
LEMMA NoRows ==
  ASSUME NEW s, Sampling(s)
  PROVE  Table(s, <<>>) /\ Len(<<>>) <= LastRow(s)
<1>1. LastRow(s) \in Nat /\ LastRow(s) >= 1
  BY LastRows
<1>2. TableOf(s, <<>>, 0)
  BY DEF TableOf
<1> QED BY <1>1, <1>2 DEF Table

(* A row has finitely many cells.                                          *)
LEMMA RowIsFinite ==
  ASSUME NEW s, Sampling(s), NEW table, Table(s, table), Len(table) <= LastRow(s),
         NEW n, n = Len(table),
         NEW row, row = IF n = 0 THEN FirstRow(s) ELSE RowOf(s, table[n], n)
  PROVE  Cardinality(DOMAIN row) \in Nat
<1> DEFINE new == Append(table, row)
           R == UNION {[BandRange(s, i) -> Cell] : i \in 0..LastRow(s)}
<1>1. Table(s, new) /\ Len(new) = n + 1
  BY TableGrows
<1>2. table \in Seq(R) /\ n \in Nat /\ n <= LastRow(s) /\ LastRow(s) \in Nat
  BY LastRows DEF Table
<1>3. new[n + 1] = row
  BY <1>2
<1> HIDE DEF new, R
<1>4. new[n + 1] \in [BandRange(s, n) -> Cell]
  <2>1. TableOf(s, new, n + 1) /\ n \in 0..((n + 1) - 1)
    BY <1>1, <1>2 DEF Table
  <2> QED BY <2>1 DEF TableOf
<1>5. DOMAIN row = BandRange(s, n)
  BY <1>3, <1>4
<1>6. IsFiniteSet(BandRange(s, n))
  <2>1. n \in 0..LastRow(s)
    BY <1>2
  <2>2. BandStart(s, n) \in Int /\ BandEnd(s, n) \in Int
    BY <2>1, BandShape
  <2> QED BY <2>2, FS_Interval DEF BandRange
<1> QED BY <1>5, <1>6, FS_CardinalityType

(* StartDtw keeps the invariant.                                           *)
LEMMA StartDtwOK ==
  ASSUME IInv, StartDtw
  PROVE  IInv'
<1> DEFINE c == Head(candidates)
           s == SampledOf(c)
<1>1. /\ stage = "dtw" /\ error = "none" /\ request \in Requests /\ results \in Seq(PathsOfTimes)
      /\ Selected /\ operations \in 1..Limits.maxOperations
      /\ candidates \in Seq(Candidate) /\ candidates # <<>>
      /\ \A k \in 1..Len(candidates) : Fits(request.dut, candidates[k])
      /\ Len(results) < Options.fineCandidateCount
  BY DEF StartDtw, IInv, CallOK, SearchOK, ResultsOK
<1>2. UNCHANGED <<request, reference, results, operations>> /\ rows' = <<>> /\ candidates' = Tail(candidates)
  BY DEF StartDtw
<1>3. Selected' /\ Limits' = Limits /\ Options' = Options
  BY <1>1, <1>2, StaysSelected
<1>4. Len(candidates) \in Nat /\ Len(candidates) >= 1 /\ c = candidates[1]
  BY <1>1
<1>5. Fits(request.dut, c)
  <2>1. 1 \in 1..Len(candidates)
    BY <1>4
  <2> QED BY <1>1, <1>4, <2>1
<1> HIDE DEF c
<1>6. InRange(request.dut, PaddedStart(c), PaddedEnd(c))
  BY <1>1, <1>5, PaddedRange
<1>7. sampled' = s /\ (Fails("LIMIT_EXCEEDED") \/ Continues("row"))
  BY <1>6 DEF StartDtw, SampledOf, PaddedStart, PaddedEnd, c
<1>8. Sampling(s) /\ Cover(s, request)
  BY <1>1, <1>5, SampledOfCandidate
<1>9. /\ candidates' \in Seq(Candidate)
      /\ \A k \in 1..Len(candidates') : Fits(request.dut, candidates'[k])
  <2> DEFINE q == candidates
             n == Len(q)
  <2>1. q \in Seq(Candidate) /\ q # <<>> /\ n \in Nat /\ n >= 1
    BY <1>1, <1>4
  <2>2. Tail(q) \in Seq(Candidate) /\ Len(Tail(q)) = n - 1
    BY <2>1
  <2>3. ASSUME NEW k \in 1..(n - 1) PROVE Fits(request.dut, Tail(q)[k])
    <3>1. Tail(q)[k] = q[k + 1] /\ k + 1 \in 1..n
      BY <2>1
    <3> QED BY <1>1, <3>1
  <2> QED BY <1>2, <2>2, <2>3
<1> HIDE DEF s
<1>10. CallOK' /\ ResultsOK' /\ stage' \in {"failed", "row"} /\ error' # "DTW_FAILED"
  BY <1>1, <1>2, <1>7 DEF CallOK, ResultsOK, Stages, Errors, Fails, Continues, IInv
<1>11. SearchOK'
  BY <1>1, <1>2, <1>3, <1>9, <1>10 DEF SearchOK
<1>12. WarpingOK'
  <2>1. Table(s, <<>>) /\ Len(<<>>) <= LastRow(s)
    BY <1>8, NoRows
  <2>2. Sampling(sampled') /\ Table(sampled', rows') /\ Len(rows') <= LastRow(sampled') /\ Cover(sampled', request')
    BY <1>2, <1>7, <1>8, <2>1
  <2> QED BY <1>10, <2>2 DEF WarpingOK
<1>13. PathIsCheapest'
  BY <1>10 DEF PathIsCheapest
<1> QED BY <1>10, <1>11, <1>12, <1>13 DEF IInv

(* DtwRow keeps the invariant.                                             *)
LEMMA DtwRowOK ==
  ASSUME IInv, DtwRow
  PROVE  IInv'
<1> DEFINE n == Len(rows)
           row == IF n = 0 THEN FirstRow(sampled) ELSE RowOf(sampled, rows[n], n)
           new == Append(rows, row)
           spent == Cardinality(DOMAIN row)
<1>1. /\ stage = "row" /\ error = "none" /\ request \in Requests /\ results \in Seq(PathsOfTimes)
      /\ Selected /\ operations \in 1..Limits.maxOperations
      /\ candidates \in Seq(Candidate)
      /\ \A k \in 1..Len(candidates) : Fits(request.dut, candidates[k])
      /\ Len(results) < Options.fineCandidateCount
      /\ Sampling(sampled) /\ Table(sampled, rows) /\ n <= LastRow(sampled) /\ Cover(sampled, request)
  BY DEF DtwRow, IInv, CallOK, SearchOK, WarpingOK, ResultsOK
<1>2. UNCHANGED <<request, reference, candidates, sampled, results>> /\ rows' = new
  BY DEF DtwRow
<1>3. Selected' /\ Limits' = Limits /\ Options' = Options
  BY <1>1, <1>2, StaysSelected
<1>4. \/ Fails("LIMIT_EXCEEDED") \/ Fails("TIME_BUDGET_EXCEEDED")
      \/ /\ operations' = operations + spent /\ operations' <= Limits.maxOperations
         /\ error' = error
         /\ stage' = IF n + 1 = Count(sampled.ref.timestamps) THEN "backtrack" ELSE "row"
  BY DEF DtwRow, Checkpoint, Continues
<1>5. Table(sampled, new) /\ Len(new) = n + 1
  BY <1>1, TableGrows
<1>6. spent \in Nat
  BY <1>1, RowIsFinite
<1>7. Count(sampled.ref.timestamps) = LastRow(sampled) + 1 /\ LastRow(sampled) \in Nat /\ n \in Nat
  <2>1. Count(sampled.ref.timestamps) = LastRow(sampled) + 1 /\ LastRow(sampled) \in Nat
    BY <1>1, LastRows
  <2>2. n \in Nat
    BY <1>1 DEF Table
  <2> QED BY <2>1, <2>2
<1> HIDE DEF row, new, spent, n
<1>8. CASE Fails("LIMIT_EXCEEDED") \/ Fails("TIME_BUDGET_EXCEEDED")
  <2>1. stage' = "failed" /\ error' \in {"LIMIT_EXCEEDED", "TIME_BUDGET_EXCEEDED"}
    BY <1>8 DEF Fails
  <2>2. CallOK'
    BY <1>1, <1>2, <2>1 DEF CallOK, Stages, Errors
  <2>3. SearchOK' /\ WarpingOK' /\ PathIsCheapest'
    BY <2>1 DEF SearchOK, WarpingOK, PathIsCheapest
  <2>4. ResultsOK'
    BY <1>1, <1>2, <2>1 DEF ResultsOK
  <2> QED BY <2>2, <2>3, <2>4 DEF IInv
<1>9. CASE /\ operations' = operations + spent /\ operations' <= Limits.maxOperations
           /\ error' = error
           /\ stage' = IF n + 1 = Count(sampled.ref.timestamps) THEN "backtrack" ELSE "row"
  <2>1. stage' \in {"row", "backtrack"} /\ error' = "none"
    BY <1>1, <1>9
  <2>2. operations' \in 1..Limits.maxOperations
    <3>1. Limits.maxOperations \in Nat
      BY <1>1, LimitTypes
    <3> QED BY <1>1, <1>6, <1>9, <3>1
  <2>3. CallOK'
    BY <1>1, <1>2, <2>1 DEF CallOK, Stages, Errors, IInv
  <2>4. SearchOK'
    BY <1>1, <1>2, <1>3, <2>1, <2>2 DEF SearchOK
  <2>5. WarpingOK'
    <3>1. Sampling(sampled') /\ Table(sampled', rows') /\ Cover(sampled', request')
      BY <1>1, <1>2, <1>5
    <3>2. Len(rows') = n + 1 /\ LastRow(sampled') = LastRow(sampled)
      BY <1>2, <1>5
    <3>3. stage' = "row" => Len(rows') <= LastRow(sampled')
      BY <1>1, <1>7, <1>9, <3>2 DEF n
    <3>4. stage' = "backtrack" => Len(rows') = LastRow(sampled') + 1
      BY <1>7, <1>9, <3>2
    <3> QED BY <3>1, <3>3, <3>4 DEF WarpingOK
  <2>6. ResultsOK' /\ PathIsCheapest'
    BY <1>1, <1>2, <2>1 DEF ResultsOK, PathIsCheapest
  <2> QED BY <2>3, <2>4, <2>5, <2>6 DEF IInv
<1> QED BY <1>4, <1>8, <1>9

(* Backtrack keeps the invariant: the path it finds is the cheapest way    *)
(* through.                                                                *)
LEMMA BacktrackOK ==
  ASSUME IInv, Backtrack
  PROVE  IInv'
<1> DEFINE s == sampled
           R == LastRow(s)
           row == Last(rows)
           end == Min(BestEnds(s, row))
           path == PathTo(s, rows, <<Len(rows) - 1, end>>)
           p == [k \in DOMAIN path |-> [index |-> path[k],
                                        referenceTime |-> s.ref.timestamps[path[k][1]],
                                        dutTime |-> s.dut.timestamps[path[k][2]]]]
           fine == Options.fineCandidateCount
<1>1. /\ stage = "backtrack" /\ error = "none" /\ request \in Requests /\ results \in Seq(PathsOfTimes)
      /\ Selected /\ operations \in 1..Limits.maxOperations
      /\ candidates \in Seq(Candidate)
      /\ \A k \in 1..Len(candidates) : Fits(request.dut, candidates[k])
      /\ Len(results) < fine
      /\ Sampling(s) /\ Table(s, rows) /\ Len(rows) = R + 1
  BY DEF Backtrack, IInv, CallOK, SearchOK, WarpingOK, ResultsOK
<1>2. UNCHANGED <<request, reference, candidates, sampled, rows, operations>>
  BY DEF Backtrack
<1>3. Selected' /\ Limits' = Limits /\ Options' = Options
  BY <1>1, <1>2, StaysSelected
<1>4. \/ (EndCost(s, row, end) = Infinity \/ path = <<>>) /\ Fails("DTW_FAILED") /\ results' = results
      \/ /\ ~(EndCost(s, row, end) = Infinity \/ path = <<>>)
         /\ results' = Append(results, p)
         /\ error' = error
         /\ stage' = IF candidates = <<>> \/ Len(results) + 1 = fine THEN "map" ELSE "dtw"
  BY DEF Backtrack, Continues
<1>5. R \in Nat /\ R >= 1 /\ row = rows[R + 1] /\ Len(rows) - 1 = R
  <2>1. R \in Nat /\ R >= 1
    BY <1>1, LastRows
  <2> HIDE DEF R
  <2> QED BY <1>1, <2>1 DEF Last
<1>6. Full(s, rows)
  BY <1>1 DEF Full, Table
<1>7. path = PathTo(s, rows, <<R, end>>)
  BY <1>5
<1> HIDE DEF row, path, end
<1>8. /\ EndCost(s, row, end) # Infinity =>
            /\ path # <<>>
            /\ \E w \in WaysThrough(s) : w.cells = path /\ \A v \in WaysThrough(s) : WholeCost(s, w) <= WholeCost(s, v)
      /\ EndCost(s, row, end) = Infinity => WaysThrough(s) = {}
  BY <1>5, <1>6, <1>7, CheapestPath DEF end
<1>9. fine \in Nat /\ Len(results) \in Nat
  BY <1>1, OptionTypes
<1>10. CASE (EndCost(s, row, end) = Infinity \/ path = <<>>) /\ Fails("DTW_FAILED") /\ results' = results
  <2>1. stage' = "failed" /\ error' = "DTW_FAILED"
    BY <1>10 DEF Fails
  <2>2. WaysThrough(s) = {}
    BY <1>8, <1>10
  <2>3. CallOK'
    BY <1>1, <1>2, <2>1 DEF CallOK, Stages, Errors
  <2>4. SearchOK' /\ WarpingOK'
    BY <2>1 DEF SearchOK, WarpingOK
  <2>5. ResultsOK'
    BY <1>1, <1>10, <2>1 DEF ResultsOK
  <2>6. PathIsCheapest'
    BY <1>2, <2>1, <2>2 DEF PathIsCheapest
  <2> QED BY <2>3, <2>4, <2>5, <2>6 DEF IInv
<1>11. CASE /\ ~(EndCost(s, row, end) = Infinity \/ path = <<>>)
            /\ results' = Append(results, p)
            /\ error' = error
            /\ stage' = IF candidates = <<>> \/ Len(results) + 1 = fine THEN "map" ELSE "dtw"
  <2>1. PICK w \in WaysThrough(s) : w.cells = path /\ \A v \in WaysThrough(s) : WholeCost(s, w) <= WholeCost(s, v)
    BY <1>8, <1>11
  <2>2. PathOfTimes(p)
    <3> DEFINE q == p
    <3>1. q = [k \in DOMAIN path |-> [index |-> path[k],
                                      referenceTime |-> s.ref.timestamps[path[k][1]],
                                      dutTime |-> s.dut.timestamps[path[k][2]]]]
      OBVIOUS
    <3>2. path = w.cells
      BY <2>1
    <3> HIDE DEF q
    <3>3. PathOfTimes(q)
      BY <1>1, <3>1, <3>2, WaysArePaths
    <3> QED BY <3>3 DEF q
  <2>3. DOMAIN p = DOMAIN path /\ \A k \in DOMAIN path : p[k].index = path[k]
    OBVIOUS
  <2>4. path = [k \in DOMAIN p |-> p[k].index]
    <3>1. Threads(s, w.cells)
      <4>1. PICK m \in 1..Longest(s) : w \in Ways(s)[m]
        BY <2>1 DEF WaysThrough
      <4> QED BY <1>1, <4>1, WaysThread
    <3>2. path \in Seq(Nat \X Nat)
      BY <2>1, <3>1 DEF Threads
    <3>3. path = [k \in DOMAIN path |-> path[k]]
      BY <3>2
    <3> HIDE DEF p
    <3> QED BY <2>3, <3>3
  <2> HIDE DEF p
  <2>5. p \in PathsOfTimes
    BY <2>2 DEF PathsOfTimes, PathOfTimes
  <2>6. /\ results' \in Seq(PathsOfTimes) /\ results' # <<>> /\ Len(results') = Len(results) + 1
        /\ Last(results') = p
    <3> DEFINE X == PathsOfTimes
               new == Append(results, p)
    <3>1. results \in Seq(X) /\ p \in X
      BY <1>1, <2>5
    <3> HIDE DEF X
    <3>2. new \in Seq(X) /\ Len(new) = Len(results) + 1 /\ new # <<>> /\ new[Len(results) + 1] = p
      BY <3>1
    <3> HIDE DEF new
    <3>3. Last(new) = p
      BY <3>2 DEF Last
    <3>4. results' = new
      BY <1>11 DEF new
    <3> QED BY <3>2, <3>3, <3>4 DEF X
  <2>7. /\ stage' \in {"map", "dtw"} /\ error' = "none"
        /\ stage' = "dtw" => candidates # <<>> /\ Len(results') < fine
        /\ Len(results') \in 1..fine
    BY <1>1, <1>9, <1>11, <2>6
  <2>8. CallOK'
    BY <1>1, <1>2, <2>7 DEF CallOK, Stages, Errors
  <2>9. SearchOK'
    BY <1>1, <1>2, <1>3, <2>6, <2>7 DEF SearchOK
  <2>10. WarpingOK'
    BY <2>7 DEF WarpingOK
  <2>11. ResultsOK'
    BY <1>3, <2>6, <2>7 DEF ResultsOK
  <2>12. PathIsCheapest'
    <3>1. \E v \in WaysThrough(sampled') :
                /\ v.cells = [k \in DOMAIN Last(results') |-> Last(results')[k].index]
                /\ \A u \in WaysThrough(sampled') : WholeCost(sampled', v) <= WholeCost(sampled', u)
      BY <1>2, <2>1, <2>4, <2>6
    <3>2. error' # "DTW_FAILED"
      BY <2>7
    <3> QED BY <3>1, <3>2 DEF PathIsCheapest
  <2> QED BY <2>8, <2>9, <2>10, <2>11, <2>12 DEF IInv
<1> QED BY <1>4, <1>10, <1>11

(* A number or 1, whichever is greater.                                    *)
LEMMA AtLeastOne ==
  ASSUME NEW d \in Int
  PROVE  Max({1, d}) \in Int /\ Max({1, d}) >= 1
<1>1. Max({1, d}) = IF 1 <= d THEN d ELSE 1
  BY MinMaxTwo
<1> QED BY <1>1

(* The tolerance of points is a number.                                    *)
LEMMA Tolerances ==
  ASSUME request \in Requests, NEW q, Points(q), Len(q) >= 2
  PROVE  Tolerance(q) \in Nat
<1> DEFINE n == Len(q)
           x == q[1].dutTime
           y == q[n].dutTime
<1>1. Options.tolerance \in Int
  BY OptionTypes
<1>2. n \in Nat /\ \A k \in 1..n : q[k].dutTime \in Int
  BY PointsRise
<1>3. x \in Int /\ y \in Int
  <2>1. 1 \in 1..n /\ n \in 1..n
    BY <1>2
  <2> QED BY <1>2, <2>1
<1> DEFINE d == Distance(x, y) \div 1000
<1>4. d \in Int
  <2>1. Distance(x, y) \in Int /\ 1000 \in Nat \ {0}
    <3> HIDE DEF x, y
    <3> QED BY <1>3 DEF Distance
  <2> DEFINE z == Distance(x, y)
  <2> HIDE DEF z
  <2>2. z \div 1000 \in Int
    BY <2>1, Quotient DEF z
  <2> QED BY <2>2 DEF z
<1>5. Tolerance(q) = IF Options.tolerance >= 0 THEN Options.tolerance ELSE Max({1, d})
  BY DEF Tolerance
<1> HIDE DEF d, x, y, n
<1>6. Max({1, d}) \in Nat
  BY <1>4, AtLeastOne
<1> QED BY <1>1, <1>5, <1>6

(* BuildMapping keeps the invariant: the mapping it makes is in order, so  *)
(* that it does not fail.                                                  *)
LEMMA BuildMappingOK ==
  ASSUME IInv, BuildMapping
  PROVE  IInv'
<1>1. /\ stage = "map" /\ error = "none" /\ request \in Requests /\ results \in Seq(PathsOfTimes)
      /\ Selected /\ operations \in 1..Limits.maxOperations
  BY DEF BuildMapping, IInv, CallOK, SearchOK, ResultsOK
<1>2. UNCHANGED <<request, reference, candidates, sampled, rows, results, operations>>
  BY DEF BuildMapping
<1>3. Selected' /\ Limits' = Limits /\ Options' = Options
  BY <1>1, <1>2, StaysSelected
<1>4. PICK best \in Range(results) :
        LET points == Collapsed(best)
            simple == simplifyRdp(points, Tolerance(points))
        IN  IF Len(points) < 2 THEN Fails("INVALID_MAPPING") /\ UNCHANGED mapping
            ELSE /\ mapping' = [points |-> capPoints(simple, Limits.maxMappingPoints), collapsed |-> points,
                                capped |-> Len(simple) > Limits.maxMappingPoints]
                 /\ IF Ascending(mapping'.points) THEN Continues("done") ELSE Fails("INVALID_MAPPING")
  BY DEF BuildMapping
<1> DEFINE points == Collapsed(best)
           simple == simplifyRdp(points, Tolerance(points))
           capped == capPoints(simple, Limits.maxMappingPoints)
<1>5. PathOfTimes(best)
  <2>1. best \in PathsOfTimes
    <3>1. PICK k \in DOMAIN results : best = results[k]
      BY DEF Range
    <3> DEFINE X == PathsOfTimes
    <3>2. results \in Seq(X)
      BY <1>1
    <3> HIDE DEF X
    <3>3. results[k] \in X
      BY <3>2
    <3> QED BY <3>1, <3>3 DEF X
  <2> QED BY <2>1 DEF PathsOfTimes
<1>6. Points(points) /\ Len(points) >= 2
  BY <1>5, CollapsedIs
<1>7. Ascending(capped)
  <2>1. Tolerance(points) \in Nat
    BY <1>1, <1>6, Tolerances
  <2>2. Limits.maxMappingPoints \in Nat /\ Limits.maxMappingPoints >= 2
    BY <1>1, LimitTypes DEF Selected
  <2> QED BY <1>5, <2>1, <2>2, PathsMap
<1>8. stage' = "done" /\ error' = "none"
  <2>1. Len(points) \in Nat
    BY <1>6, PointsRise
  <2>2. ~(Len(points) < 2)
    BY <1>6, <2>1
  <2>3. /\ mapping' = [points |-> capped, collapsed |-> points, capped |-> Len(simple) > Limits.maxMappingPoints]
        /\ IF Ascending(mapping'.points) THEN Continues("done") ELSE Fails("INVALID_MAPPING")
    BY <1>4, <2>2
  <2> HIDE DEF points, simple, capped
  <2>4. mapping'.points = capped
    BY <2>3
  <2> QED BY <1>1, <1>7, <2>3, <2>4 DEF Continues
<1>9. CallOK'
  BY <1>1, <1>2, <1>8 DEF CallOK, Stages, Errors
<1>10. SearchOK'
  BY <1>1, <1>2, <1>3, <1>8 DEF SearchOK
<1>11. WarpingOK' /\ PathIsCheapest'
  BY <1>8 DEF WarpingOK, PathIsCheapest
<1>12. ResultsOK'
  BY <1>1, <1>2, <1>8 DEF ResultsOK
<1> QED BY <1>9, <1>10, <1>11, <1>12 DEF IInv

(* A step that changes nothing keeps the invariant.                        *)
LEMMA StutterOK ==
  ASSUME IInv, UNCHANGED vars
  PROVE  IInv'
<1>1. /\ request' = request /\ stage' = stage /\ error' = error /\ reference' = reference
      /\ candidates' = candidates /\ sampled' = sampled /\ rows' = rows /\ results' = results
      /\ mapping' = mapping /\ operations' = operations
  BY DEF vars
<1>2. Limits' = Limits /\ Options' = Options
  BY <1>1 DEF Limits, Options
<1>3. resolveLimits' = resolveLimits
  BY <1>2 DEF resolveLimits, MinLimits
<1>4. Selected' = Selected
  BY <1>1, <1>3 DEF Selected
<1>5. rawCandidates' = rawCandidates
  BY <1>1, RawUnchanged
<1>6. CallOK' /\ ResultsOK'
  BY <1>1, <1>2 DEF IInv, CallOK, ResultsOK
<1>7. SearchOK'
  BY <1>1, <1>2, <1>4, <1>5 DEF IInv, SearchOK
<1>8. WarpingOK'
  BY <1>1 DEF IInv, WarpingOK
<1>9. PathIsCheapest'
  BY <1>1 DEF IInv, PathIsCheapest
<1> QED BY <1>6, <1>7, <1>8, <1>9 DEF IInv

(* Every call keeps to its types, searches windows that fit, fills a table *)
(* whose cells follow from their neighbours, and finds paths that are the  *)
(* cheapest ways.                                                          *)
THEOREM Invariance == Spec => []IInv
<1>1. Init => IInv
  BY InitOK
<1>2. IInv /\ [Next]_vars => IInv'
  <2> SUFFICES ASSUME IInv, [Next]_vars PROVE IInv'
    OBVIOUS
  <2>1. CASE Select
    BY <2>1, SelectOK
  <2>2. CASE FindCandidates
    BY <2>2, FindCandidatesOK
  <2>3. CASE StartDtw
    BY <2>3, StartDtwOK
  <2>4. CASE DtwRow
    BY <2>4, DtwRowOK
  <2>5. CASE Backtrack
    BY <2>5, BacktrackOK
  <2>6. CASE BuildMapping
    BY <2>6, BuildMappingOK
  <2>7. CASE UNCHANGED vars
    BY <2>7, StutterOK
  <2> QED BY <2>1, <2>2, <2>3, <2>4, <2>5, <2>6, <2>7 DEF Next
<1> QED BY <1>1, <1>2, PTL DEF Spec

(* The types, the operations and the lengths of what is kept.              *)
THEOREM TypesHold == Spec => []TypeOK
<1>1. IInv => TypeOK
  <2> SUFFICES ASSUME IInv PROVE TypeOK
    OBVIOUS
  <2>1. stage = "row" => Len(rows) < Count(sampled.ref.timestamps)
    <3> SUFFICES ASSUME stage = "row" PROVE Len(rows) < Count(sampled.ref.timestamps)
      OBVIOUS
    <3>1. Sampling(sampled) /\ Table(sampled, rows) /\ Len(rows) <= LastRow(sampled)
      BY DEF IInv, WarpingOK
    <3>2. LastRow(sampled) \in Nat /\ Count(sampled.ref.timestamps) = LastRow(sampled) + 1
      BY <3>1, LastRows
    <3>3. Len(rows) \in Nat
      BY <3>1 DEF Table
    <3> QED BY <3>1, <3>2, <3>3
  <2> QED BY <2>1 DEF IInv, CallOK, SearchOK, ResultsOK, TypeOK
<1> QED BY <1>1, Invariance, PTL

(* A call fails of what the caller can know.                               *)
THEOREM FailuresAreKnown == Spec => []FailuresAreTheCallers
<1>1. IInv => FailuresAreTheCallers
  BY DEF IInv, CallOK, Errors, FailuresAreTheCallers
<1> QED BY <1>1, Invariance, PTL

(* The candidates lie in the DUT series, well apart and complete, within   *)
(* the limit of the search; and the samples of one run over its whole      *)
(* range, within the limit on samples (findCoarseCandidates,               *)
(* alignTimeSeries).                                                       *)
THEOREM WindowsHold == Spec => []WindowsAreSound
<1>1. IInv => WindowsAreSound
  <2> SUFFICES ASSUME IInv PROVE WindowsAreSound
    OBVIOUS
  <2>1. stage = "dtw" /\ results = <<>> => CandidatesAreDistinct
    BY DEF IInv, SearchOK, AreDistinct, CandidatesAreDistinct, operationsPerStart
  <2>2. stage = "row" => SamplesCoverTheRange
    BY DEF IInv, WarpingOK, Cover, SamplesCoverTheRange, Limits
  <2> QED BY <2>1, <2>2 DEF WindowsAreSound
<1> QED BY <1>1, Invariance, PTL

(* The path that dtw.mjs finds is a way through the band that no other way *)
(* costs less than; it fails only if there is no way through.              *)
THEOREM PathsAreCheapest == Spec => []PathIsCheapest
<1>1. IInv => PathIsCheapest
  BY DEF IInv
<1> QED BY <1>1, Invariance, PTL

-----------------------------------------------------------------------------
(* The mapping is sound.                                                   *)

(* A time in the DUT series.                                               *)
InDut(dut, t) == dut.timestamps[0] <= t /\ t <= Final(dut.timestamps)

(* The selection of a call has its times a nanosecond apart.               *)
LEMMA SelectionSpaced ==
  ASSUME request \in Requests, Valid(request.ref), InRange(request.ref, request.start, request.end),
         Limits.maxSamples \in Nat, Limits.maxSamples >= 2,
         NEW selected, selected = sampleSeriesRange(request.ref, request.start, request.end, Limits.maxSamples)
  PROVE  Spaced(Stamps(selected))
<1> DEFINE T == Stamps(request.ref) \cup {request.start, request.end}
<1>1. request.start \in Int /\ request.end \in Int /\ IsSeries(request.ref)
  BY RequestTypes
<1>2. T \in SUBSET Int
  <2>1. \A i \in DOMAIN request.ref.timestamps : request.ref.timestamps[i] \in Int
    BY <1>1 DEF IsSeries
  <2> QED BY <1>1, <2>1 DEF Stamps
<1>3. \A t \in T : Unit * (t \div Unit) = t
  BY WholeNanoseconds DEF Stamps
<1> HIDE DEF T
<1>4. Spaced(T)
  BY <1>2, <1>3, WholeSpaced
<1> QED BY <1>1, <1>4, SampledSpaced DEF T

(* What is sampled of a candidate has REF times a nanosecond apart, and    *)
(* DUT times in the DUT series.                                            *)
LEMMA SampledInDut ==
  ASSUME Selected, Spaced(Stamps(reference)), NEW c, Fits(request.dut, c), NEW s, s = SampledOf(c)
  PROVE  Spaced(Stamps(s.ref)) /\ \A t \in Stamps(s.dut) : InDut(request.dut, t)
<1> DEFINE a == reference.timestamps[0]
           b == Final(reference.timestamps)
           m == Limits.maxDtwSamples
           R == sampleSeriesRange(reference, a, b, m)
           x == PaddedStart(c)
           y == PaddedEnd(c)
           D == sampleSeriesRange(request.dut, x, y, m)
<1>1. s.ref = R /\ s.dut = D
  BY DEF SampledOf
<1>2. Valid(reference) /\ Valid(request.dut) /\ m \in Nat /\ m >= 2 /\ request \in Requests
      /\ a = request.start /\ b = request.end /\ request.start < request.end
      /\ request.start \in Int /\ request.end \in Int
  BY LimitTypes, RequestTypes DEF Selected
<1>3. Spaced(Stamps(R))
  <2>1. a \in Int /\ b \in Int /\ a < b
    BY <1>2
  <2>2. InRange(reference, a, b)
    BY <2>1 DEF InRange
  <2>3. Stamps(reference) \cup {a, b} = Stamps(reference)
    <3> DEFINE n == Count(reference.timestamps)
    <3>1. /\ n \in Nat /\ n >= 2 /\ reference.timestamps \in [0..(n - 1) -> Int]
          /\ Final(reference.timestamps) = reference.timestamps[n - 1]
          /\ 0 \in 0..(n - 1) /\ n - 1 \in 0..(n - 1)
      BY <1>2, ValidParts
    <3> HIDE DEF n
    <3>2. a \in Stamps(reference) /\ b \in Stamps(reference)
      BY <3>1 DEF Stamps
    <3> QED BY <3>2
  <2>4. Spaced(Stamps(reference) \cup {a, b})
    BY <2>3
  <2> HIDE DEF a, b, m
  <2> QED BY <1>2, <2>1, <2>2, <2>4, SampledSpaced
<1>4. \A t \in Stamps(D) : InDut(request.dut, t)
  <2>1. x \in Int /\ y \in Int /\ InRange(request.dut, x, y)
    BY PaddedRange
  <2> DEFINE n == Count(D.timestamps)
  <2>2. /\ Valid(D) /\ D.timestamps[0] = x /\ Final(D.timestamps) = y
        /\ DOMAIN D.timestamps = 0..(n - 1)
    <3> HIDE DEF x, y, m
    <3> QED BY <1>2, <2>1, SampledSeries
  <2> HIDE DEF D, x, y
  <2>3. /\ n \in Nat /\ n >= 2 /\ D.timestamps \in [0..(n - 1) -> Int]
        /\ Final(D.timestamps) = D.timestamps[n - 1]
        /\ \A i, j \in 0..(n - 1) : i <= j => D.timestamps[i] <= D.timestamps[j]
        /\ 0 \in 0..(n - 1) /\ n - 1 \in 0..(n - 1)
    BY <2>2, ValidParts
  <2>4. request.dut.timestamps[0] <= x /\ y <= Final(request.dut.timestamps)
    BY <2>1 DEF InRange
  <2>5. request.dut.timestamps[0] \in Int /\ Final(request.dut.timestamps) \in Int
    BY Lengths
  <2> HIDE DEF n
  <2>6. ASSUME NEW t \in Stamps(D) PROVE InDut(request.dut, t)
    <3>1. PICK i \in 0..(n - 1) : t = D.timestamps[i]
      BY <2>2 DEF Stamps
    <3>2. 0 <= i /\ i <= n - 1 /\ t \in Int
      BY <2>3, <3>1
    <3>3. x <= t /\ t <= y
      BY <2>2, <2>3, <3>1, <3>2
    <3> QED BY <2>1, <2>4, <2>5, <3>2, <3>3 DEF InDut
  <2> QED BY <2>6
<1> QED BY <1>1, <1>3, <1>4

(* The times of a way are those of the samples.                            *)
LEMMA PathTimes ==
  ASSUME NEW s, Sampling(s), NEW w \in WaysThrough(s), NEW path, path = w.cells,
         NEW p, p = [k \in DOMAIN path |-> [index |-> path[k],
                                            referenceTime |-> s.ref.timestamps[path[k][1]],
                                            dutTime |-> s.dut.timestamps[path[k][2]]]]
  PROVE  /\ RefTimes(p) \subseteq Stamps(s.ref)
         /\ \A k \in DOMAIN p : p[k].dutTime \in Stamps(s.dut)
<1>1. Threads(s, w.cells)
  <2>1. PICK m \in 1..Longest(s) : w \in Ways(s)[m]
    BY DEF WaysThrough
  <2> QED BY <2>1, WaysThread
<1>2. \A k \in DOMAIN path : InTheBand(s, path[k])
  <2>1. path \in Seq(Nat \X Nat) /\ \A k \in 1..Len(path) : InTheBand(s, path[k])
    BY <1>1 DEF Threads
  <2>2. DOMAIN path = 1..Len(path)
    BY <2>1
  <2> QED BY <2>1, <2>2
<1>3. ASSUME NEW k \in DOMAIN path
      PROVE  path[k][1] \in DOMAIN s.ref.timestamps /\ path[k][2] \in DOMAIN s.dut.timestamps
  <2>1. InTheBand(s, path[k])
    BY <1>2
  <2>2. path[k][1] \in 0..LastRow(s) /\ path[k][2] \in BandRange(s, path[k][1])
    BY <2>1 DEF InTheBand
  <2>3. LastRow(s) \in Nat /\ Count(s.ref.timestamps) = LastRow(s) + 1
    BY LastRows
  <2>4. path[k][2] \in 0..(Count(s.dut.timestamps) - 1)
    BY <2>2, BandShape
  <2>5. /\ DOMAIN s.ref.timestamps = 0..(Count(s.ref.timestamps) - 1)
        /\ DOMAIN s.dut.timestamps = 0..(Count(s.dut.timestamps) - 1)
    BY DEF Sampling, Valid, IsSeries
  <2> QED BY <2>2, <2>3, <2>4, <2>5
<1>4. DOMAIN p = DOMAIN path
  OBVIOUS
<1>5. \A k \in DOMAIN p : /\ p[k].referenceTime = s.ref.timestamps[path[k][1]]
                          /\ p[k].dutTime = s.dut.timestamps[path[k][2]]
  OBVIOUS
<1> QED BY <1>3, <1>4, <1>5 DEF RefTimes, Stamps

(* A path whose REF times are a nanosecond apart and whose DUT times lie   *)
(* in the DUT series.                                                      *)
PathInDut(dut, p) == Spaced(RefTimes(p)) /\ \A k \in DOMAIN p : InDut(dut, p[k].dutTime)

(* The tolerance of a call.                                                *)
ToleranceOf(points, o) ==
    IF o.tolerance >= 0 THEN o.tolerance
    ELSE Max({1, Distance(points[1].dutTime, points[Len(points)].dutTime) \div 1000})

(* MappingIsSound, of any mapping and any call.                            *)
SoundFor(m, r) ==
    /\ FollowsPath(m, ToleranceOf(m.collapsed, r.options), r.limits.maxMappingPoints)
    /\ KeepsOrder(m.points, r)

(* MappingIsSound of the mapping and the call, now and after a step.       *)
LEMMA SoundIs ==
  ASSUME TRUE
  PROVE  /\ MappingFollowsPath /\ MappingKeepsOrder <=> SoundFor(mapping, request)
         /\ (MappingFollowsPath /\ MappingKeepsOrder)' <=> SoundFor(mapping', request')
<1>1. MappingFollowsPath
        <=> FollowsPath(mapping, ToleranceOf(mapping.collapsed, request.options), request.limits.maxMappingPoints)
  BY DEF MappingFollowsPath, FollowsPath, Tolerance, ToleranceOf, Options, Limits
<1>2. MappingFollowsPath'
        <=> FollowsPath(mapping', ToleranceOf(mapping'.collapsed, request'.options), request'.limits.maxMappingPoints)
  BY DEF MappingFollowsPath, FollowsPath, Tolerance, ToleranceOf, Options, Limits
<1>3. MappingKeepsOrder <=> KeepsOrder(mapping.points, request)
  BY DEF MappingKeepsOrder, KeepsOrder, mappedRange
<1>4. MappingKeepsOrder' <=> KeepsOrder(mapping'.points, request')
  BY DEF MappingKeepsOrder, KeepsOrder, mappedRange
<1> QED BY <1>1, <1>2, <1>3, <1>4 DEF SoundFor

(* The mapping of a path in the DUT series is sound.                       *)
LEMMA PathsMapSoundly ==
  ASSUME Selected, NEW p, PathOfTimes(p), PathInDut(request.dut, p),
         NEW q, q = Collapsed(p), NEW tolerance \in Nat, tolerance = ToleranceOf(q, request.options),
         NEW maximum \in Nat, maximum >= 2, maximum = request.limits.maxMappingPoints,
         NEW m, m = MappingOf(q, tolerance, maximum)
  PROVE  SoundFor(m, request)
<1>1. /\ request.dut.timestamps[0] \in Int /\ Final(request.dut.timestamps) \in Int
      /\ request.start \in Int /\ request.end \in Int /\ request.start <= request.end
  <2>1. request.start \in Int /\ request.end \in Int /\ request.start < request.end
    BY RequestTypes DEF Selected
  <2> QED BY <2>1, Lengths
<1>2. PICK low \in Int : low = request.dut.timestamps[0]
  BY <1>1
<1>3. PICK high \in Int : high = Final(request.dut.timestamps)
  BY <1>1
<1>4. Within(p, low, high)
  BY <1>2, <1>3 DEF PathInDut, InDut, Within
<1>5. Points(q) /\ Len(q) >= 2
  BY PointsOfPath
<1>6. \A k \in 1..Len(q) : low <= q[k].dutTime /\ q[k].dutTime <= high
  BY <1>4, PointsWithin
<1>7. m.collapsed = q /\ Drawn(m.points, q)
  BY <1>5, MappingDrawn
<1>8. FollowsPath(m, tolerance, maximum)
  BY MappingFollows DEF PathInDut
<1> DEFINE c == m.points
<1>9. Points(c) /\ Len(c) >= 2 /\ c[1] = q[1] /\ c[Len(c)] = q[Len(q)]
  BY <1>7 DEF Drawn
<1>10. low <= c[1].dutTime /\ c[Len(c)].dutTime <= high
  <2>1. Len(q) \in Nat
    BY <1>5 DEF Points
  <2>2. 1 \in 1..Len(q) /\ Len(q) \in 1..Len(q)
    BY <1>5, <2>1
  <2> QED BY <1>6, <1>9, <2>2
<1> HIDE DEF c
<1>11. KeepsOrder(c, request)
  BY <1>1, <1>2, <1>3, <1>9, <1>10, OrderKept
<1> QED BY <1>7, <1>8, <1>11 DEF SoundFor, c

(* What the mapping rests on: the samples under way,                       *)
SamplesOK ==
    /\ stage \notin {"select", "failed"} => Spaced(Stamps(reference))
    /\ stage \in {"row", "backtrack"} =>
            Spaced(Stamps(sampled.ref)) /\ \A t \in Stamps(sampled.dut) : InDut(request.dut, t)

(* and the paths found.                                                    *)
PathsOK == \A k \in 1..Len(results) : PathInDut(request.dut, results[k])

MappedOK == SamplesOK /\ PathsOK /\ MappingIsSound

(* Nothing is mapped initially.                                            *)
LEMMA InitMapped == Init => MappedOK
<1> SUFFICES ASSUME Init PROVE MappedOK
  OBVIOUS
<1>1. stage = "select" /\ results = <<>>
  BY DEF Init
<1>2. SamplesOK /\ MappingIsSound
  BY <1>1 DEF SamplesOK, MappingIsSound
<1>3. PathsOK
  BY <1>1 DEF PathsOK
<1> QED BY <1>2, <1>3 DEF MappedOK

(* Without a new path or a mapping, those found stay.                      *)
LEMMA PathsStay ==
  ASSUME MappedOK, request' = request, results' = results, stage' # "done"
  PROVE  PathsOK' /\ MappingIsSound'
<1>1. PathsOK'
  BY DEF MappedOK, PathsOK
<1>2. MappingIsSound'
  BY DEF MappingIsSound
<1> QED BY <1>1, <1>2

(* Select makes a selection whose times are a nanosecond apart.            *)
LEMMA SelectMapped ==
  ASSUME IInv, MappedOK, Select
  PROVE  MappedOK'
<1> DEFINE selected == sampleSeriesRange(request.ref, request.start, request.end, Limits.maxSamples)
           before == FirstError(<<IF resolveLimits THEN "none" ELSE "INVALID_OPTIONS",
                                  SeriesError(request.ref, 2),
                                  IF InRange(request.ref, request.start, request.end) THEN "none" ELSE "INVALID_RANGE">>)
           after == FirstError(<<SeriesError(selected, Options.minimumSamples),
                                 SeriesError(request.dut, Options.minimumSamples)>>)
<1>1. request \in Requests
  BY DEF IInv, CallOK
<1>2. request' = request /\ results' = results
  BY DEF Select
<1>3. \/ stage' = "failed"
      \/ before = "none" /\ reference' = selected /\ stage' \in {"failed", "coarse"}
  BY DEF Select, Checkpoint, Fails, Continues
<1>4. before = "none" => Spaced(Stamps(selected))
  <2> SUFFICES ASSUME before = "none" PROVE Spaced(Stamps(selected))
    OBVIOUS
  <2>1. resolveLimits /\ InRange(request.ref, request.start, request.end) /\ Valid(request.ref)
    BY <1>1, SelectionRef
  <2>2. Limits.maxSamples \in Nat /\ Limits.maxSamples >= 2
    BY <1>1, <2>1, LimitTypes
  <2> QED BY <1>1, <2>1, <2>2, SelectionSpaced
<1> HIDE DEF selected, before, after
<1>5. SamplesOK'
  BY <1>3, <1>4 DEF SamplesOK
<1>6. stage' # "done"
  BY <1>3
<1> QED BY <1>2, <1>5, <1>6, PathsStay DEF MappedOK

(* FindCandidates leaves the selection.                                    *)
LEMMA FindCandidatesMapped ==
  ASSUME IInv, MappedOK, FindCandidates
  PROVE  MappedOK'
<1>1. stage = "coarse" /\ UNCHANGED <<request, reference, results>>
  BY DEF FindCandidates
<1>2. stage' \in {"failed", "dtw"}
  BY DEF FindCandidates, Checkpoint, Fails, Continues
<1>3. SamplesOK'
  BY <1>1, <1>2 DEF MappedOK, SamplesOK
<1> QED BY <1>1, <1>2, <1>3, PathsStay DEF MappedOK

(* StartDtw samples the DUT series in its range.                           *)
LEMMA StartDtwMapped ==
  ASSUME IInv, MappedOK, StartDtw
  PROVE  MappedOK'
<1> DEFINE c == Head(candidates)
           s == SampledOf(c)
<1>1. /\ stage = "dtw" /\ Selected
      /\ candidates \in Seq(Candidate) /\ candidates # <<>>
      /\ \A k \in 1..Len(candidates) : Fits(request.dut, candidates[k])
  BY DEF StartDtw, IInv, CallOK, SearchOK
<1>2. UNCHANGED <<request, reference, results>>
  BY DEF StartDtw
<1>3. Fits(request.dut, c)
  <2>1. Len(candidates) \in Nat /\ Len(candidates) >= 1 /\ c = candidates[1]
    BY <1>1
  <2>2. 1 \in 1..Len(candidates)
    BY <2>1
  <2> QED BY <1>1, <2>1, <2>2
<1> HIDE DEF c
<1>4. InRange(request.dut, PaddedStart(c), PaddedEnd(c))
  BY <1>1, <1>3, PaddedRange
<1>5. sampled' = s /\ (Fails("LIMIT_EXCEEDED") \/ Continues("row"))
  BY <1>4 DEF StartDtw, SampledOf, PaddedStart, PaddedEnd, c
<1>6. Spaced(Stamps(reference))
  BY <1>1 DEF MappedOK, SamplesOK
<1>7. Spaced(Stamps(s.ref)) /\ \A t \in Stamps(s.dut) : InDut(request.dut, t)
  BY <1>1, <1>3, <1>6, SampledInDut
<1> HIDE DEF s
<1>8. stage' \in {"failed", "row"}
  BY <1>5 DEF Fails, Continues
<1>9. SamplesOK'
  BY <1>2, <1>5, <1>6, <1>7, <1>8 DEF SamplesOK
<1> QED BY <1>2, <1>8, <1>9, PathsStay DEF MappedOK

(* DtwRow leaves the samples.                                              *)
LEMMA DtwRowMapped ==
  ASSUME IInv, MappedOK, DtwRow
  PROVE  MappedOK'
<1>1. stage = "row" /\ UNCHANGED <<request, reference, sampled, results>>
  BY DEF DtwRow
<1>2. stage' \in {"failed", "row", "backtrack"}
  BY DEF DtwRow, Checkpoint, Fails, Continues
<1>3. SamplesOK'
  BY <1>1, <1>2 DEF MappedOK, SamplesOK
<1> QED BY <1>1, <1>2, <1>3, PathsStay DEF MappedOK

(* The path that Backtrack finds runs through the samples.                 *)
LEMMA BacktrackMapped ==
  ASSUME IInv, MappedOK, Backtrack
  PROVE  MappedOK'
<1> DEFINE s == sampled
           R == LastRow(s)
           row == Last(rows)
           end == Min(BestEnds(s, row))
           path == PathTo(s, rows, <<Len(rows) - 1, end>>)
           p == [k \in DOMAIN path |-> [index |-> path[k],
                                        referenceTime |-> s.ref.timestamps[path[k][1]],
                                        dutTime |-> s.dut.timestamps[path[k][2]]]]
<1>1. /\ stage = "backtrack" /\ results \in Seq(PathsOfTimes)
      /\ Sampling(s) /\ Table(s, rows) /\ Len(rows) = R + 1
  BY DEF Backtrack, IInv, WarpingOK, ResultsOK
<1>2. UNCHANGED <<request, reference, candidates, sampled, rows, operations>>
  BY DEF Backtrack
<1>3. \/ stage' = "failed" /\ results' = results
      \/ /\ EndCost(s, row, end) # Infinity
         /\ results' = Append(results, p)
         /\ stage' \in {"map", "dtw"}
  BY DEF Backtrack, Continues, Fails
<1>4. R \in Nat /\ R >= 1 /\ row = rows[R + 1] /\ Len(rows) - 1 = R
  <2>1. R \in Nat /\ R >= 1
    BY <1>1, LastRows
  <2> HIDE DEF R
  <2> QED BY <1>1, <2>1 DEF Last
<1>5. Full(s, rows)
  BY <1>1 DEF Full, Table
<1>6. path = PathTo(s, rows, <<R, end>>)
  BY <1>4
<1> HIDE DEF row, path, end
<1>7. EndCost(s, row, end) # Infinity => \E w \in WaysThrough(s) : w.cells = path
  BY <1>4, <1>5, <1>6, CheapestPath DEF end
<1>8. SamplesOK'
  BY <1>1, <1>2, <1>3 DEF MappedOK, SamplesOK
<1>9. CASE stage' = "failed" /\ results' = results
  <2>1. stage' # "done"
    BY <1>9
  <2> QED BY <1>2, <1>8, <1>9, <2>1, PathsStay DEF MappedOK
<1>10. CASE /\ EndCost(s, row, end) # Infinity
            /\ results' = Append(results, p)
            /\ stage' \in {"map", "dtw"}
  <2>1. PICK w \in WaysThrough(s) : w.cells = path
    BY <1>7, <1>10
  <2>2. RefTimes(p) \subseteq Stamps(s.ref) /\ \A k \in DOMAIN p : p[k].dutTime \in Stamps(s.dut)
    <3> DEFINE q == p
    <3>1. q = [k \in DOMAIN path |-> [index |-> path[k],
                                      referenceTime |-> s.ref.timestamps[path[k][1]],
                                      dutTime |-> s.dut.timestamps[path[k][2]]]]
      OBVIOUS
    <3>2. path = w.cells
      BY <2>1
    <3> HIDE DEF q
    <3>3. RefTimes(q) \subseteq Stamps(s.ref) /\ \A k \in DOMAIN q : q[k].dutTime \in Stamps(s.dut)
      BY <1>1, <3>1, <3>2, PathTimes
    <3> QED BY <3>3 DEF q
  <2> HIDE DEF p
  <2>3. PathInDut(request.dut, p)
    <3>1. Spaced(Stamps(s.ref)) /\ \A t \in Stamps(s.dut) : InDut(request.dut, t)
      BY <1>1 DEF MappedOK, SamplesOK
    <3>2. Spaced(RefTimes(p))
      BY <2>2, <3>1 DEF Spaced
    <3> QED BY <2>2, <3>1, <3>2 DEF PathInDut
  <2>4. \A k \in 1..Len(results') : PathInDut(request.dut, results'[k])
    <3> DEFINE new == Append(results, p)
    <3>1. Len(results) \in Nat /\ Len(new) = Len(results) + 1
      BY <1>1
    <3>2. \A k \in 1..Len(results) : new[k] = results[k]
      BY <1>1
    <3>3. new[Len(results) + 1] = p
      BY <1>1
    <3>4. \A k \in 1..Len(results) : PathInDut(request.dut, results[k])
      BY DEF MappedOK, PathsOK
    <3> HIDE DEF new
    <3>5. \A k \in 1..Len(new) : k \in 1..Len(results) \/ k = Len(results) + 1
      BY <3>1
    <3>6. \A k \in 1..Len(new) : PathInDut(request.dut, new[k])
      BY <2>3, <3>2, <3>3, <3>4, <3>5
    <3>7. results' = new
      BY <1>10 DEF new
    <3> QED BY <3>6, <3>7
  <2>5. PathsOK'
    BY <1>2, <2>4 DEF PathsOK
  <2>6. MappingIsSound'
    BY <1>10 DEF MappingIsSound
  <2> QED BY <1>8, <2>5, <2>6 DEF MappedOK
<1> QED BY <1>3, <1>9, <1>10

(* The mapping that BuildMapping makes of a path is sound.                 *)
LEMMA BuildMappingMapped ==
  ASSUME IInv, MappedOK, BuildMapping
  PROVE  MappedOK'
<1>1. /\ stage = "map" /\ request \in Requests /\ results \in Seq(PathsOfTimes) /\ Selected
  BY DEF BuildMapping, IInv, CallOK, SearchOK, ResultsOK
<1>2. UNCHANGED <<request, reference, candidates, sampled, rows, results, operations>>
  BY DEF BuildMapping
<1>3. PICK best \in Range(results) :
        LET points == Collapsed(best)
            simple == simplifyRdp(points, Tolerance(points))
        IN  IF Len(points) < 2 THEN Fails("INVALID_MAPPING") /\ UNCHANGED mapping
            ELSE /\ mapping' = [points |-> capPoints(simple, Limits.maxMappingPoints), collapsed |-> points,
                                capped |-> Len(simple) > Limits.maxMappingPoints]
                 /\ IF Ascending(mapping'.points) THEN Continues("done") ELSE Fails("INVALID_MAPPING")
  BY DEF BuildMapping
<1> DEFINE q == Collapsed(best)
           tolerance == Tolerance(q)
           maximum == Limits.maxMappingPoints
<1>4. PathOfTimes(best) /\ PathInDut(request.dut, best)
  <2>1. PICK k \in DOMAIN results : best = results[k]
    BY DEF Range
  <2> DEFINE X == PathsOfTimes
  <2>2. results \in Seq(X)
    BY <1>1
  <2> HIDE DEF X
  <2>3. results[k] \in X /\ k \in 1..Len(results)
    BY <2>2
  <2>4. PathOfTimes(best)
    BY <2>1, <2>3 DEF X, PathsOfTimes
  <2>5. PathInDut(request.dut, best)
    BY <2>1, <2>3 DEF MappedOK, PathsOK
  <2> QED BY <2>4, <2>5
<1>5. Points(q) /\ Len(q) >= 2
  BY <1>4, CollapsedIs
<1>6. tolerance \in Nat /\ tolerance = ToleranceOf(q, request.options)
  <2>1. tolerance \in Nat
    BY <1>1, <1>5, Tolerances
  <2>2. tolerance = ToleranceOf(q, request.options)
    BY DEF Tolerance, ToleranceOf, Options
  <2> QED BY <2>1, <2>2
<1>7. maximum \in Nat /\ maximum >= 2 /\ maximum = request.limits.maxMappingPoints
  <2>1. maximum \in Nat /\ maximum >= 2
    BY <1>1, LimitTypes DEF Selected
  <2> QED BY <2>1 DEF Limits
<1>8. mapping' = MappingOf(q, tolerance, maximum) /\ stage' \in {"done", "failed"}
  <2>1. ~(Len(q) < 2)
    <3>1. Len(q) \in Nat
      BY <1>5 DEF Points
    <3> HIDE DEF q
    <3> QED BY <1>5, <3>1
  <2> QED BY <1>3, <2>1 DEF MappingOf, Fails, Continues
<1> HIDE DEF q, tolerance, maximum
<1>9. PICK m : m = mapping'
  OBVIOUS
<1>10. SoundFor(m, request)
  <2>1. q = Collapsed(best)
    BY DEF q
  <2>2. m = MappingOf(q, tolerance, maximum)
    BY <1>8, <1>9
  <2> QED BY <1>1, <1>4, <1>6, <1>7, <2>1, <2>2, PathsMapSoundly
<1>11. MappingIsSound'
  <2>1. SoundFor(mapping', request')
    BY <1>2, <1>9, <1>10
  <2>2. (MappingFollowsPath /\ MappingKeepsOrder)'
    BY <2>1, SoundIs
  <2> QED BY <2>2 DEF MappingIsSound
<1>12. PathsOK'
  BY <1>2 DEF MappedOK, PathsOK
<1>13. SamplesOK'
  BY <1>1, <1>2, <1>8 DEF MappedOK, SamplesOK
<1> QED BY <1>11, <1>12, <1>13 DEF MappedOK

(* A step that changes nothing leaves what was mapped.                     *)
LEMMA StutterMapped ==
  ASSUME MappedOK, UNCHANGED vars
  PROVE  MappedOK'
<1>1. /\ request' = request /\ stage' = stage /\ reference' = reference
      /\ sampled' = sampled /\ results' = results /\ mapping' = mapping
  BY DEF vars
<1>2. SamplesOK' /\ PathsOK'
  BY <1>1 DEF MappedOK, SamplesOK, PathsOK
<1>3. MappingIsSound'
  <2>1. stage' = "done" => SoundFor(mapping, request)
    BY <1>1, SoundIs DEF MappedOK, MappingIsSound
  <2>2. stage' = "done" => SoundFor(mapping', request')
    BY <1>1, <2>1
  <2>3. stage' = "done" => (MappingFollowsPath /\ MappingKeepsOrder)'
    BY <2>2, SoundIs
  <2> QED BY <2>3 DEF MappingIsSound
<1> QED BY <1>2, <1>3 DEF MappedOK

(* The mapping that the caller gets begins and ends where the path does,   *)
(* stays within its limit and its tolerance, and maps times in order, in   *)
(* both directions, into the DUT series (mapping.mjs).                     *)
THEOREM MappingsAreSound == Spec => []MappingIsSound
<1>1. Init => MappedOK
  BY InitMapped
<1>2. IInv /\ MappedOK /\ [Next]_vars => MappedOK'
  <2> SUFFICES ASSUME IInv, MappedOK, [Next]_vars PROVE MappedOK'
    OBVIOUS
  <2>1. CASE Select
    BY <2>1, SelectMapped
  <2>2. CASE FindCandidates
    BY <2>2, FindCandidatesMapped
  <2>3. CASE StartDtw
    BY <2>3, StartDtwMapped
  <2>4. CASE DtwRow
    BY <2>4, DtwRowMapped
  <2>5. CASE Backtrack
    BY <2>5, BacktrackMapped
  <2>6. CASE BuildMapping
    BY <2>6, BuildMappingMapped
  <2>7. CASE UNCHANGED vars
    BY <2>7, StutterMapped
  <2> QED BY <2>1, <2>2, <2>3, <2>4, <2>5, <2>6, <2>7 DEF Next
<1>3. MappedOK => MappingIsSound
  BY DEF MappedOK
<1> QED BY <1>1, <1>2, <1>3, Invariance, PTL DEF Spec
=============================================================================
