-------------------------------- MODULE Ranks --------------------------------
(***************************************************************************)
(* Facts that the proofs about lists share: induction over the naturals    *)
(* in the form of a least element, ranks in a finite set, pages of a list  *)
(* that is ordered by rank, and the division that numbers the pages.       *)
(*                                                                         *)
(* An order is a set of pairs <<earlier, later>>; the rank of an element   *)
(* is the number of those before it, as OFFSET counts rows.                *)
(***************************************************************************)
EXTENDS Integers, FiniteSetTheorems, FunctionTheorems, TLAPS

-----------------------------------------------------------------------------
(* Natural numbers.                                                        *)

\* Every set of naturals has a least one.
LEMMA LeastNatural ==
  ASSUME NEW S \in SUBSET Nat, S # {}
  PROVE  \E n \in S : \A m \in S : n <= m
<1> DEFINE R == {ss \in Nat \X Nat : ss[1] < ss[2]}
<1>1. IsWellFoundedOn(R, Nat)
  BY NatLessThanWellFounded DEF OpToRel
<1>2. \A m, n \in Nat : m < n => <<m, n>> \in R
  OBVIOUS
<1> HIDE DEF R
<1>3. \E n \in S : \A m \in S : ~(<<m, n>> \in R)
  BY <1>1, WFMin
<1>4. \A m, n \in S : ~(<<m, n>> \in R) => n <= m
  BY <1>2
<1> QED
  BY <1>3, <1>4

\* What holds at 0 and goes on from n to n + 1 holds for every natural.
LEMMA NaturalsReached ==
  ASSUME NEW S \in SUBSET Nat, 0 \in S, \A n \in S : n + 1 \in S
  PROVE  S = Nat
<1> SUFFICES ASSUME Nat \ S # {} PROVE FALSE
  OBVIOUS
<1>1. PICK n \in Nat \ S : \A m \in Nat \ S : n <= m
  BY LeastNatural
<1>2. n # 0 /\ n - 1 \in Nat /\ n - 1 \in S
  BY <1>1
<1>3. n - 1 + 1 \in S
  BY <1>2
<1> QED
  BY <1>1, <1>3

\* The division that numbers pages.
LEMMA DivBounds ==
  ASSUME NEW a \in Int, NEW k \in Nat \ {0}
  PROVE  a \div k \in Int /\ (a \div k) * k <= a /\ a < (a \div k) * k + k
OBVIOUS

LEMMA TimesMonotone ==
  ASSUME NEW a \in Int, NEW b \in Int, NEW k \in Nat \ {0}
  PROVE  /\ a <= b => a * k <= b * k
         /\ a < b => a * k + k <= b * k
         /\ a * k < b * k + k => a <= b
OBVIOUS

LEMMA DivUnique ==
  ASSUME NEW a \in Int, NEW q \in Int, NEW k \in Nat \ {0}, q * k <= a, a < q * k + k
  PROVE  a \div k = q
<1>1. a \div k \in Int /\ (a \div k) * k <= a /\ a < (a \div k) * k + k
  BY DivBounds
<1> DEFINE d == a \div k
<1>2. d \in Int /\ d * k \in Int /\ q * k \in Int /\ d * k < q * k + k /\ q * k < d * k + k
  BY <1>1
<1> HIDE DEF d
<1> QED
  BY <1>2, TimesMonotone DEF d

-----------------------------------------------------------------------------
(* Iterating a function.                                                   *)

\* A function g on the naturals that starts with a and goes on with f.
Iterates(g, a, f) == g[0] = a /\ \A n \in Nat : g[n + 1] = f[g[n]]

\* Its first n + 1 values.
Begins(g, n, A, a, f) ==
  g \in [0..n -> A] /\ g[0] = a /\ \A k \in 0..n - 1 : g[k + 1] = f[g[k]]

LEMMA BeginsExists ==
  ASSUME NEW A, NEW a \in A, NEW f \in [A -> A], NEW n \in Nat
  PROVE  \E g : Begins(g, n, A, a, f)
<1> DEFINE S == {m \in Nat : \E g : Begins(g, m, A, a, f)}
<1>1. 0 \in S
  <2>1. Begins([k \in 0..0 |-> a], 0, A, a, f)
    BY DEF Begins
  <2> QED
    BY <2>1
<1>2. ASSUME NEW m \in S PROVE m + 1 \in S
  <2>1. PICK g : Begins(g, m, A, a, f)
    OBVIOUS
  <2> DEFINE h == [k \in 0..m + 1 |-> IF k = m + 1 THEN f[g[m]] ELSE g[k]]
  <2>2. g \in [0..m -> A] /\ g[0] = a /\ \A k \in 0..m - 1 : g[k + 1] = f[g[k]]
    BY <2>1 DEF Begins
  <2>3. h \in [0..m + 1 -> A]
    BY <2>2
  <2>4. ASSUME NEW k \in 0..m PROVE h[k + 1] = f[h[k]]
    BY <2>2
  <2>5. Begins(h, m + 1, A, a, f)
    BY <2>2, <2>3, <2>4 DEF Begins
  <2> QED
    BY <2>5
<1> HIDE DEF S
<1>3. S = Nat
  BY <1>1, <1>2, NaturalsReached DEF S
<1> QED
  BY <1>3 DEF S

\* Two functions that begin alike go on alike.
LEMMA BeginsUnique ==
  ASSUME NEW A, NEW a, NEW f, NEW n \in Nat, NEW m \in Nat, n <= m,
         NEW g, Begins(g, n, A, a, f), NEW h, Begins(h, m, A, a, f)
  PROVE  \A k \in 0..n : g[k] = h[k]
<1> DEFINE S == {k \in Nat : k <= n => g[k] = h[k]}
<1>1. 0 \in S
  BY DEF Begins
<1>2. ASSUME NEW k \in S PROVE k + 1 \in S
  <2>1. CASE k + 1 <= n
    <3>1. g[k] = h[k] /\ k \in 0..n - 1 /\ k \in 0..m - 1
      BY <2>1
    <3> QED
      BY <3>1 DEF Begins
  <2>2. CASE ~(k + 1 <= n)
    BY <2>2
  <2> QED
    BY <2>1, <2>2
<1> HIDE DEF S
<1>3. S = Nat
  BY <1>1, <1>2, NaturalsReached DEF S
<1> QED
  BY <1>3 DEF S

LEMMA IterationExists ==
  ASSUME NEW A, NEW a \in A, NEW f \in [A -> A]
  PROVE  \E g \in [Nat -> A] : Iterates(g, a, f)
<1> DEFINE first(n) == CHOOSE g : Begins(g, n, A, a, f)
           whole == [n \in Nat |-> first(n)[n]]
<1>1. \A n \in Nat : Begins(first(n), n, A, a, f)
  BY BeginsExists
<1> HIDE DEF first
<1>2. whole \in [Nat -> A]
  BY <1>1 DEF Begins
<1>3. whole[0] = a
  BY <1>1 DEF Begins
<1>4. ASSUME NEW n \in Nat PROVE whole[n + 1] = f[whole[n]]
  <2>1. Begins(first(n), n, A, a, f) /\ Begins(first(n + 1), n + 1, A, a, f)
    BY <1>1
  <2>2. first(n)[n] = first(n + 1)[n]
    BY <2>1, BeginsUnique
  <2>3. first(n + 1)[n + 1] = f[first(n + 1)[n]]
    BY <2>1 DEF Begins
  <2> QED
    BY <2>2, <2>3
<1> HIDE DEF whole
<1>5. Iterates(whole, a, f)
  BY <1>3, <1>4 DEF Iterates
<1> QED
  BY <1>2, <1>5

-----------------------------------------------------------------------------
(* Ranks.                                                                  *)

IsOrder(R, S) ==
  /\ \A x \in S : <<x, x>> \notin R
  /\ \A x, y, z \in S : <<x, y>> \in R /\ <<y, z>> \in R => <<x, z>> \in R

IsLinear(R, S) ==
  /\ IsOrder(R, S)
  /\ \A x, y \in S : x = y \/ <<x, y>> \in R \/ <<y, x>> \in R

Predecessors(S, R, x) == {y \in S : <<y, x>> \in R}
RankIn(S, R, x) == Cardinality(Predecessors(S, R, x))

LEMMA RankType ==
  ASSUME NEW S, IsFiniteSet(S), NEW R, IsOrder(R, S), NEW x \in S
  PROVE  /\ IsFiniteSet(Predecessors(S, R, x))
         /\ RankIn(S, R, x) \in 0..Cardinality(S) - 1
<1> DEFINE P == Predecessors(S, R, x)
<1>1. P \in SUBSET S /\ x \notin P
  BY DEF Predecessors, IsOrder
<1> HIDE DEF P
<1>2. /\ IsFiniteSet(P) /\ Cardinality(P) <= Cardinality(S)
      /\ Cardinality(S) = Cardinality(P) => S = P
  BY <1>1, FS_Subset
<1>3. Cardinality(P) \in Nat /\ Cardinality(S) \in Nat
  BY <1>2, FS_CardinalityType
<1>4. Cardinality(P) # Cardinality(S)
  BY <1>1, <1>2
<1> QED
  BY <1>2, <1>3, <1>4 DEF RankIn, P

LEMMA RankGrows ==
  ASSUME NEW S, IsFiniteSet(S), NEW R, IsOrder(R, S), NEW x \in S, NEW y \in S,
         <<x, y>> \in R
  PROVE  RankIn(S, R, x) < RankIn(S, R, y)
<1> DEFINE P == Predecessors(S, R, x)
           Q == Predecessors(S, R, y)
<1>1. P \in SUBSET Q /\ x \in Q /\ x \notin P
  BY DEF Predecessors, IsOrder
<1>2. IsFiniteSet(P) /\ IsFiniteSet(Q)
  BY RankType
<1> HIDE DEF P, Q
<1>3. Cardinality(P) <= Cardinality(Q) /\ (Cardinality(Q) = Cardinality(P) => Q = P)
  BY <1>1, <1>2, FS_Subset
<1>4. Cardinality(P) \in Nat /\ Cardinality(Q) \in Nat
  BY <1>2, FS_CardinalityType
<1>5. Cardinality(P) < Cardinality(Q)
  BY <1>1, <1>3, <1>4
<1> QED
  BY <1>5 DEF RankIn, P, Q

\* A finite set that is not empty has an element with none before it.
LEMMA FirstExists ==
  ASSUME NEW S, IsFiniteSet(S), S # {}, NEW R, IsOrder(R, S)
  PROVE  \E x \in S : \A y \in S : <<y, x>> \notin R
<1> DEFINE N == {RankIn(S, R, x) : x \in S}
<1>1. N \in SUBSET Nat /\ N # {}
  BY RankType
<1>2. PICK n \in N : \A m \in N : n <= m
  <2> HIDE DEF N
  <2> QED
    BY <1>1, LeastNatural
<1>3. PICK x \in S : n = RankIn(S, R, x)
  BY <1>2
<1>4. ASSUME NEW y \in S, <<y, x>> \in R PROVE FALSE
  <2>1. RankIn(S, R, y) < RankIn(S, R, x) /\ RankIn(S, R, y) \in N
    BY <1>4, RankGrows
  <2>2. RankIn(S, R, y) \in Nat /\ RankIn(S, R, x) \in Nat
    BY RankType
  <2> QED
    BY <1>2, <1>3, <2>1, <2>2
<1> QED
  BY <1>4

\* In a linear order the ranks are the numbers below the size, each once.
LEMMA RanksAreNumbers ==
  ASSUME NEW S, IsFiniteSet(S), NEW R, IsLinear(R, S)
  PROVE  [x \in S |-> RankIn(S, R, x)] \in Bijection(S, 0..Cardinality(S) - 1)
<1> DEFINE N == 0..Cardinality(S) - 1
           rank == [x \in S |-> RankIn(S, R, x)]
<1>1. Cardinality(S) \in Nat /\ IsOrder(R, S)
  BY FS_CardinalityType DEF IsLinear
<1>2. rank \in [S -> N]
  BY <1>1, RankType
<1>3. ASSUME NEW x \in S, NEW y \in S, rank[x] = rank[y] PROVE x = y
  <2>1. RankIn(S, R, x) = RankIn(S, R, y) /\ RankIn(S, R, x) \in Nat
    BY <1>1, <1>3, RankType
  <2>2. <<x, y>> \notin R /\ <<y, x>> \notin R
    BY <1>1, <2>1, RankGrows
  <2> QED
    BY <2>2 DEF IsLinear
<1>4. IsFiniteSet(N) /\ Cardinality(N) = Cardinality(S)
  <2>1. IsFiniteSet(N)
        /\ Cardinality(N) = IF 0 > Cardinality(S) - 1 THEN 0 ELSE Cardinality(S) - 1 - 0 + 1
    BY <1>1, FS_Interval
  <2> HIDE DEF N
  <2> QED
    BY <1>1, <2>1
<1> HIDE DEF N, rank
<1>5. rank \in Injection(S, N)
  BY <1>2, <1>3, Fun_IsInj
<1>6. rank \in Surjection(S, N)
  BY <1>4, <1>5, FS_Injection
<1> QED
  BY <1>5, <1>6 DEF Bijection, N, rank

\* So as many elements as numbers have a rank in an interval.
LEMMA RanksBetween ==
  ASSUME NEW S, IsFiniteSet(S), NEW R, IsLinear(R, S), NEW a \in Nat, NEW b \in Nat,
         a <= b + 1, b < Cardinality(S)
  PROVE  Cardinality({x \in S : RankIn(S, R, x) \in a..b}) = b - a + 1
<1> DEFINE N == 0..Cardinality(S) - 1
           rank == [x \in S |-> RankIn(S, R, x)]
           T == {x \in S : RankIn(S, R, x) \in a..b}
           part == [x \in T |-> RankIn(S, R, x)]
<1>1. rank \in Bijection(S, N) /\ Cardinality(S) \in Nat
  BY RanksAreNumbers, FS_CardinalityType
<1>2. part \in [T -> a..b]
  OBVIOUS
<1>3. ASSUME NEW x \in T, NEW y \in T, part[x] = part[y] PROVE x = y
  <2>1. rank[x] = rank[y] /\ x \in S /\ y \in S
    BY <1>3
  <2> QED
    BY <1>1, <2>1 DEF Bijection, Injection, IsInjective
<1>4. ASSUME NEW n \in a..b PROVE \E x \in T : part[x] = n
  <2>1. n \in N
    BY <1>1
  <2>2. PICK x \in S : rank[x] = n
    BY <1>1, <2>1 DEF Bijection, Surjection
  <2> QED
    BY <2>2
<1>5. IsFiniteSet(a..b) /\ Cardinality(a..b) = b - a + 1
  <2>1. IsFiniteSet(a..b) /\ Cardinality(a..b) = IF a > b THEN 0 ELSE b - a + 1
    BY FS_Interval
  <2> QED
    BY <2>1
<1> HIDE DEF T, part
<1>6. part \in Bijection(T, a..b)
  BY <1>2, <1>3, <1>4, Fun_IsBij
<1>7. ExistsBijection(a..b, T)
  BY <1>6, Fun_ExistsBijSymmetric DEF ExistsBijection
<1>8. Cardinality(T) = Cardinality(a..b)
  BY <1>5, <1>7, FS_Bijection
<1> QED
  BY <1>5, <1>8 DEF T

-----------------------------------------------------------------------------
(* Pages of k rows, of which there are total.                              *)

PagesFor(total, k) == IF total = 0 THEN 1 ELSE (total + k - 1) \div k

LEMMA PagesSuffice ==
  ASSUME NEW total \in Nat, NEW k \in Nat \ {0}
  PROVE  /\ PagesFor(total, k) \in Nat \ {0}
         /\ total <= PagesFor(total, k) * k
         /\ total > 0 => (PagesFor(total, k) - 1) * k < total
<1>1. CASE total = 0
  BY <1>1 DEF PagesFor
<1>2. CASE total > 0
  <2> DEFINE p == (total + k - 1) \div k
  <2>1. p \in Int /\ p * k <= total + k - 1 /\ total + k - 1 < p * k + k
    BY DivBounds
  <2> HIDE DEF p
  <2>2. total <= p * k /\ (p - 1) * k < total
    BY <2>1
  <2>3. 0 * k < p * k
    BY <1>2, <2>1, <2>2
  <2>4. p > 0
    BY <2>1, <2>3, TimesMonotone
  <2> QED
    BY <1>2, <2>1, <2>2, <2>4 DEF PagesFor, p
<1> QED
  BY <1>1, <1>2

\* Every rank is on one of the pages, and on no other.
LEMMA PageOfRank ==
  ASSUME NEW total \in Nat, NEW k \in Nat \ {0}, NEW r \in 0..total - 1
  PROVE  \E n \in 1..PagesFor(total, k) : (n - 1) * k <= r /\ r < n * k
<1> DEFINE q == r \div k
           p == PagesFor(total, k)
<1>1. q \in Int /\ q * k <= r /\ r < q * k + k
  BY DivBounds
<1>2. p \in Nat \ {0} /\ total <= p * k
  BY PagesSuffice
<1> HIDE DEF q, p
<1>3. 0 * k < q * k + k /\ q * k < p * k
  BY <1>1, <1>2
<1>4. 0 <= q /\ q < p
  BY <1>1, <1>2, <1>3, TimesMonotone
<1> DEFINE n == q + 1
<1>5. n \in 1..p /\ (n - 1) * k <= r /\ r < n * k
  BY <1>1, <1>2, <1>4
<1> HIDE DEF n
<1> QED
  BY <1>5 DEF p

LEMMA OnePageOnly ==
  ASSUME NEW k \in Nat \ {0}, NEW r \in Int, NEW n \in Int, NEW m \in Int,
         (n - 1) * k <= r, r < n * k, (m - 1) * k <= r, r < m * k
  PROVE  n = m
<1>1. (n - 1) * k < m * k /\ (m - 1) * k < n * k
  OBVIOUS
<1>2. n - 1 < m /\ m - 1 < n
  BY <1>1, TimesMonotone
<1> QED
  BY <1>2

\* OFFSET and LIMIT on the rows S in the order R.
PageOf(S, R, k, n) == {x \in S : (n - 1) * k <= RankIn(S, R, x) /\ RankIn(S, R, x) < n * k}

\* The pages hold every row, each once, and the last one is empty only if all are.
LEMMA PagesPartition ==
  ASSUME NEW S, IsFiniteSet(S), NEW R, IsLinear(R, S), NEW k \in Nat \ {0}
  PROVE  LET last == PagesFor(Cardinality(S), k)
         IN /\ last \in Nat \ {0}
            /\ UNION {PageOf(S, R, k, n) : n \in 1..last} = S
            /\ \A m, n \in 1..last : m # n => PageOf(S, R, k, m) \intersect PageOf(S, R, k, n) = {}
            /\ S # {} => PageOf(S, R, k, last) # {}
<1> DEFINE total == Cardinality(S)
           last == PagesFor(total, k)
<1>1. /\ total \in Nat /\ last \in Nat \ {0} /\ total <= last * k
      /\ total > 0 => (last - 1) * k < total
      /\ IsOrder(R, S)
  BY FS_CardinalityType, PagesSuffice DEF IsLinear
<1>2. \A x \in S : RankIn(S, R, x) \in 0..total - 1
  BY <1>1, RankType
<1>3. \A x \in S : \E n \in 1..last : x \in PageOf(S, R, k, n)
  BY <1>1, <1>2, PageOfRank DEF PageOf
<1>4. ASSUME NEW m \in 1..last, NEW n \in 1..last,
             NEW x \in PageOf(S, R, k, m) \intersect PageOf(S, R, k, n)
      PROVE  m = n
  <2>1. m \in Int /\ n \in Int /\ x \in S /\ RankIn(S, R, x) \in Int
    BY <1>1, <1>2 DEF PageOf
  <2> DEFINE r == RankIn(S, R, x)
  <2>2. (m - 1) * k <= r /\ r < m * k /\ (n - 1) * k <= r /\ r < n * k
    BY <1>4 DEF PageOf
  <2> HIDE DEF r, last
  <2>3. r \in Int
    BY <2>1 DEF r
  <2> QED
    BY <2>1, <2>2, <2>3, OnePageOnly
<1>5. ASSUME S # {} PROVE PageOf(S, R, k, last) # {}
  <2>1. total > 0
    BY <1>1, <1>5, FS_EmptySet
  <2> DEFINE r == (last - 1) * k
  <2>2. r \in 0..total - 1 /\ r <= r /\ r < last * k
    BY <1>1, <2>1
  <2> DEFINE rank == [x \in S |-> RankIn(S, R, x)]
  <2>3. rank \in Surjection(S, 0..total - 1)
    BY RanksAreNumbers DEF Bijection
  <2> HIDE DEF r
  <2>4. PICK x \in S : rank[x] = r
    BY <2>2, <2>3, Fun_IsSurj DEF Surjection
  <2>5. x \in PageOf(S, R, k, last)
    BY <2>2, <2>4 DEF PageOf, r
  <2> QED
    BY <2>5
<1> HIDE DEF last, total
<1>6. UNION {PageOf(S, R, k, n) : n \in 1..last} = S
  BY <1>3 DEF PageOf
<1> QED
  BY <1>1, <1>4, <1>5, <1>6 DEF last, total

\* All pages but the last are full, and the last has no more rows than fit.
LEMMA PagesFull ==
  ASSUME NEW S, IsFiniteSet(S), NEW R, IsLinear(R, S), NEW k \in Nat \ {0}
  PROVE  LET last == PagesFor(Cardinality(S), k)
         IN /\ \A n \in 1..last - 1 : Cardinality(PageOf(S, R, k, n)) = k
            /\ Cardinality(PageOf(S, R, k, last)) <= k
<1> DEFINE total == Cardinality(S)
           last == PagesFor(total, k)
           Between(a, b) == {x \in S : RankIn(S, R, x) \in a..b}
<1>1. /\ total \in Nat /\ last \in Nat \ {0} /\ total <= last * k
      /\ total > 0 => (last - 1) * k < total
      /\ IsOrder(R, S)
  BY FS_CardinalityType, PagesSuffice DEF IsLinear
<1>2. \A x \in S : RankIn(S, R, x) \in 0..total - 1
  BY <1>1, RankType
<1> HIDE DEF last, total
<1>3. ASSUME NEW n \in 1..last - 1 PROVE Cardinality(PageOf(S, R, k, n)) = k
  <2> DEFINE a == (n - 1) * k
             b == n * k - 1
  <2>1. last > 1 /\ n \in Int /\ n <= last - 1 /\ n >= 1
    BY <1>1
  <2>2. n * k = (n - 1) * k + k /\ (n - 1) * k \in Nat
    BY <2>1
  <2>3. total > 0
    <3>1. ASSUME total = 0 PROVE last = 1
      BY <3>1 DEF last, PagesFor
    <3> QED
      BY <1>1, <2>1, <3>1
  <2>4. n * k <= (last - 1) * k
    BY <1>1, <2>1, TimesMonotone
  <2>5. a \in Nat /\ b \in Nat /\ b = a + k - 1 /\ b < total
    BY <1>1, <2>2, <2>3, <2>4
  <2>6. ASSUME NEW x \in S PROVE RankIn(S, R, x) \in a..b <=> a <= RankIn(S, R, x) /\ RankIn(S, R, x) < n * k
    BY <1>1, <1>2, <2>2, <2>5
  <2>7. PageOf(S, R, k, n) = Between(a, b)
    BY <2>6 DEF PageOf
  <2> HIDE DEF a, b
  <2>8. Cardinality(Between(a, b)) = b - a + 1
    BY <2>5, RanksBetween DEF total
  <2> QED
    BY <2>5, <2>7, <2>8
<1>4. Cardinality(PageOf(S, R, k, last)) <= k
  <2>1. CASE total = 0
    <3>1. S = {}
      BY <2>1, FS_EmptySet DEF total
    <3>2. PageOf(S, R, k, last) = {}
      BY <3>1 DEF PageOf
    <3> QED
      BY <3>2, FS_EmptySet
  <2>2. CASE total > 0
    <3> DEFINE a == (last - 1) * k
               b == total - 1
    <3>1. last * k = (last - 1) * k + k /\ (last - 1) * k \in Nat
      BY <1>1
    <3>2. a \in Nat /\ b \in Nat /\ a <= b + 1 /\ b < total /\ b - a + 1 <= k
      BY <1>1, <2>2, <3>1
    <3>3. ASSUME NEW x \in S
          PROVE  RankIn(S, R, x) \in a..b <=> a <= RankIn(S, R, x) /\ RankIn(S, R, x) < last * k
      BY <1>1, <1>2, <3>1, <3>2
    <3>4. PageOf(S, R, k, last) = Between(a, b)
      BY <3>3 DEF PageOf
    <3> HIDE DEF a, b
    <3>5. Cardinality(Between(a, b)) = b - a + 1
      BY <3>2, RanksBetween DEF total
    <3> QED
      BY <3>2, <3>4, <3>5
  <2> QED
    BY <1>1, <2>1, <2>2
<1> QED
  BY <1>3, <1>4 DEF last, total
=============================================================================
