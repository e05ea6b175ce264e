---------------------------- MODULE AnalyticsProofs ----------------------------
(***************************************************************************)
(* What the answers over statement versions have in them, for any number   *)
(* of versions, dates, types, pages and reconciliation runs, and any       *)
(* ingest and normalization between the reads of a query.                  *)
(***************************************************************************)
EXTENDS Analytics, FiniteSetTheorems, TLAPS

-----------------------------------------------------------------------------
(* Numbers, finite sets and sums.                                          *)

LEMMA NatIsWellFounded ==
    \E R : IsWellFoundedOn(R, Nat) /\ \A x, y \in Nat : x < y => <<x, y>> \in R
<1>1. \A x, y \in Nat : x < y => <<x, y>> \in OpToRel(<, Nat)
    BY DEF OpToRel
<1> QED
    BY <1>1, NatLessThanWellFounded, Zenon

LEMMA MinimalElement ==
    ASSUME NEW S, S \subseteq Nat, S # {}, NEW R, IsWellFoundedOn(R, Nat)
    PROVE  \E x \in S : \A y \in S : ~(<<y, x>> \in R)
BY WFMin

\* A set of numbers has a least one.
LEMMA LeastNumber ==
    ASSUME NEW S \in SUBSET Nat, S # {}
    PROVE  \E m \in S : \A n \in S : m <= n
<1>0. PICK R : IsWellFoundedOn(R, Nat) /\ \A x, y \in Nat : x < y => <<x, y>> \in R
    BY NatIsWellFounded, Zenon
<1>1. PICK m \in S : \A y \in S : ~(<<y, m>> \in R)
    BY <1>0, MinimalElement
<1>2. \A y \in S : ~(y < m)
    BY <1>0, <1>1, Zenon
<1> QED
    BY <1>2, SMT

\* A finite set of numbers has a greatest one.
LEMMA GreatestNumber ==
    ASSUME NEW S \in SUBSET Nat, IsFiniteSet(S), S # {}
    PROVE  \E m \in S : \A n \in S : n <= m
<1> DEFINE Above(n) == {k \in S : k > n}
           Sizes == {Cardinality(Above(n)) : n \in S}
<1>1. \A n \in S : IsFiniteSet(Above(n)) /\ Cardinality(Above(n)) \in Nat
    BY FS_Subset, FS_CardinalityType
<1>2. PICK z \in Sizes : \A y \in Sizes : z <= y
  <2>1. Sizes \in SUBSET Nat /\ Sizes # {}
      BY <1>1
  <2> HIDE DEF Sizes
  <2> QED
      BY <2>1, LeastNumber
<1>3. PICK m \in S : z = Cardinality(Above(m))
    BY <1>2
<1>4. ASSUME NEW n \in S, n > m PROVE FALSE
  <2>1. ASSUME NEW k \in Above(n) PROVE k \in Above(m) \ {n}
    <3>1. k \in Nat /\ m \in Nat /\ n \in Nat /\ k \in S /\ k > n
        OBVIOUS
    <3> QED
        BY <1>4, <3>1
  <2>2. n \in Above(m)
      BY <1>4
  <2>3. IsFiniteSet(Above(m)) /\ Cardinality(Above(m)) \in Nat /\ Cardinality(Above(n)) \in Nat
      BY <1>1
  <2>4. Cardinality(Above(m)) <= Cardinality(Above(n))
      BY <1>2, <1>3
  <2> HIDE DEF Above
  <2>5. /\ IsFiniteSet(Above(m) \ {n})
        /\ Cardinality(Above(m) \ {n}) = Cardinality(Above(m)) - 1
      BY <2>2, <2>3, FS_RemoveElement
  <2>6. Cardinality(Above(n)) <= Cardinality(Above(m) \ {n})
      BY <2>1, <2>5, FS_Subset
  <2> QED
      BY <2>3, <2>4, <2>5, <2>6
<1> QED
    BY <1>4

LEMMA ImageIsFinite ==
    ASSUME NEW S, IsFiniteSet(S), NEW f, f = [x \in S |-> f[x]]
    PROVE  /\ IsFiniteSet({f[x] : x \in S})
           /\ Cardinality({f[x] : x \in S}) <= Cardinality(S)
<1> DEFINE T == {f[x] : x \in S}
<1>1. f \in Surjection(S, T)
    BY DEF Surjection
<1> HIDE DEF T
<1>2. IsFiniteSet(T) /\ Cardinality(T) <= Cardinality(S)
    BY <1>1, FS_Surjection
<1> QED
    BY <1>2 DEF T

\* A function that tells things apart keeps their number.
LEMMA ImageIsAsLarge ==
    ASSUME NEW S, IsFiniteSet(S), NEW f, f = [x \in S |-> f[x]],
           \A x, y \in S : f[x] = f[y] => x = y
    PROVE  Cardinality({f[x] : x \in S}) = Cardinality(S)
<1> DEFINE T == {f[x] : x \in S}
<1>1. f \in Bijection(S, T)
    BY DEF Bijection, Injection, Surjection, IsInjective
<1> HIDE DEF T
<1>2. ExistsBijection(S, T)
    BY <1>1 DEF ExistsBijection
<1>3. Cardinality(T) = Cardinality(S)
    BY <1>2, FS_Bijection
<1> QED
    BY <1>3 DEF T

\* What follows from smaller sets to larger ones holds of the whole.
LEMMA SumIsDetermined ==
    ASSUME NEW S, IsFiniteSet(S), NEW f, NEW W, f[{}] = W[{}],
           \A s \in SUBSET S : s # {} => \E b \in s : f[s \ {b}] = W[s \ {b}] => f[s] = W[s]
    PROVE  f[S] = W[S]
<1> DEFINE Bad == {s \in SUBSET S : f[s] # W[s]}
           Sizes == {Cardinality(s) : s \in Bad}
<1>1. ASSUME Bad # {} PROVE FALSE
  <2>1. \A s \in Bad : IsFiniteSet(s) /\ Cardinality(s) \in Nat
    <3>1. \A s \in Bad : IsFiniteSet(s)
        BY FS_Subset
    <3> QED
        BY <3>1, FS_CardinalityType
  <2>2. PICK n \in Sizes : \A m \in Sizes : n <= m
    <3>1. Sizes \in SUBSET Nat /\ Sizes # {}
        BY <1>1, <2>1
    <3> HIDE DEF Sizes
    <3> QED
        BY <3>1, LeastNumber
  <2>3. PICK s \in Bad : n = Cardinality(s)
      BY <2>2
  <2>4. s # {}
      BY <2>3
  <2>5. PICK b \in s : f[s \ {b}] = W[s \ {b}] => f[s] = W[s]
      BY <2>4
  <2>6. s \ {b} \in Bad
      BY <2>3, <2>5
  <2>7. Cardinality(s) <= Cardinality(s \ {b})
      BY <2>2, <2>3, <2>6
  <2>8. Cardinality(s \ {b}) = Cardinality(s) - 1
      BY <2>1, <2>3, <2>5, FS_RemoveElement
  <2> QED
      BY <2>1, <2>3, <2>7, <2>8
<1> QED
    BY <1>1

\* The sum that MapThenSumSet takes, for a count of what a set of buckets holds: W is
\* that count, of every set of buckets.
LEMMA BucketsSum ==
    ASSUME NEW S, IsFiniteSet(S), NEW W, W = [s \in SUBSET S |-> W[s]],
           W[{}] = 0,
           \A s \in SUBSET S, b \in S :
               b \in s => W[s] = b.pass_count + b.fail_count + W[s \ {b}]
    PROVE  MapThenSumSet(LAMBDA b : b.pass_count + b.fail_count, S) = W[S]
<1> DEFINE Some(s) == CHOOSE x \in s : TRUE
           Is(f) == f = [s \in SUBSET S |-> IF s = {} THEN 0
                           ELSE Some(s).pass_count + Some(s).fail_count + f[s \ {Some(s)}]]
<1>1. MapThenSumSet(LAMBDA b : b.pass_count + b.fail_count, S) = (CHOOSE f : Is(f))[S]
    BY DEF MapThenSumSet, MapThenFoldSet
<1>2. \A s \in SUBSET S : s # {} => Some(s) \in s
    OBVIOUS
<1>3. Is(W)
  <2>1. ASSUME NEW s \in SUBSET S
        PROVE  W[s] = IF s = {} THEN 0 ELSE Some(s).pass_count + Some(s).fail_count + W[s \ {Some(s)}]
      BY <1>2, <2>1
  <2> HIDE DEF Some
  <2> QED
      BY <2>1
<1>4. PICK f : Is(f) /\ MapThenSumSet(LAMBDA b : b.pass_count + b.fail_count, S) = f[S]
  <2> HIDE DEF Is
  <2> QED
      BY <1>1, <1>3
<1> HIDE DEF Some
<1>5. f[{}] = W[{}]
    BY <1>4
<1>6. ASSUME NEW s \in SUBSET S, s # {} PROVE \E b \in s : f[s \ {b}] = W[s \ {b}] => f[s] = W[s]
  <2>1. Some(s) \in s
      BY <1>2, <1>6
  <2>2. f[s] = Some(s).pass_count + Some(s).fail_count + f[s \ {Some(s)}]
      BY <1>4, <1>6
  <2>3. W[s] = Some(s).pass_count + Some(s).fail_count + W[s \ {Some(s)}]
      BY <2>1
  <2> QED
      BY <2>1, <2>2, <2>3
<1>7. f[S] = W[S]
  <2> HIDE DEF Is
  <2> QED
      BY <1>5, <1>6, SumIsDetermined
<1> QED
    BY <1>4, <1>7

\* What is before each thing, in a strict total order.
IsOrder(S, before) ==
    /\ before \in [S -> SUBSET S]
    /\ \A p \in S : p \notin before[p]
    /\ \A p, o \in S : p # o => p \in before[o] \/ o \in before[p]
    /\ \A p, o, q \in S : p \in before[o] /\ o \in before[q] => p \in before[q]

\* T are the things of S with fewer than c before them.
Ranked(S, before, c, T) ==
    /\ IsFiniteSet(S)
    /\ IsOrder(S, before)
    /\ T \in SUBSET S
    /\ \A x \in S : x \in T <=> Cardinality(before[x]) < c

\* Their ranks tell them apart, and T is as many as were wanted, or all.
CountsRanks(S, before, c, T) ==
    /\ \A x \in S : Cardinality(before[x]) \in Nat /\ Cardinality(before[x]) < Cardinality(S)
    /\ \A x, y \in S : x \in before[y] => Cardinality(before[x]) < Cardinality(before[y])
    /\ Cardinality(T) = IF c < Cardinality(S) THEN c ELSE Cardinality(S)

\* In a strict total order the number of things before one tells it from others, and
\* as many as are wanted have fewer before them than that.
LEMMA RanksCount ==
    ASSUME NEW S, NEW before, NEW c \in Nat, NEW T, Ranked(S, before, c, T)
    PROVE  CountsRanks(S, before, c, T)
<1>0. /\ before \in [S -> SUBSET S]
      /\ \A p \in S : p \notin before[p]
      /\ \A p, o \in S : p # o => p \in before[o] \/ o \in before[p]
      /\ \A p, o, q \in S : p \in before[o] /\ o \in before[q] => p \in before[q]
      /\ IsFiniteSet(S) /\ T \in SUBSET S
      /\ \A x \in S : x \in T <=> Cardinality(before[x]) < c
    BY DEF IsOrder, Ranked
<1>1. Cardinality(S) \in Nat
    BY <1>0, FS_CardinalityType
<1>2. \A x \in S : IsFiniteSet(before[x]) /\ Cardinality(before[x]) \in Nat
  <2>1. \A x \in S : IsFiniteSet(before[x])
      BY <1>0, FS_Subset
  <2> QED
      BY <2>1, FS_CardinalityType
<1>3. ASSUME NEW x \in S PROVE Cardinality(before[x]) < Cardinality(S)
  <2>1. before[x] \in SUBSET S /\ before[x] # S
      BY <1>0, <1>3
  <2> QED
      BY <1>0, <1>1, <1>2, <2>1, FS_Subset
<1>4. ASSUME NEW x \in S, NEW y \in S, x \in before[y]
      PROVE  Cardinality(before[x]) < Cardinality(before[y])
  <2>1. before[x] \in SUBSET before[y] /\ before[x] # before[y]
      BY <1>0, <1>4
  <2> QED
      BY <1>2, <2>1, FS_Subset
<1> DEFINE n == Cardinality(S)
           r == [x \in S |-> Cardinality(before[x])]
           g == [x \in T |-> r[x]]
           m == IF c < n THEN c ELSE n
<1>5. \A x, y \in S : r[x] = r[y] => x = y
    BY <1>0, <1>2, <1>4
<1>6. r \in Injection(S, 0..(n - 1))
    BY <1>1, <1>2, <1>3, <1>5 DEF Injection, IsInjective
<1>7. IsFiniteSet(0..(n - 1)) /\ Cardinality(0..(n - 1)) = n
  <2>1. n \in Nat
      BY <1>1
  <2> HIDE DEF n
  <2> QED
      BY <2>1, FS_Interval
<1>8. r \in Surjection(S, 0..(n - 1))
  <2> HIDE DEF r
  <2> QED
      BY <1>0, <1>6, <1>7, FS_Injection
<1>9. \A k \in 0..(n - 1) : \E x \in S : r[x] = k
    BY <1>8 DEF Surjection
<1>10. \A x \in S : r[x] \in 0..(n - 1)
    BY <1>1, <1>2, <1>3
<1>16. \A x \in S : x \in T <=> r[x] < c
    BY <1>0
<1> HIDE DEF r
<1>17. m \in Nat /\ m <= n /\ \A k \in 0..(n - 1) : k < c <=> k \in 0..(m - 1)
    BY <1>1
<1>18. m \in Nat /\ \A k \in 0..(m - 1) : k \in 0..(n - 1) /\ k < c
    BY <1>1
<1> HIDE DEF m
<1>11. {g[x] : x \in T} = 0..(m - 1)
  <2>1. ASSUME NEW k \in 0..(m - 1) PROVE \E x \in T : g[x] = k
      BY <1>9, <1>16, <1>18
  <2>2. \A x \in T : g[x] \in 0..(m - 1)
      BY <1>0, <1>10, <1>16, <1>17
  <2> QED
      BY <2>1, <2>2
<1>12. Cardinality(0..(m - 1)) = m
    BY <1>17, FS_Interval
<1>13. IsFiniteSet(T)
    BY <1>0, FS_Subset
<1>14. Cardinality({g[x] : x \in T}) = Cardinality(T)
  <2>1. g = [x \in T |-> g[x]] /\ \A x, y \in T : g[x] = g[y] => x = y
      BY <1>0, <1>5
  <2> HIDE DEF g
  <2> QED
      BY <1>13, <2>1, ImageIsAsLarge
<1>15. Cardinality(T) = m
    BY <1>11, <1>12, <1>14
<1> QED
    BY <1>2, <1>3, <1>4, <1>15 DEF m, CountsRanks

LEMMA DisjointUnion ==
    ASSUME NEW A, NEW B, IsFiniteSet(A), IsFiniteSet(B), A \cap B = {}
    PROVE  IsFiniteSet(A \cup B) /\ Cardinality(A \cup B) = Cardinality(A) + Cardinality(B)
<1>1. IsFiniteSet(A \cup B) /\ Cardinality(A \cup B) = Cardinality(A) + Cardinality(B) - Cardinality(A \cap B)
    BY FS_Union
<1>2. Cardinality(A \cap B) = 0
    BY FS_EmptySet
<1>3. Cardinality(A) \in Nat /\ Cardinality(B) \in Nat
    BY FS_CardinalityType
<1> QED
    BY <1>1, <1>2, <1>3

\* How many numbers of a set are smaller.
Place(S, d) == Cardinality({e \in S : e < d})

LEMMA Places ==
    ASSUME NEW S \in SUBSET Nat, IsFiniteSet(S), NEW c \in Nat,
           NEW T \in SUBSET S, \A d \in S : d \in T <=> Place(S, d) < c
    PROVE  /\ \A d \in S : Place(S, d) \in Nat /\ Place(S, d) < Cardinality(S)
           /\ \A d, e \in S : d < e => Place(S, d) < Place(S, e)
           /\ Cardinality(T) = IF c < Cardinality(S) THEN c ELSE Cardinality(S)
<1>1. PICK before : before = [d \in S |-> {e \in S : e < d}]
    OBVIOUS
<1>2. IsOrder(S, before)
    BY <1>1 DEF IsOrder
<1>3. \A d \in S : Cardinality(before[d]) = Place(S, d)
    BY <1>1 DEF Place
<1>4. \A d, e \in S : d < e => d \in before[e]
    BY <1>1
<1>5. \A d \in S : d \in T <=> Cardinality(before[d]) < c
    BY <1>3
<1>6. IsFiniteSet(S) /\ T \in SUBSET S
    OBVIOUS
<1>7. Ranked(S, before, c, T)
    BY <1>2, <1>5, <1>6 DEF Ranked
<1> QED
    BY <1>3, <1>4, <1>7, RanksCount DEF CountsRanks

LEMMA PlacesAreNumbers ==
    ASSUME NEW S \in SUBSET Nat, IsFiniteSet(S)
    PROVE  /\ \A d \in S : Place(S, d) \in Nat /\ Place(S, d) < Cardinality(S)
           /\ \A d, e \in S : d < e => Place(S, d) < Place(S, e)
<1> DEFINE T == {d \in S : Place(S, d) < 0}
<1>1. T \in SUBSET S /\ \A d \in S : d \in T <=> Place(S, d) < 0
    OBVIOUS
<1> HIDE DEF T
<1> QED
    BY <1>1, Places

\* What a set of dates S had from place c on and T has before place c, or not at all:
\* no more than what left S.
LEMMA FewMoveForward ==
    ASSUME NEW S \in SUBSET Nat, IsFiniteSet(S), NEW T \in SUBSET Nat, IsFiniteSet(T), NEW c \in Nat
    PROVE  Cardinality({d \in S : Place(S, d) >= c /\ (d \notin T \/ Place(T, d) < c)})
              <= Cardinality(S \ T)
<1> DEFINE Later == {d \in S : Place(S, d) >= c /\ d \in T /\ Place(T, d) < c}
           Gone  == {d \in S : Place(S, d) >= c /\ d \notin T}
           First == {d \in S : Place(S, d) < c}
           All   == {d \in S : Place(S, d) >= c /\ (d \notin T \/ Place(T, d) < c)}
<1>0. /\ IsFiniteSet(Later) /\ IsFiniteSet(Gone) /\ IsFiniteSet(First) /\ IsFiniteSet(S \ T)
      /\ IsFiniteSet(All) /\ IsFiniteSet(First \ T) /\ IsFiniteSet(First \cap T)
    BY FS_Subset
<1>1. /\ Cardinality(Later) \in Nat /\ Cardinality(Gone) \in Nat /\ Cardinality(First) \in Nat
      /\ Cardinality(S \ T) \in Nat /\ Cardinality(All) \in Nat /\ Cardinality(First \ T) \in Nat
      /\ Cardinality(First \cap T) \in Nat
    BY <1>0, FS_CardinalityType
<1>2. Cardinality(All) = Cardinality(Later) + Cardinality(Gone)
  <2>1. All = Later \cup Gone /\ Later \cap Gone = {}
      OBVIOUS
  <2> HIDE DEF All, Later, Gone
  <2> QED
      BY <1>0, <2>1, DisjointUnion
<1>3. ASSUME Later # {} PROVE Cardinality(Later) <= Cardinality(First \ T)
  <2>1. PICK m \in Later : \A d \in Later : d <= m
    <3>1. Later \in SUBSET Nat
        OBVIOUS
    <3> QED
        BY <1>0, <1>3, <3>1, GreatestNumber
  <2>2. Cardinality(First) = c
    <3>1. Place(S, m) >= c /\ Place(S, m) < Cardinality(S) /\ Place(S, m) \in Nat
        BY <2>1, PlacesAreNumbers
    <3>2. Cardinality(S) \in Nat
        BY FS_CardinalityType
    <3>3. First \in SUBSET S /\ \A d \in S : d \in First <=> Place(S, d) < c
        OBVIOUS
    <3> HIDE DEF First
    <3>4. Cardinality(First) = IF c < Cardinality(S) THEN c ELSE Cardinality(S)
        BY <3>3, Places
    <3> QED
        BY <3>1, <3>2, <3>4
  <2> DEFINE Rest  == Later \ {m}
             Below == {e \in T : e < m}
  <2>3. Rest \cup (First \cap T) \subseteq Below
    <3>1. ASSUME NEW d \in Rest PROVE d \in Below
      <4>1. d <= m /\ d # m /\ d \in Nat /\ m \in Nat /\ d \in T
          BY <2>1, <3>1
      <4> QED
          BY <4>1
    <3>2. ASSUME NEW d \in First \cap T PROVE d \in Below
      <4>1. d \in S /\ d \in T /\ m \in S /\ Place(S, d) < c /\ Place(S, m) >= c
          BY <2>1, <3>2
      <4>2. Place(S, d) \in Nat /\ Place(S, m) \in Nat /\ (m < d => Place(S, m) < Place(S, d))
          BY <4>1, PlacesAreNumbers
      <4>3. d # m /\ ~(m < d)
          BY <4>1, <4>2
      <4> QED
          BY <4>1, <4>3
    <3> QED
        BY <3>1, <3>2
  <2>4. IsFiniteSet(Below) /\ Cardinality(Below) \in Nat /\ Cardinality(Below) < c
    <3>1. IsFiniteSet(Below)
        BY FS_Subset
    <3>2. Cardinality(Below) = Place(T, m)
        BY DEF Place
    <3> QED
        BY <2>1, <3>1, <3>2, FS_CardinalityType
  <2>5. IsFiniteSet(Rest) /\ Cardinality(Rest) = Cardinality(Later) - 1
      BY <1>0, <2>1, FS_RemoveElement
  <2>6. Rest \cap (First \cap T) = {}
    <3>1. ASSUME NEW d \in S, Place(S, d) < c, Place(S, d) >= c PROVE FALSE
      <4>1. Place(S, d) \in Nat
          BY PlacesAreNumbers
      <4> QED
          BY <3>1, <4>1
    <3> QED
        BY <3>1
  <2>7. Cardinality(Rest \cup (First \cap T)) = Cardinality(Rest) + Cardinality(First \cap T)
    <3> HIDE DEF Rest, First
    <3> QED
        BY <1>0, <2>5, <2>6, DisjointUnion
  <2>8. Cardinality(Rest \cup (First \cap T)) <= Cardinality(Below)
    <3> HIDE DEF Below, Rest, First
    <3> QED
        BY <2>3, <2>4, FS_Subset
  <2>9. Cardinality(First \ T) = Cardinality(First) - Cardinality(First \cap T)
    <3> HIDE DEF First
    <3> QED
        BY <1>0, FS_Difference
  <2> QED
      BY <1>1, <2>2, <2>4, <2>5, <2>7, <2>8, <2>9
<1>4. Cardinality(Later) <= Cardinality(First \ T)
  <2>1. Later = {} => Cardinality(Later) = 0
      BY FS_EmptySet
  <2> QED
      BY <1>1, <1>3, <2>1
<1>5. Cardinality(First \ T) + Cardinality(Gone) <= Cardinality(S \ T)
  <2>1. (First \ T) \cap Gone = {}
    <3>1. ASSUME NEW d \in S, Place(S, d) < c, Place(S, d) >= c PROVE FALSE
      <4>1. Place(S, d) \in Nat
          BY PlacesAreNumbers
      <4> QED
          BY <3>1, <4>1
    <3> QED
        BY <3>1
  <2>2. (First \ T) \cup Gone \in SUBSET (S \ T)
      OBVIOUS
  <2> HIDE DEF First, Gone
  <2>3. Cardinality((First \ T) \cup Gone) = Cardinality(First \ T) + Cardinality(Gone)
      BY <1>0, <2>1, DisjointUnion
  <2>4. Cardinality((First \ T) \cup Gone) <= Cardinality(S \ T)
      BY <1>0, <2>2, FS_Subset
  <2> QED
      BY <2>3, <2>4
<1> QED
    BY <1>1, <1>2, <1>4, <1>5

-----------------------------------------------------------------------------
(* The invariant.                                                          *)

Listing(v) == <<Year(v), v.type>>

\* What is stored, with uq_statement_versions_identity.
Stored ==
    /\ IsFiniteSet(versions)
    /\ IsFiniteSet(checks)
    /\ \A v, w \in versions : v.type = w.type /\ v.date = w.date /\ v.seq = w.seq => v = w

\* A version is never removed, and one with a payload stays as it is.
Kept(u) ==
    \E w \in versions :
        /\ w.type = u.type /\ w.date = u.date /\ w.seq = u.seq
        /\ Normalized(u) => w = u

Reading ==
    /\ query # "none" => calls >= 1
    /\ query = "none" => asked = {}
    /\ query # "series" => client = NoClient
    /\ pending \subseteq asked
    /\ \A v \in picked : v \in versions /\ Normalized(v) /\ Listing(v) \in asked
    /\ \A u \in atCall : Listing(u) \in asked /\ Kept(u)

\* A series so far: one version of each date, none older than what the call found.
SeriesInv ==
    query = "series" =>
        /\ \A x, y \in asked : x[2] = y[2]
        /\ client.idle => pending = {} /\ picked = {} /\ atCall = {}
        /\ \A v \in picked : Listing(v) \notin pending
        /\ \A v, w \in picked : v.date = w.date => v = w
        /\ \A u \in atCall : Normalized(u) /\ Listing(u) \notin pending =>
             \E w \in picked : w.date = u.date /\ w.seq >= u.seq

\* The dates of the first page's series that are neither received nor still to come.
Lacking(first, got, shown, from) ==
    {d \in first \ got : ~(d \in shown /\ Place(shown, d) >= from)}

Missed(c) == Lacking(c.first, c.got, c.shown, (c.page - 1) * PageSize)

\* A date once shown in the fundamentals series has a payload that the next reading
\* finds again.
FoundAgain(d) ==
    \E v \in versions :
        /\ Normalized(v) /\ v.date = d /\ Listing(v) \in asked
        /\ client.idle \/ Listing(v) \in pending \/ \E w \in picked : w.date = d

PagesInv ==
    /\ client.page = 1 \/ client.of = None => client = NoClient
    /\ client.total = Cardinality(client.shown)
    /\ client.of = "fundamentals" => client.vanished = 0 /\ \A d \in client.shown : FoundAgain(d)
    /\ Cardinality(Missed(client)) <= client.vanished

StatementInv ==
    query = "statement" =>
        /\ pending = asked
        /\ \A x, y \in asked : x = y
        /\ \A v \in picked, u \in atCall : u.seq <= v.seq

SameYear(v, w) == v.type = w.type /\ Year(v) = Year(w)

ReconcileInv ==
    query = "reconcile" =>
        /\ \A v \in picked : Listing(v) \notin pending
        /\ \A v, w \in picked : SameYear(v, w) => v = w
        /\ \A v \in picked, u \in atCall : SameYear(v, u) => u.seq <= v.seq
        /\ \A u \in atCall : Normalized(u) /\ Listing(u) \notin pending =>
             u \in picked \/ \E w \in versions \ {u} : SameYear(u, w) /\ w.seq >= u.seq

\* A check tells a version's status, and the date of one with that identity.
Founded(c) ==
    /\ \E v \in versions : v.type = c.type /\ Year(v) = c.year /\ v.seq = c.seq /\ Normalized(v) /\ Status(v) = c.status
    /\ \E v \in versions : v.type = c.type /\ Year(v) = c.year /\ v.seq = c.seq /\ v.date = c.date

ChecksInv ==
    /\ \A c, d \in checks : c.run = d.run /\ c.type = d.type /\ c.year = d.year => c = d
    /\ \A c \in checks : c.run <= calls /\ (query = "reconcile" => c.run < calls)
    /\ \A c \in checks : Founded(c)

IInv ==
    /\ TypeOK
    /\ Stored
    /\ Reading
    /\ SeriesInv
    /\ PagesInv
    /\ StatementInv
    /\ ReconcileInv
    /\ ChecksInv

-----------------------------------------------------------------------------
(* Versions and the client.                                                *)

LEMMA VersionFields ==
    ASSUME NEW v \in Version
    PROVE  /\ v.type \in Types /\ v.date \in Dates /\ v.seq \in Positions
           /\ v.payload \in Payloads \cup {None}
           /\ v.date \in Nat /\ v.seq \in Nat \ {0}
           /\ Year(v) \in Years /\ Year(v) \in Nat \ {0}
           /\ Listing(v) \in Years \X Types
BY VersionsAssumption DEF Version, Year, Years, Listing

LEMMA DatesFinite ==
    ASSUME NEW S \in SUBSET Dates
    PROVE  IsFiniteSet(S) /\ Cardinality(S) \in Nat /\ S \in SUBSET Nat
<1>1. IsFiniteSet(S) /\ S \in SUBSET Nat
    BY VersionsAssumption, FS_Subset
<1> QED
    BY <1>1, FS_CardinalityType

LEMMA NoneSmall == Cardinality({}) = 0
BY FS_EmptySet

LEMMA NoClientInv ==
    /\ NoClient \in Client
    /\ NoClient.total = Cardinality(NoClient.shown)
    /\ NoClient.of # "fundamentals"
    /\ NoClient.idle = FALSE /\ NoClient.page = 1
    /\ NoClient.shown = {} /\ NoClient.vanished = 0 /\ NoClient.total = 0
    /\ Cardinality(Missed(NoClient)) <= NoClient.vanished
<1>1. Missed(NoClient) = {}
    BY DEF Missed, Lacking, NoClient
<1>2. NoClient.of # "fundamentals"
    BY AnalyticsAssumption DEF NoClient
<1>3. NoClient \in Client
    BY DEF NoClient, Client
<1>4. /\ NoClient.idle = FALSE /\ NoClient.page = 1
      /\ NoClient.shown = {} /\ NoClient.vanished = 0 /\ NoClient.total = 0
    BY DEF NoClient
<1> QED
    BY <1>1, <1>2, <1>3, <1>4, NoneSmall

LEMMA InitInv == Init => IInv
<1> SUFFICES ASSUME Init PROVE IInv
    OBVIOUS
<1>1. /\ versions = {} /\ checks = {} /\ calls = 0 /\ query = "none" /\ pending = {}
      /\ picked = {} /\ asked = {} /\ atCall = {} /\ client = NoClient
    BY DEF Init
<1>2. TypeOK
    BY <1>1, NoClientInv, AnalyticsAssumption DEF TypeOK
<1>3. Stored
    BY <1>1, FS_EmptySet DEF Stored
<1>4. Reading /\ SeriesInv /\ StatementInv /\ ReconcileInv /\ ChecksInv
    BY <1>1 DEF Reading, SeriesInv, StatementInv, ReconcileInv, ChecksInv
<1>5. PagesInv
    BY <1>1, NoClientInv DEF PagesInv
<1> QED
    BY <1>2, <1>3, <1>4, <1>5 DEF IInv

-----------------------------------------------------------------------------
(* Writers.                                                                *)

\* Each version is still there, with what it has.
Writes ==
    /\ \A v \in versions : \E w \in versions' :
         /\ w.type = v.type /\ w.date = v.date /\ w.seq = v.seq
         /\ Normalized(v) => w = v
    /\ versions' \subseteq Version
    /\ IsFiniteSet(versions')
    /\ \A v, w \in versions' : v.type = w.type /\ v.date = w.date /\ v.seq = w.seq => v = w

LEMMA WritesKeep ==
    ASSUME IInv, Writes, UNCHANGED <<checks, calls, work>>
    PROVE  IInv'
<1>0. /\ checks' = checks /\ calls' = calls /\ query' = query /\ pending' = pending
      /\ picked' = picked /\ asked' = asked /\ atCall' = atCall /\ client' = client
    BY DEF work
<1>1. TypeOK /\ Stored /\ Reading
    BY DEF IInv
<1>2. \A v \in versions : Normalized(v) => v \in versions'
    BY DEF Writes
<1>3. \A v \in versions : \E w \in versions' :
         /\ w.type = v.type /\ w.date = v.date /\ w.seq = v.seq
         /\ Normalized(v) => w = v
    BY DEF Writes
<1>4. TypeOK'
    BY <1>0, <1>1 DEF TypeOK, Writes
<1>5. Stored'
    BY <1>0, <1>1 DEF Stored, Writes
<1>6. Reading'
  <2>1. \A v \in picked : v \in versions'
      BY <1>1, <1>2 DEF Reading
  <2>2. ASSUME NEW u \in atCall PROVE Kept(u)'
    <3>1. PICK w \in versions : /\ w.type = u.type /\ w.date = u.date /\ w.seq = u.seq
                                /\ Normalized(u) => w = u
        BY <1>1 DEF Reading, Kept
    <3>2. PICK x \in versions' : /\ x.type = w.type /\ x.date = w.date /\ x.seq = w.seq
                                 /\ Normalized(w) => x = w
        BY <1>3
    <3> QED
        BY <3>1, <3>2 DEF Kept
  <2> QED
      BY <1>0, <1>1, <2>1, <2>2 DEF Reading, Listing, Year
<1>7. SeriesInv'
    BY <1>0 DEF IInv, SeriesInv, Listing, Year
<1>8. PagesInv'
  <2>1. ASSUME NEW d, FoundAgain(d) PROVE FoundAgain(d)'
      BY <1>0, <1>2, <2>1 DEF FoundAgain, Listing, Year
  <2> QED
      BY <1>0, <2>1 DEF IInv, PagesInv, Missed
<1>9. StatementInv'
    BY <1>0 DEF IInv, StatementInv
<1>10. ReconcileInv'
  <2>1. ASSUME NEW u \in atCall, Normalized(u), NEW w \in versions \ {u}, SameYear(u, w), w.seq >= u.seq
        PROVE  \E x \in versions' \ {u} : SameYear(u, x) /\ x.seq >= u.seq
    <3>1. PICK x \in versions' : x.type = w.type /\ x.date = w.date /\ x.seq = w.seq
        BY <1>3
    <3>2. u \in versions
        BY <1>1, <2>1 DEF Reading, Kept
    <3>3. x # u
        BY <1>1, <2>1, <3>1, <3>2 DEF Stored
    <3> QED
        BY <2>1, <3>1, <3>3 DEF SameYear, Year
  <2>2. SUFFICES ASSUME query = "reconcile" PROVE ReconcileInv'
      BY <1>0 DEF ReconcileInv
  <2>3. /\ \A v \in picked : Listing(v) \notin pending
        /\ \A v, w \in picked : SameYear(v, w) => v = w
        /\ \A v \in picked, u \in atCall : SameYear(v, u) => u.seq <= v.seq
      BY <2>2 DEF IInv, ReconcileInv
  <2>4. \A u \in atCall : Normalized(u) /\ Listing(u) \notin pending =>
             u \in picked \/ \E x \in versions' \ {u} : SameYear(u, x) /\ x.seq >= u.seq
      BY <2>1, <2>2 DEF IInv, ReconcileInv
  <2> QED
      BY <1>0, <2>3, <2>4 DEF ReconcileInv, Listing, Year, SameYear
<1>11. ChecksInv'
  <2>1. ASSUME NEW c \in checks PROVE Founded(c)'
    <3>1. Founded(c)
        BY DEF IInv, ChecksInv
    <3>2. PICK v \in versions : v.type = c.type /\ Year(v) = c.year /\ v.seq = c.seq /\ v.date = c.date
        BY <3>1 DEF Founded
    <3>3. PICK x \in versions' : x.type = v.type /\ x.date = v.date /\ x.seq = v.seq
        BY <1>3
    <3> QED
        BY <1>2, <3>1, <3>2, <3>3 DEF Founded, Year, Status
  <2> QED
      BY <1>0, <2>1 DEF IInv, ChecksInv
<1> QED
    BY <1>4, <1>5, <1>6, <1>7, <1>8, <1>9, <1>10, <1>11 DEF IInv

LEMMA StoreVersionStep == IInv /\ StoreVersion => IInv'
<1> SUFFICES ASSUME IInv, StoreVersion PROVE IInv'
    OBVIOUS
<1>1. PICK v \in [type : Types, date : Dates, seq : Positions, payload : {None}] :
         /\ ~\E w \in versions : w.type = v.type /\ w.date = v.date /\ w.seq = v.seq
         /\ versions' = versions \cup {v}
    BY DEF StoreVersion
<1>2. v \in Version
    BY <1>1 DEF Version
<1>3. IsFiniteSet(versions')
    BY <1>1, FS_AddElement DEF IInv, Stored
<1>4. Writes
    BY <1>1, <1>2, <1>3 DEF Writes, IInv, Stored, TypeOK
<1> QED
    BY <1>4, WritesKeep DEF StoreVersion

LEMMA NormalizeVersionStep == IInv /\ NormalizeVersion => IInv'
<1> SUFFICES ASSUME IInv, NormalizeVersion PROVE IInv'
    OBVIOUS
<1>1. PICK v \in versions : \E p \in PayloadsOf[v.type] :
         /\ ~Normalized(v)
         /\ versions' = (versions \ {v}) \cup {[v EXCEPT !.payload = p]}
    BY DEF NormalizeVersion
<1>2. PICK p \in PayloadsOf[v.type] :
         /\ ~Normalized(v)
         /\ versions' = (versions \ {v}) \cup {[v EXCEPT !.payload = p]}
    BY <1>1
<1> DEFINE n == [v EXCEPT !.payload = p]
<1>3. v \in Version
    BY DEF IInv, TypeOK
<1>4. n \in Version /\ n.type = v.type /\ n.date = v.date /\ n.seq = v.seq
  <2>1. p \in Payloads
      BY <1>3, VersionFields DEF Payloads
  <2> QED
      BY <1>3, <2>1 DEF Version
<1> HIDE DEF n
<1>5. versions' = (versions \ {v}) \cup {n}
    BY <1>2 DEF n
<1>6. IsFiniteSet(versions')
  <2>1. IsFiniteSet(versions \ {v})
      BY FS_RemoveElement DEF IInv, Stored
  <2> QED
      BY <1>5, <2>1, FS_AddElement
<1>7. Writes
  <2>1. versions' \subseteq Version
      BY <1>4, <1>5 DEF IInv, TypeOK
  <2>2. ASSUME NEW x \in versions
        PROVE  \E w \in versions' : /\ w.type = x.type /\ w.date = x.date /\ w.seq = x.seq
                                    /\ Normalized(x) => w = x
    <3>1. CASE x = v
        BY <1>2, <1>4, <1>5, <3>1
    <3>2. CASE x # v
        BY <1>5, <3>2
    <3> QED
        BY <3>1, <3>2
  <2>3. \A x, w \in versions' : x.type = w.type /\ x.date = w.date /\ x.seq = w.seq => x = w
      BY <1>4, <1>5 DEF IInv, Stored
  <2> QED
      BY <1>6, <2>1, <2>2, <2>3 DEF Writes
<1> QED
    BY <1>7, WritesKeep DEF NormalizeVersion

-----------------------------------------------------------------------------
(* A query begins and ends.                                                *)

LEMMA EndKeeps ==
    ASSUME IInv, End, UNCHANGED <<versions, calls>>,
           checks' \subseteq Check, IsFiniteSet(checks'),
           \A c, d \in checks' : c.run = d.run /\ c.type = d.type /\ c.year = d.year => c = d,
           \A c \in checks' : c.run <= calls /\ Founded(c)
    PROVE  IInv'
<1>0. /\ versions' = versions /\ calls' = calls /\ query' = "none" /\ pending' = {}
      /\ picked' = {} /\ asked' = {} /\ atCall' = {} /\ client' = NoClient
    BY DEF End
<1>1. TypeOK'
    BY <1>0, NoClientInv DEF IInv, TypeOK
<1>2. Stored'
    BY <1>0 DEF IInv, Stored
<1>3. Reading' /\ SeriesInv' /\ StatementInv' /\ ReconcileInv'
    BY <1>0 DEF Reading, SeriesInv, StatementInv, ReconcileInv
<1>4. PagesInv'
    BY <1>0, NoClientInv DEF PagesInv, Missed
<1>5. ChecksInv'
    BY <1>0 DEF ChecksInv, Founded, Year, Status
<1> QED
    BY <1>1, <1>2, <1>3, <1>4, <1>5 DEF IInv

LEMMA EndsKeep ==
    ASSUME IInv, End, UNCHANGED <<versions, checks, calls>>
    PROVE  IInv'
<1>1. /\ checks' \subseteq Check /\ IsFiniteSet(checks')
      /\ \A c, d \in checks' : c.run = d.run /\ c.type = d.type /\ c.year = d.year => c = d
      /\ \A c \in checks' : c.run <= calls /\ Founded(c)
    BY DEF IInv, TypeOK, Stored, ChecksInv
<1> QED
    BY <1>1, EndKeeps

LEMMA CallKeeps ==
    ASSUME IInv, NEW kind \in {"series", "statement", "reconcile"},
           NEW listings \in SUBSET (Years \X Types), Call(kind, listings),
           UNCHANGED <<versions, checks>>,
           kind = "series" => \A x, y \in listings : x[2] = y[2],
           kind = "statement" => \A x, y \in listings : x = y
    PROVE  IInv'
<1>0. /\ versions' = versions /\ checks' = checks /\ calls' = calls + 1 /\ query' = kind
      /\ pending' = listings /\ picked' = {} /\ asked' = listings /\ client' = client
      /\ query = "none" /\ calls < MaxCalls
    BY DEF Call
<1>1. \A u \in atCall' : u \in versions /\ Listing(u) \in listings
    BY <1>0 DEF Call, Listing
<1>2. client = NoClient /\ calls \in Nat
    BY <1>0 DEF IInv, Reading, TypeOK
<1>3. TypeOK'
    BY <1>0, <1>1, AnalyticsAssumption DEF IInv, TypeOK
<1>4. Stored'
    BY <1>0 DEF IInv, Stored
<1>5. Reading'
    BY <1>0, <1>1, <1>2 DEF Reading, Kept, Listing, Year
<1>6. SeriesInv'
    BY <1>0, <1>1, <1>2, NoClientInv DEF SeriesInv, Listing, Year
<1>7. PagesInv'
    BY <1>0, <1>2, NoClientInv DEF PagesInv, Missed
<1>8. StatementInv'
    BY <1>0 DEF StatementInv
<1>9. ReconcileInv'
    BY <1>0, <1>1 DEF ReconcileInv, Listing, Year
<1>10. ChecksInv'
  <2>1. \A c \in checks : c.run \in Nat /\ c.run <= calls
      BY DEF IInv, ChecksInv, TypeOK, Check
  <2> QED
      BY <1>0, <1>2, <2>1 DEF IInv, ChecksInv, Founded, Year, Status
<1> QED
    BY <1>3, <1>4, <1>5, <1>6, <1>7, <1>8, <1>9, <1>10 DEF IInv

LEMMA CallsStep == IInv /\ (CallSeries \/ CallStatement \/ CallReconcile) => IInv'
<1>1. ASSUME IInv, CallSeries PROVE IInv'
  <2>1. PICK type \in Types, from \in Years, to \in Years : Call("series", YearsBetween(from, to) \X {type})
      BY <1>1 DEF CallSeries
  <2>2. YearsBetween(from, to) \X {type} \in SUBSET (Years \X Types)
      BY DEF YearsBetween
  <2>3. \A x, y \in YearsBetween(from, to) \X {type} : x[2] = y[2]
      OBVIOUS
  <2>4. UNCHANGED <<versions, checks>>
      BY <1>1 DEF CallSeries
  <2> QED
      BY <1>1, <2>1, <2>2, <2>3, <2>4, CallKeeps
<1>2. ASSUME IInv, CallStatement PROVE IInv'
  <2>1. PICK type \in Types, year \in Years : Call("statement", {<<year, type>>})
      BY <1>2 DEF CallStatement
  <2>2. {<<year, type>>} \in SUBSET (Years \X Types) /\ \A x, y \in {<<year, type>>} : x = y
      OBVIOUS
  <2>3. UNCHANGED <<versions, checks>>
      BY <1>2 DEF CallStatement
  <2> QED
      BY <1>2, <2>1, <2>2, <2>3, CallKeeps
<1>3. ASSUME IInv, CallReconcile PROVE IInv'
  <2>1. PICK from \in Years, to \in Years : Call("reconcile", YearsBetween(from, to) \X Types)
      BY <1>3 DEF CallReconcile
  <2>2. YearsBetween(from, to) \X Types \in SUBSET (Years \X Types)
      BY DEF YearsBetween
  <2>3. UNCHANGED <<versions, checks>>
      BY <1>3 DEF CallReconcile
  <2> QED
      BY <1>3, <2>1, <2>2, <2>3, CallKeeps
<1> QED
    BY <1>1, <1>2, <1>3

-----------------------------------------------------------------------------
(* A series and its pages.                                                 *)

\* Of the versions of a date that have a payload one is the newest.
LEMMA NewestIsThere ==
    ASSUME TypeOK, NEW rows \in SUBSET versions, NEW u \in rows, Normalized(u)
    PROVE  \E w \in NewestByDate(rows) : w.date = u.date /\ w.seq >= u.seq
<1> DEFINE with == {w \in rows : w.date = u.date /\ Normalized(w)}
           seqs == {w.seq : w \in with}
<1>1. \A w \in rows : w.seq \in Positions /\ w.seq \in Nat
    BY VersionFields DEF TypeOK
<1>2. seqs \in SUBSET Positions /\ seqs \in SUBSET Nat /\ seqs # {}
    BY <1>1
<1>3. IsFiniteSet(seqs)
  <2> HIDE DEF seqs
  <2> QED
      BY <1>2, VersionsAssumption, FS_Subset
<1>4. PICK m \in seqs : \A n \in seqs : n <= m
  <2> HIDE DEF seqs
  <2> QED
      BY <1>2, <1>3, GreatestNumber
<1>5. PICK w \in with : w.seq = m
    BY <1>4
<1>6. \A x \in with : x.seq <= w.seq
    BY <1>4, <1>5
<1>7. w \in NewestByDate(rows)
    BY <1>5, <1>6 DEF NewestByDate
<1> QED
    BY <1>1, <1>5, <1>6, <1>7

LEMMA OneNewest ==
    ASSUME TypeOK, Stored, NEW listing, NEW v \in NewestByDate(Rows(listing)),
           NEW w \in NewestByDate(Rows(listing)), v.date = w.date
    PROVE  v = w
<1>1. /\ v \in versions /\ w \in versions /\ v.type = w.type /\ v.seq <= w.seq /\ w.seq <= v.seq
    BY DEF NewestByDate, Rows
<1>2. v.seq \in Nat /\ w.seq \in Nat
    BY <1>1, VersionFields DEF TypeOK
<1> QED
    BY <1>1, <1>2 DEF Stored

LEMMA ReadYearStep == IInv /\ ReadYear => IInv'
<1> SUFFICES ASSUME IInv, ReadYear PROVE IInv'
    OBVIOUS
<1>0. PICK listing \in Turn :
         /\ picked' = picked \cup NewestByDate(Rows(listing))
         /\ pending' = pending \ {listing}
    BY DEF ReadYear
<1>1. /\ versions' = versions /\ checks' = checks /\ calls' = calls /\ query' = query
      /\ asked' = asked /\ atCall' = atCall /\ client' = client /\ query = "series"
    BY DEF ReadYear
<1>2. TypeOK /\ Stored /\ Reading
    BY DEF IInv
<1>3. listing \in pending /\ listing \in asked /\ listing \in Years \X Types
    BY <1>2 DEF Turn, Reading, TypeOK
<1>4. ASSUME NEW v \in NewestByDate(Rows(listing))
      PROVE  v \in versions /\ Normalized(v) /\ Listing(v) = listing
    BY <1>3 DEF NewestByDate, Rows, Listing
<1>5. TypeOK'
    BY <1>0, <1>1, <1>2, <1>4 DEF TypeOK
<1>6. Stored'
    BY <1>1, <1>2 DEF Stored
<1>7. Reading'
    BY <1>0, <1>1, <1>2, <1>3, <1>4 DEF Reading, Kept, Listing, Year
<1>8. /\ \A x, y \in asked : x[2] = y[2]
      /\ client.idle => pending = {} /\ picked = {} /\ atCall = {}
      /\ \A v \in picked : Listing(v) \notin pending
      /\ \A v, w \in picked : v.date = w.date => v = w
      /\ \A u \in atCall : Normalized(u) /\ Listing(u) \notin pending =>
             \E w \in picked : w.date = u.date /\ w.seq >= u.seq
    BY <1>1 DEF IInv, SeriesInv
<1>9. ASSUME NEW u \in atCall, Normalized(u), Listing(u) \notin pending'
      PROVE  \E w \in picked' : w.date = u.date /\ w.seq >= u.seq
  <2>1. CASE Listing(u) \notin pending
      BY <1>0, <1>8, <1>9, <2>1
  <2>2. CASE Listing(u) = listing
    <3>1. u \in Rows(listing)
        BY <1>2, <1>9, <2>2 DEF Reading, Kept, Rows, Listing
    <3>2. Rows(listing) \in SUBSET versions
        BY DEF Rows
    <3> QED
        BY <1>0, <1>2, <1>9, <3>1, <3>2, NewestIsThere
  <2> QED
      BY <1>0, <1>9, <2>1, <2>2
<1>10. ASSUME NEW v \in picked', NEW w \in picked', v.date = w.date PROVE v = w
  <2>1. v \in picked /\ w \in picked => v = w
      BY <1>8, <1>10
  <2>2. v \in NewestByDate(Rows(listing)) /\ w \in NewestByDate(Rows(listing)) => v = w
      BY <1>2, <1>10, OneNewest
  <2>3. ASSUME NEW x \in picked, NEW y \in NewestByDate(Rows(listing)), x.date = y.date PROVE FALSE
    <3>1. Listing(x) \in asked /\ Listing(x) \notin pending /\ Listing(y) = listing
        BY <1>2, <1>4, <1>8 DEF Reading
    <3>2. Listing(x) = Listing(y)
        BY <1>3, <1>8, <2>3, <3>1 DEF Listing, Year
    <3> QED
        BY <1>3, <3>1, <3>2
  <2> QED
      BY <1>0, <1>10, <2>1, <2>2, <2>3
<1>11. SeriesInv'
  <2>1. \A v \in picked' : Listing(v) \notin pending'
      BY <1>0, <1>4, <1>8
  <2>2. ~client.idle
      BY <1>3, <1>8
  <2> QED
      BY <1>1, <1>8, <1>9, <1>10, <2>1, <2>2 DEF SeriesInv, Listing, Year
<1>12. PagesInv'
  <2>1. ASSUME NEW d, FoundAgain(d) PROVE FoundAgain(d)'
    <3>1. PICK v \in versions :
             /\ Normalized(v) /\ v.date = d /\ Listing(v) \in asked
             /\ client.idle \/ Listing(v) \in pending \/ \E w \in picked : w.date = d
        BY <2>1 DEF FoundAgain
    <3>2. CASE Listing(v) = listing
      <4>1. v \in Rows(listing) /\ Rows(listing) \in SUBSET versions
          BY <3>2 DEF Rows, Listing
      <4>2. \E w \in NewestByDate(Rows(listing)) : w.date = v.date
          BY <1>2, <3>1, <4>1, NewestIsThere
      <4> QED
          BY <1>0, <1>1, <3>1, <4>2 DEF FoundAgain, Listing, Year
    <3>3. CASE Listing(v) # listing
        BY <1>0, <1>1, <3>1, <3>3 DEF FoundAgain, Listing, Year
    <3> QED
        BY <3>2, <3>3
  <2> QED
      BY <1>1, <2>1 DEF IInv, PagesInv, Missed
<1>13. StatementInv' /\ ReconcileInv'
    BY <1>1 DEF StatementInv, ReconcileInv
<1>14. ChecksInv'
    BY <1>1 DEF IInv, ChecksInv, Founded, Year, Status
<1> QED
    BY <1>5, <1>6, <1>7, <1>11, <1>12, <1>13, <1>14 DEF IInv

\* The points of a series: at most one for each of its versions.
LEMMA SeriesShape ==
    ASSUME IsFiniteSet(picked), NEW name \in {"fundamentals", "derived"}
    PROVE  /\ IsFiniteSet(SeriesOf(name))
           /\ \A p \in SeriesOf(name) : p.version \in picked
           /\ \A p, q \in SeriesOf(name) : p.version = q.version => p = q
           /\ name = "fundamentals" => DatesOf(SeriesOf(name)) = {v.date : v \in picked}
<1>1. CASE name = "fundamentals"
  <2> DEFINE f == [v \in picked |-> [version |-> v, values |-> v.payload]]
  <2>1. SeriesOf(name) = {f[v] : v \in picked} /\ f = [v \in picked |-> f[v]]
      BY <1>1 DEF SeriesOf, Fundamentals
  <2>2. \A v \in picked : f[v].version = v
      OBVIOUS
  <2> HIDE DEF f
  <2>3. IsFiniteSet(SeriesOf(name))
      BY <2>1, ImageIsFinite
  <2> QED
      BY <2>1, <2>2, <2>3 DEF DatesOf
<1>2. CASE name = "derived"
  <2> DEFINE f == [v \in picked |-> Point(picked, v, DOMAIN Specs)]
  <2>1. SeriesOf(name) = {p \in {f[v] : v \in picked} : p.values # {}} /\ f = [v \in picked |-> f[v]]
      BY <1>2 DEF SeriesOf, Points, PointsOf
  <2>2. \A v \in picked : f[v].version = v
      BY DEF Point
  <2> HIDE DEF f
  <2>3. IsFiniteSet({f[v] : v \in picked})
      BY <2>1, ImageIsFinite
  <2>4. IsFiniteSet(SeriesOf(name))
      BY <2>1, <2>3, FS_Subset
  <2> QED
      BY <1>2, <2>1, <2>2, <2>4
<1> QED
    BY <1>1, <1>2

\* A page of points, and the dates of the series that it has.
LEMMA PageOfDates ==
    ASSUME NEW points, IsFiniteSet(points), NEW first \in Int, NEW last \in Int,
           \A p \in points : p.version.date \in Nat,
           \A p, q \in points : p.version.date = q.version.date => p = q
    PROVE  /\ Cardinality(points) = Cardinality(DatesOf(points))
           /\ DatesOf(Slice(points, first, last)) =
                {d \in DatesOf(points) : Place(DatesOf(points), d) \in first..(last - 1)}
<1> DEFINE D == DatesOf(points)
<1>1. ASSUME NEW S \in SUBSET points PROVE Cardinality(S) = Cardinality({p.version.date : p \in S})
  <2> DEFINE f == [p \in S |-> p.version.date]
  <2>1. IsFiniteSet(S)
      BY FS_Subset
  <2>2. f = [p \in S |-> f[p]] /\ \A x, y \in S : f[x] = f[y] => x = y
      OBVIOUS
  <2>3. {f[p] : p \in S} = {p.version.date : p \in S}
      OBVIOUS
  <2> HIDE DEF f
  <2>4. Cardinality({f[p] : p \in S}) = Cardinality(S)
      BY <2>1, <2>2, ImageIsAsLarge
  <2> QED
      BY <2>3, <2>4
<1>2. Cardinality(points) = Cardinality(D)
    BY <1>1 DEF DatesOf
<1>3. ASSUME NEW p \in points
      PROVE  Cardinality({q \in points : q.version.date < p.version.date}) = Place(D, p.version.date)
  <2> DEFINE S == {q \in points : q.version.date < p.version.date}
  <2>1. S \in SUBSET points
      OBVIOUS
  <2>2. {q.version.date : q \in S} = {e \in D : e < p.version.date}
      BY DEF DatesOf
  <2> HIDE DEF S
  <2>3. Cardinality(S) = Cardinality({q.version.date : q \in S})
      BY <1>1, <2>1
  <2> QED
      BY <2>2, <2>3 DEF Place, S
<1>4. Slice(points, first, last) = {p \in points : Place(D, p.version.date) \in first..(last - 1)}
    BY <1>3 DEF Slice
<1>5. DatesOf(Slice(points, first, last)) = {d \in D : Place(D, d) \in first..(last - 1)}
    BY <1>4 DEF DatesOf
<1> QED
    BY <1>2, <1>5

\* One more page of a series that has become another: what it misses more has left it.
LEMMA MissedGrows ==
    ASSUME NEW S \in SUBSET Dates, NEW T \in SUBSET Dates, NEW first \in SUBSET Dates,
           NEW got \in SUBSET Dates, NEW c \in Nat, NEW n \in Nat, NEW now,
           now = got \cup {d \in T : Place(T, d) \in c..(n - 1)}
    PROVE  Cardinality(Lacking(first, now, T, n))
             <= Cardinality(Lacking(first, got, S, c)) + Cardinality(S \ T)
<1> DEFINE Old  == {d \in first \ got : ~(d \in S /\ Place(S, d) >= c)}
           New  == {d \in first \ now : ~(d \in T /\ Place(T, d) >= n)}
           More == {d \in S : Place(S, d) >= c /\ (d \notin T \/ Place(T, d) < c)}
<1>1. /\ IsFiniteSet(S) /\ IsFiniteSet(T) /\ IsFiniteSet(Old) /\ IsFiniteSet(New) /\ IsFiniteSet(More)
      /\ S \in SUBSET Nat /\ T \in SUBSET Nat
      /\ Cardinality(Old) \in Nat /\ Cardinality(New) \in Nat /\ Cardinality(More) \in Nat
      /\ Cardinality(S \ T) \in Nat
    BY DatesFinite
<1>2. Cardinality(More) <= Cardinality(S \ T)
    BY <1>1, FewMoveForward
<1>3. ASSUME NEW d \in New, d \notin Old PROVE d \in More
  <2>1. d \in first /\ d \notin got /\ d \in S /\ Place(S, d) >= c
      BY <1>3
  <2>2. ASSUME d \in T PROVE Place(T, d) < c
    <3>1. Place(T, d) \in Nat
        BY <1>1, <2>2, PlacesAreNumbers
    <3>2. Place(T, d) \notin c..(n - 1) /\ ~(Place(T, d) >= n)
        BY <2>2
    <3> QED
        BY <3>1, <3>2
  <2> QED
      BY <2>1, <2>2
<1>4. New \subseteq Old \cup More
    BY <1>3
<1> HIDE DEF Old, New, More
<1>5. /\ IsFiniteSet(Old \cup More)
      /\ Cardinality(Old \cup More) = Cardinality(Old) + Cardinality(More) - Cardinality(Old \cap More)
    BY <1>1, FS_Union
<1>6. Cardinality(Old \cap More) \in Nat
  <2>1. IsFiniteSet(Old \cap More)
      BY <1>1, FS_Intersection
  <2> QED
      BY <2>1, FS_CardinalityType
<1>7. Cardinality(New) <= Cardinality(Old \cup More)
    BY <1>4, <1>5, FS_Subset
<1>8. Cardinality(New) <= Cardinality(Old) + Cardinality(S \ T)
    BY <1>1, <1>2, <1>5, <1>6, <1>7
<1> QED
    BY <1>8 DEF Old, New, Lacking

LEMMA AnswerPageStep == IInv /\ AnswerPage => IInv'
<1> SUFFICES ASSUME IInv, AnswerPage PROVE IInv'
    OBVIOUS
<1>0. PICK name \in {"fundamentals", "derived"} :
         /\ client.of \in {name, None}
         /\ client' = [idle |-> TRUE, of |-> name, page |-> client.page + 1,
                       total |-> Cardinality(SeriesOf(name)),
                       got |-> client.got \cup DatesOf(Page(SeriesOf(name), client.page, PageSize)),
                       first |-> IF client.page = 1 THEN DatesOf(SeriesOf(name)) ELSE client.first,
                       shown |-> DatesOf(SeriesOf(name)),
                       vanished |-> client.vanished + Cardinality(client.shown \ DatesOf(SeriesOf(name)))]
    BY DEF AnswerPage
<1> DEFINE points == SeriesOf(name)
           dates  == DatesOf(points)
           page   == DatesOf(Page(points, client.page, PageSize))
           c      == (client.page - 1) * PageSize
           n      == client.page * PageSize
<1>1. /\ versions' = versions /\ checks' = checks /\ calls' = calls /\ query' = query
      /\ pending' = pending /\ picked' = {} /\ asked' = asked /\ atCall' = {}
      /\ query = "series" /\ pending = {} /\ ~client.idle
    BY DEF AnswerPage, HasRead
<1>2. TypeOK /\ Stored /\ Reading /\ PagesInv
    BY DEF IInv
<1>3. /\ client \in Client /\ client.page \in Nat \ {0} /\ client.got \in SUBSET Dates
      /\ client.first \in SUBSET Dates /\ client.shown \in SUBSET Dates /\ client.vanished \in Nat
    BY <1>2 DEF TypeOK, Client
<1>4. /\ \A v \in picked : v \in versions /\ v \in Version /\ Normalized(v) /\ Listing(v) \in asked
      /\ \A v, w \in picked : v.date = w.date => v = w
    BY <1>1, <1>2 DEF Reading, IInv, SeriesInv, TypeOK
<1>5. IsFiniteSet(picked)
    BY <1>2, <1>4, FS_Subset DEF Stored
<1>6. /\ IsFiniteSet(points)
      /\ \A p \in points : p.version \in picked
      /\ \A p, q \in points : p.version = q.version => p = q
      /\ name = "fundamentals" => dates = {v.date : v \in picked}
    BY <1>5, SeriesShape
<1>7. /\ \A p \in points : p.version.date \in Dates /\ p.version.date \in Nat
      /\ \A p, q \in points : p.version.date = q.version.date => p = q
    BY <1>4, <1>6, VersionFields
<1>8. PageSize \in Nat /\ c \in Nat /\ n \in Nat /\ client.page + 1 \in Nat \ {0}
    BY <1>3, AnalyticsAssumption
<1>9. dates \in SUBSET Dates
    BY <1>7 DEF DatesOf
<1>10. /\ Cardinality(points) = Cardinality(dates)
       /\ page = {d \in dates : Place(dates, d) \in c..(n - 1)}
  <2>1. page = DatesOf(Slice(points, c, n))
      BY DEF Page
  <2> HIDE DEF points, page, c, n
  <2> QED
      BY <1>6, <1>7, <1>8, <2>1, PageOfDates
<1>11. /\ IsFiniteSet(dates) /\ Cardinality(dates) \in Nat
       /\ IsFiniteSet(client.shown \ dates) /\ Cardinality(client.shown \ dates) \in Nat
    BY <1>3, <1>9, DatesFinite
<1> HIDE DEF points, dates, page
<1>12. client' = [idle |-> TRUE, of |-> name, page |-> client.page + 1,
                  total |-> Cardinality(points), got |-> client.got \cup page,
                  first |-> IF client.page = 1 THEN dates ELSE client.first, shown |-> dates,
                  vanished |-> client.vanished + Cardinality(client.shown \ dates)]
    BY <1>0 DEF points, dates, page
<1>13. /\ client'.idle = TRUE /\ client'.of = name /\ client'.page = client.page + 1
       /\ client'.total = Cardinality(dates) /\ client'.got = client.got \cup page
       /\ client'.first = (IF client.page = 1 THEN dates ELSE client.first)
       /\ client'.shown = dates
       /\ client'.vanished = client.vanished + Cardinality(client.shown \ dates)
    BY <1>10, <1>12
<1>14. client' \in Client
  <2>1. client.got \cup page \in SUBSET Dates
      BY <1>3, <1>9, <1>10
  <2>2. (IF client.page = 1 THEN dates ELSE client.first) \in SUBSET Dates
      BY <1>3, <1>9
  <2>3. client.vanished + Cardinality(client.shown \ dates) \in Nat
      BY <1>3, <1>11
  <2> QED
      BY <1>8, <1>9, <1>10, <1>11, <1>12, <2>1, <2>2, <2>3 DEF Client
<1>15. TypeOK'
    BY <1>1, <1>2, <1>14 DEF TypeOK
<1>16. Stored'
    BY <1>1, <1>2 DEF Stored
<1>17. Reading'
    BY <1>1, <1>2 DEF Reading
<1>18. SeriesInv'
    BY <1>1 DEF IInv, SeriesInv
<1>19. StatementInv' /\ ReconcileInv'
    BY <1>1 DEF StatementInv, ReconcileInv
<1>20. ChecksInv'
    BY <1>1 DEF IInv, ChecksInv, Founded, Year, Status
<1>21. name = "fundamentals" => client'.vanished = 0 /\ \A d \in client'.shown : FoundAgain(d)'
  <2> SUFFICES ASSUME name = "fundamentals"
               PROVE  client'.vanished = 0 /\ \A d \in client'.shown : FoundAgain(d)'
      OBVIOUS
  <2>1. ASSUME NEW d \in dates PROVE FoundAgain(d)'
    <3>1. PICK v \in picked : v.date = d
        BY <1>6, <2>1
    <3> QED
        BY <1>1, <1>4, <1>13, <3>1 DEF FoundAgain, Listing, Year
  <2>2. client.vanished = 0 /\ client.shown \ dates = {}
    <3>1. CASE client.of = None
      <4>1. client = NoClient
          BY <1>2, <3>1 DEF PagesInv
      <4> QED
          BY <4>1, NoClientInv
    <3>2. CASE client.of = "fundamentals"
      <4>1. client.vanished = 0 /\ \A d \in client.shown : FoundAgain(d)
          BY <1>2, <3>2 DEF PagesInv
      <4>2. \A d \in client.shown : \E w \in picked : w.date = d
          BY <1>1, <4>1 DEF FoundAgain
      <4> QED
          BY <1>6, <4>1, <4>2
    <3> QED
        BY <1>0, <3>1, <3>2
  <2> QED
      BY <1>13, <2>1, <2>2, NoneSmall
<1>22. Cardinality(Missed(client')) <= client'.vanished
  <2>1. Missed(client') = Lacking(client'.first, client'.got, dates, n)
    <3>1. client'.page - 1 = client.page
        BY <1>3, <1>13
    <3>2. (client'.page - 1) * PageSize = n
        BY <3>1
    <3> QED
        BY <1>13, <3>2 DEF Missed
  <2>2. CASE client.page = 1
    <3>1. c = 0
        BY <2>2, <1>8
    <3>2. \A d \in dates : Place(dates, d) \in Nat
        BY <1>9, <1>11, DatesFinite, PlacesAreNumbers
    <3>3. Missed(client') = {}
        BY <1>8, <1>10, <1>13, <2>1, <2>2, <3>1, <3>2 DEF Lacking
    <3> QED
        BY <1>3, <1>11, <1>13, <3>3, NoneSmall
  <2>3. CASE client.page # 1
    <3>1. Cardinality(Lacking(client.first, client'.got, dates, n))
            <= Cardinality(Lacking(client.first, client.got, client.shown, c))
                 + Cardinality(client.shown \ dates)
      <4> HIDE DEF c, n
      <4>1. client'.got = client.got \cup {d \in dates : Place(dates, d) \in c..(n - 1)}
          BY <1>10, <1>13
      <4> QED
          BY <1>3, <1>8, <1>9, <4>1, MissedGrows
    <3>2. Missed(client) = Lacking(client.first, client.got, client.shown, c)
        BY DEF Missed
    <3>3. Cardinality(Missed(client)) <= client.vanished /\ Cardinality(Missed(client)) \in Nat
      <4>1. Missed(client) \in SUBSET Dates
          BY <1>3 DEF Missed, Lacking
      <4> QED
          BY <1>2, <4>1, DatesFinite DEF PagesInv
    <3>4. Missed(client') = Lacking(client.first, client'.got, dates, n)
        BY <1>13, <2>1, <2>3
    <3>5. Cardinality(Missed(client')) <= Cardinality(Missed(client)) + Cardinality(client.shown \ dates)
        BY <3>1, <3>2, <3>4
    <3>6. Cardinality(Missed(client')) \in Nat
      <4>1. Missed(client') \in SUBSET Dates
          BY <1>3, <3>4 DEF Lacking
      <4> QED
          BY <4>1, DatesFinite
    <3> QED
        BY <1>3, <1>11, <1>13, <3>3, <3>5, <3>6
  <2> QED
      BY <2>2, <2>3
<1>23. PagesInv'
  <2>1. client'.page # 1 /\ client'.of # None
      BY <1>0, <1>3, <1>13, AnalyticsAssumption
  <2>2. Missed(client)' = Missed(client')
      BY DEF Missed
  <2> QED
      BY <1>13, <1>21, <1>22, <2>1, <2>2 DEF PagesInv
<1> QED
    BY <1>15, <1>16, <1>17, <1>18, <1>19, <1>20, <1>23 DEF IInv

LEMMA AskNextPageStep == IInv /\ AskNextPage => IInv'
<1> SUFFICES ASSUME IInv, AskNextPage PROVE IInv'
    OBVIOUS
<1>1. /\ versions' = versions /\ checks' = checks /\ calls' = calls /\ query' = query
      /\ pending' = asked /\ picked' = picked /\ asked' = asked /\ atCall' = atCall
      /\ client.idle /\ client' = [client EXCEPT !.idle = FALSE]
    BY DEF AskNextPage
<1>2. TypeOK /\ Stored /\ Reading /\ PagesInv
    BY DEF IInv
<1>3. query = "series" /\ client # NoClient
    BY <1>1, <1>2, NoClientInv DEF Reading
<1>4. picked = {} /\ atCall = {}
    BY <1>1, <1>3 DEF IInv, SeriesInv
<1>5. /\ client' \in Client /\ client'.idle = FALSE /\ client'.of = client.of
      /\ client'.page = client.page /\ client'.total = client.total /\ client'.got = client.got
      /\ client'.first = client.first /\ client'.shown = client.shown
      /\ client'.vanished = client.vanished
    BY <1>1, <1>2 DEF TypeOK, Client
<1>6. TypeOK'
    BY <1>1, <1>2, <1>5 DEF TypeOK
<1>7. Stored'
    BY <1>1, <1>2 DEF Stored
<1>8. Reading'
    BY <1>1, <1>2, <1>3, <1>4 DEF Reading
<1>9. SeriesInv'
    BY <1>1, <1>4, <1>5 DEF IInv, SeriesInv
<1>10. StatementInv' /\ ReconcileInv'
    BY <1>1, <1>3 DEF StatementInv, ReconcileInv
<1>11. ChecksInv'
    BY <1>1 DEF IInv, ChecksInv, Founded, Year, Status
<1>12. PagesInv'
  <2>1. ASSUME NEW d, FoundAgain(d) PROVE FoundAgain(d)'
      BY <1>1, <2>1 DEF FoundAgain, Listing, Year
  <2>2. client.page # 1 /\ client.of # None
      BY <1>2, <1>3 DEF PagesInv
  <2>3. Missed(client') = Missed(client)
      BY <1>5 DEF Missed
  <2>4. Missed(client)' = Missed(client')
      BY DEF Missed
  <2> QED
      BY <1>2, <1>5, <2>1, <2>2, <2>3, <2>4 DEF PagesInv
<1> QED
    BY <1>6, <1>7, <1>8, <1>9, <1>10, <1>11, <1>12 DEF IInv

-----------------------------------------------------------------------------
(* A statement and its history; a reconciliation.                          *)

LEMMA ReadLatestVersionStep == IInv /\ ReadLatestVersion => IInv'
<1> SUFFICES ASSUME IInv, ReadLatestVersion PROVE IInv'
    OBVIOUS
<1>a. PICK listing \in pending : \E v \in LatestOf(Rows(listing)) : Normalized(v) /\ picked' = {v}
    BY DEF ReadLatestVersion
<1>0. PICK v \in LatestOf(Rows(listing)) : Normalized(v) /\ picked' = {v}
    BY <1>a
<1>1. /\ versions' = versions /\ checks' = checks /\ calls' = calls /\ query' = query
      /\ pending' = pending /\ asked' = asked /\ atCall' = atCall /\ client' = client
      /\ query = "statement"
    BY DEF ReadLatestVersion
<1>2. TypeOK /\ Stored /\ Reading
    BY DEF IInv
<1>3. /\ listing \in asked /\ listing \in Years \X Types
      /\ pending = asked /\ \A x, y \in asked : x = y
    BY <1>1, <1>2 DEF Reading, TypeOK, IInv, StatementInv
<1>4. v \in versions /\ Listing(v) = listing /\ \A w \in Rows(listing) : w.seq <= v.seq
    BY <1>3 DEF LatestOf, Rows, Listing
<1>5. ASSUME NEW u \in atCall PROVE u.seq <= v.seq
  <2>1. PICK w \in versions : w.type = u.type /\ w.date = u.date /\ w.seq = u.seq
      BY <1>2 DEF Reading, Kept
  <2>2. Listing(u) = listing
      BY <1>2, <1>3 DEF Reading
  <2>3. w \in Rows(listing)
      BY <2>1, <2>2 DEF Rows, Listing, Year
  <2> QED
      BY <1>4, <2>1, <2>3
<1>6. TypeOK'
    BY <1>0, <1>1, <1>2, <1>4 DEF TypeOK
<1>7. Stored'
    BY <1>1, <1>2 DEF Stored
<1>8. Reading'
    BY <1>0, <1>1, <1>2, <1>3, <1>4 DEF Reading, Kept, Listing, Year
<1>9. SeriesInv' /\ ReconcileInv'
    BY <1>1 DEF SeriesInv, ReconcileInv
<1>10. StatementInv'
    BY <1>0, <1>1, <1>3, <1>5 DEF StatementInv
<1>11. PagesInv'
  <2>1. client = NoClient
      BY <1>1, <1>2 DEF Reading
  <2> QED
      BY <1>1, <2>1, NoClientInv DEF PagesInv, Missed
<1>12. ChecksInv'
    BY <1>1 DEF IInv, ChecksInv, Founded, Year, Status
<1> QED
    BY <1>6, <1>7, <1>8, <1>9, <1>10, <1>11, <1>12 DEF IInv

LEMMA ReadLatestStep == IInv /\ ReadLatest => IInv'
<1> SUFFICES ASSUME IInv, ReadLatest PROVE IInv'
    OBVIOUS
<1>a. PICK listing \in Turn :
         /\ \E latest \in Latest(Rows(listing)) : picked' = picked \cup latest
         /\ pending' = pending \ {listing}
    BY DEF ReadLatest
<1>0. PICK latest \in Latest(Rows(listing)) : picked' = picked \cup latest /\ pending' = pending \ {listing}
    BY <1>a
<1>1. /\ versions' = versions /\ checks' = checks /\ calls' = calls /\ query' = query
      /\ asked' = asked /\ atCall' = atCall /\ client' = client /\ query = "reconcile"
    BY DEF ReadLatest
<1>2. TypeOK /\ Stored /\ Reading
    BY DEF IInv
<1>3. listing \in pending /\ listing \in asked /\ listing \in Years \X Types
    BY <1>2 DEF Turn, Reading, TypeOK
<1>4. /\ \A v \in picked : Listing(v) \notin pending
      /\ \A v, w \in picked : SameYear(v, w) => v = w
      /\ \A v \in picked, u \in atCall : SameYear(v, u) => u.seq <= v.seq
      /\ \A u \in atCall : Normalized(u) /\ Listing(u) \notin pending =>
             u \in picked \/ \E w \in versions \ {u} : SameYear(u, w) /\ w.seq >= u.seq
    BY <1>1 DEF IInv, ReconcileInv
\* The one of the highest version_sequence, if there is any.
<1>5. \/ Rows(listing) = {} /\ latest = {}
      \/ \E v \in LatestOf(Rows(listing)) : latest = {w \in {v} : Normalized(w)}
    BY <1>0 DEF Latest
<1>6. /\ \A v, w \in latest : v = w
      /\ \A v \in latest : v \in versions /\ Normalized(v) /\ Listing(v) = listing /\ v \in LatestOf(Rows(listing))
    BY <1>3, <1>5 DEF LatestOf, Rows, Listing
<1>7. \A v, w : SameYear(v, w) => Listing(v) = Listing(w)
    BY DEF SameYear, Listing
<1>8. TypeOK'
    BY <1>0, <1>1, <1>2, <1>6 DEF TypeOK
<1>9. Stored'
    BY <1>1, <1>2 DEF Stored
<1>10. Reading'
    BY <1>0, <1>1, <1>2, <1>3, <1>6 DEF Reading, Kept, Listing, Year
<1>11. SeriesInv' /\ StatementInv'
    BY <1>1 DEF SeriesInv, StatementInv
<1>12. PagesInv'
  <2>1. client = NoClient
      BY <1>1, <1>2 DEF Reading
  <2> QED
      BY <1>1, <2>1, NoClientInv DEF PagesInv, Missed
<1>13. \A v \in picked' : Listing(v) \notin pending'
    BY <1>0, <1>4, <1>6
<1>14. \A v, w \in picked' : SameYear(v, w) => v = w
    BY <1>0, <1>3, <1>4, <1>6, <1>7
<1>15. ASSUME NEW v \in picked', NEW u \in atCall, SameYear(v, u) PROVE u.seq <= v.seq
  <2>1. CASE v \in picked
      BY <1>4, <1>15, <2>1
  <2>2. CASE v \in latest
    <3>1. PICK w \in versions : w.type = u.type /\ w.date = u.date /\ w.seq = u.seq
        BY <1>2 DEF Reading, Kept
    <3>2. Listing(u) = listing
        BY <1>6, <1>7, <1>15, <2>2
    <3>3. w \in Rows(listing)
        BY <3>1, <3>2 DEF Rows, Listing, Year
    <3> QED
        BY <1>6, <2>2, <3>1, <3>3 DEF LatestOf
  <2> QED
      BY <1>0, <2>1, <2>2
<1>16. ASSUME NEW u \in atCall, Normalized(u), Listing(u) \notin pending'
       PROVE  u \in picked' \/ \E w \in versions \ {u} : SameYear(u, w) /\ w.seq >= u.seq
  <2>1. CASE Listing(u) \notin pending
      BY <1>0, <1>4, <1>16, <2>1
  <2>2. CASE Listing(u) = listing
    <3>1. u \in Rows(listing)
        BY <1>2, <1>16, <2>2 DEF Reading, Kept, Rows, Listing
    <3>2. PICK v \in LatestOf(Rows(listing)) : latest = {w \in {v} : Normalized(w)}
        BY <1>5, <3>1
    <3>3. v \in versions /\ v.seq >= u.seq
        BY <3>1 DEF LatestOf, Rows
    <3>4. SameYear(u, v)
        BY <3>1 DEF LatestOf, Rows, SameYear
    <3> QED
        BY <1>0, <1>16, <3>2, <3>3, <3>4
  <2> QED
      BY <1>0, <1>16, <2>1, <2>2
<1>17. ReconcileInv'
    BY <1>1, <1>13, <1>14, <1>15, <1>16 DEF ReconcileInv, Listing, Year, SameYear
<1>18. ChecksInv'
    BY <1>1 DEF IInv, ChecksInv, Founded, Year, Status
<1> QED
    BY <1>8, <1>9, <1>10, <1>11, <1>12, <1>17, <1>18 DEF IInv

LEMMA AppendChecksStep == IInv /\ AppendChecks => IInv'
<1> SUFFICES ASSUME IInv, AppendChecks PROVE IInv'
    OBVIOUS
<1>0. PICK row \in [picked -> versions] :
         /\ \A v \in picked : SameIdentity(v, row[v])
         /\ checks' = checks \cup
              {[run |-> calls, type |-> v.type, year |-> Year(v), seq |-> v.seq,
                date |-> row[v].date, status |-> Status(v)] : v \in picked}
    BY DEF AppendChecks
<1> DEFINE f == [v \in picked |-> [run |-> calls, type |-> v.type, year |-> Year(v), seq |-> v.seq,
                                   date |-> row[v].date, status |-> Status(v)]]
<1>1. query = "reconcile" /\ End /\ UNCHANGED <<versions, calls>>
    BY DEF AppendChecks
<1>2. TypeOK /\ Stored /\ Reading /\ ChecksInv
    BY DEF IInv
<1>3. checks' = checks \cup {f[v] : v \in picked} /\ f = [v \in picked |-> f[v]]
    BY <1>0
<1>4. \A v \in picked : /\ f[v].run = calls /\ f[v].type = v.type /\ f[v].year = Year(v)
                        /\ f[v].seq = v.seq /\ f[v].date = row[v].date /\ f[v].status = Status(v)
    OBVIOUS
<1>5. calls \in 1..MaxCalls
    BY <1>1, <1>2, AnalyticsAssumption DEF Reading, TypeOK
<1>6. \A v \in picked : v \in versions /\ v \in Version /\ Normalized(v) /\ row[v] \in versions /\ row[v] \in Version
    BY <1>2 DEF Reading, TypeOK
<1>7. \A v \in picked : f[v] \in Check
  <2>1. ASSUME NEW v \in picked PROVE f[v] \in Check
    <3>1. v.type \in Types /\ Year(v) \in Years /\ v.seq \in Positions /\ row[v].date \in Dates
        BY <1>6, VersionFields
    <3>2. Status(v) \in {"PASS", "FAIL"}
        BY DEF Status
    <3> QED
        BY <1>5, <3>1, <3>2 DEF Check
  <2> QED
      BY <2>1
<1>8. \A v \in picked : Founded(f[v])
  <2>1. ASSUME NEW v \in picked PROVE Founded(f[v])
    <3>1. row[v].type = v.type /\ Year(row[v]) = Year(v) /\ row[v].seq = v.seq
        BY <1>0 DEF SameIdentity
    <3> QED
        BY <1>4, <1>6, <3>1 DEF Founded
  <2> QED
      BY <2>1
<1> HIDE DEF f
<1>9. IsFiniteSet(checks')
  <2>1. IsFiniteSet(picked)
      BY <1>2, <1>6, FS_Subset DEF Stored
  <2>2. IsFiniteSet({f[v] : v \in picked})
      BY <1>3, <2>1, ImageIsFinite
  <2> QED
      BY <1>2, <1>3, <2>2, FS_Union DEF Stored
<1>10. checks' \subseteq Check
    BY <1>2, <1>3, <1>7 DEF TypeOK
<1>11. \A c \in checks : c.run \in Nat /\ c.run < calls /\ c.run <= calls /\ Founded(c)
    BY <1>1, <1>2, <1>5 DEF ChecksInv, TypeOK, Check
<1>12. \A c \in checks' : c.run <= calls /\ Founded(c)
    BY <1>3, <1>4, <1>5, <1>8, <1>11
<1>13. ASSUME NEW c \in checks', NEW d \in checks', c.run = d.run, c.type = d.type, c.year = d.year
       PROVE  c = d
  <2>1. c \in checks /\ d \in checks => c = d
      BY <1>2, <1>13 DEF ChecksInv
  <2>2. ASSUME NEW v \in picked, NEW w \in picked, c = f[v], d = f[w] PROVE c = d
    <3>1. SameYear(v, w)
        BY <1>4, <1>13, <2>2 DEF SameYear
    <3>2. v = w
        BY <1>1, <3>1 DEF IInv, ReconcileInv
    <3> QED
        BY <2>2, <3>2
  <2>3. \A x \in checks : \A v \in picked : x.run # f[v].run
      BY <1>4, <1>5, <1>11
  <2> QED
      BY <1>3, <1>13, <2>1, <2>2, <2>3
<1> QED
    BY <1>1, <1>9, <1>10, <1>12, <1>13, EndKeeps

LEMMA StepInv == IInv /\ [Next]_vars => IInv'
<1> SUFFICES ASSUME IInv, [Next]_vars PROVE IInv'
    OBVIOUS
<1>1. CASE StoreVersion
    BY <1>1, StoreVersionStep
<1>2. CASE NormalizeVersion
    BY <1>2, NormalizeVersionStep
<1>3. CASE CallSeries \/ CallStatement \/ CallReconcile
    BY <1>3, CallsStep
<1>4. CASE ReadYear
    BY <1>4, ReadYearStep
<1>5. CASE AnswerPage
    BY <1>5, AnswerPageStep
<1>6. CASE AskNextPage
    BY <1>6, AskNextPageStep
<1>7. CASE ReadLatestVersion
    BY <1>7, ReadLatestVersionStep
<1>8. CASE ReadLatest
    BY <1>8, ReadLatestStep
<1>9. CASE AppendChecks
    BY <1>9, AppendChecksStep
<1>10. CASE ClientLeaves \/ NoLatestVersion \/ ReadHistory \/ NothingToReconcile \/ Fail
  <2>1. End /\ UNCHANGED <<versions, checks, calls>>
      BY <1>10 DEF ClientLeaves, NoLatestVersion, ReadHistory, NothingToReconcile, Fail
  <2> QED
      BY <2>1, EndsKeep
<1>11. CASE UNCHANGED vars
  <2>1. /\ versions' = versions /\ checks' = checks /\ calls' = calls /\ query' = query
        /\ pending' = pending /\ picked' = picked /\ asked' = asked /\ atCall' = atCall /\ client' = client
      BY <1>11 DEF vars, work
  <2>2. TypeOK' /\ Stored' /\ Reading'
      BY <2>1 DEF IInv, TypeOK, Stored, Reading, Kept, Listing, Year
  <2>3. SeriesInv' /\ StatementInv' /\ ReconcileInv'
      BY <2>1 DEF IInv, SeriesInv, StatementInv, ReconcileInv, SameYear, Listing, Year
  <2>4. PagesInv'
      BY <2>1 DEF IInv, PagesInv, Missed, FoundAgain, Listing, Year
  <2>5. ChecksInv'
      BY <2>1 DEF IInv, ChecksInv, Founded, Year, Status
  <2> QED
      BY <2>2, <2>3, <2>4, <2>5 DEF IInv
<1> QED
    BY <1>1, <1>2, <1>3, <1>4, <1>5, <1>6, <1>7, <1>8, <1>9, <1>10, <1>11 DEF Next

LEMMA Always == Spec => []IInv
<1>1. Init => IInv
    BY InitInv
<1>2. IInv /\ [Next]_vars => IInv'
    BY StepInv
<1> QED
    BY <1>1, <1>2, PTL DEF Spec

-----------------------------------------------------------------------------
(* What it says of the answers.                                            *)

\* Every query, series of pages and stored check has its type, whatever is stored
\* between two reads.
THEOREM TypeCorrect == Spec => []TypeOK
<1>1. IInv => TypeOK
    BY DEF IInv
<1> QED
    BY <1>1, Always, PTL

\* A series has one version of every date that had a payload at the call, none older
\* than the newest then; a normalized statement is in its own history, and only what
\* was stored since is newer there (get_derived_metrics_timeseries,
\* get_fundamentals_timeseries, get_normalized_statement).
THEOREM AnswersCoverTheirCall == Spec => []ReadsCoverTheirCall
<1>1. IInv => SeriesCoversItsWindow
  <2> SUFFICES ASSUME IInv, HasRead, client.page = 1
               PROVE  /\ \A v, w \in picked : v.type = w.type /\ (v.date = w.date => v = w)
                      /\ \A v \in atCall : Normalized(v) => \E w \in picked : w.date = v.date /\ w.seq >= v.seq
      BY DEF SeriesCoversItsWindow
  <2>1. query = "series" /\ pending = {} /\ ~client.idle
      BY DEF HasRead
  <2>2. \A v, w \in picked : v.type = w.type
      BY <2>1 DEF IInv, SeriesInv, Reading, Listing
  <2> QED
      BY <2>1, <2>2 DEF IInv, SeriesInv
<1>2. IInv => LatestIsInTheHistory
  <2> SUFFICES ASSUME IInv, query = "statement", NEW at \in asked, NEW v \in picked
               PROVE  /\ v \in Rows(at)
                      /\ \A w \in Rows(at) :
                           w.seq > v.seq => ~\E u \in atCall : u.date = w.date /\ u.seq = w.seq
      BY DEF LatestIsInTheHistory
  <2>1. Listing(v) = at /\ v \in versions
      BY DEF IInv, Reading, StatementInv
  <2>2. v \in Rows(at)
      BY <2>1 DEF Rows, Listing
  <2>3. ASSUME NEW w \in Rows(at), w.seq > v.seq, NEW u \in atCall, u.seq = w.seq PROVE FALSE
    <3>1. u.seq <= v.seq
        BY DEF IInv, StatementInv
    <3>2. w \in Version /\ v \in Version
        BY <2>1 DEF Rows, IInv, TypeOK
    <3>3. w.seq \in Nat /\ v.seq \in Nat
        BY <3>2, VersionFields
    <3> QED
        BY <2>3, <3>1, <3>3
  <2> QED
      BY <2>2, <2>3
<1>3. IInv => ReadsCoverTheirCall
    BY <1>1, <1>2 DEF ReadsCoverTheirCall
<1> QED
    BY <1>3, Always, PTL

\* A client of /v1/fundamentals/time-series that asks page after page misses no date
\* of its first page's series, and one of the derived series at most as many as left
\* the series on the way (present_fundamentals_time_series, present_derived_time_series).
THEOREM PagingLosesNothing == Spec => []PagesLoseNothing
<1>1. ASSUME IInv, client.idle, ~MorePages
      PROVE  /\ client.of = "fundamentals" => client.vanished = 0
             /\ Cardinality(client.first \ client.got) <= client.vanished
  <2> DEFINE c == (client.page - 1) * PageSize
  <2>1. /\ client.shown \in SUBSET Dates /\ client.first \in SUBSET Dates /\ client.page \in Nat \ {0}
        /\ client.total = Cardinality(client.shown)
      BY <1>1 DEF IInv, TypeOK, Client, PagesInv
  <2>2. IsFiniteSet(client.shown) /\ client.shown \in SUBSET Nat /\ Cardinality(client.shown) \in Nat
      BY <2>1, DatesFinite
  <2>3. c \in Nat /\ ~(c < Cardinality(client.shown))
      BY <1>1, <2>1, AnalyticsAssumption DEF MorePages
  <2>4. ASSUME NEW d \in client.shown PROVE ~(Place(client.shown, d) >= c)
    <3>1. Place(client.shown, d) \in Nat /\ Place(client.shown, d) < Cardinality(client.shown)
        BY <2>2, PlacesAreNumbers
    <3> QED
        BY <2>2, <2>3, <3>1
  <2>5. Missed(client) = client.first \ client.got
      BY <2>4 DEF Missed, Lacking
  <2> QED
      BY <1>1, <2>5 DEF IInv, PagesInv
<1>2. IInv => PagesLoseNothing
    BY <1>1 DEF PagesLoseNothing
<1> QED
    BY <1>2, Always, PTL

\* A reconciliation run judges at most one version of each type and year, none that
\* was superseded at its call, and leaves out no version that was and stayed the only
\* newest one; a stored check is of its run, type and year alone and has the status of
\* a version that is there (run_reconciliation_for_statement_identity, append_results).
THEOREM RunsJudgeTheNewest == Spec => []NewestAreReconciled
<1>1. ASSUME IInv, query = "reconcile", pending = {}
      PROVE  /\ \A v, w \in picked : v.type = w.type /\ Year(v) = Year(w) => v = w
             /\ RunRoute.status = 200 => Cardinality(RunRoute.body) = Cardinality(picked)
             /\ \A v \in picked, w \in atCall : v.type = w.type /\ Year(v) = Year(w) => w.seq <= v.seq
             /\ \A v \in atCall : Normalized(v) =>
                  \/ v \in picked
                  \/ \E w \in versions \ {v} : v.type = w.type /\ Year(v) = Year(w) /\ w.seq >= v.seq
  <2>1. \A v, w \in picked : SameYear(v, w) => v = w
      BY <1>1 DEF IInv, ReconcileInv
  <2>2. RunRoute.status = 200 => Cardinality(RunRoute.body) = Cardinality(picked)
    <3> DEFINE f == [v \in picked |-> ReconciliationResultHTTP(v)]
    <3>1. ASSUME picked # {} PROVE RunRoute.body = {f[v] : v \in picked}
        BY <3>1 DEF RunRoute, Answer
    <3>2. RunRoute.status = 200 => picked # {}
        BY DEF RunRoute, Refusal, EdgarStatus
    <3>3. f = [v \in picked |-> f[v]] /\ \A v, w \in picked : f[v] = f[w] => v = w
      <4>1. \A v, w \in picked : f[v] = f[w] => SameYear(v, w)
          BY DEF ReconciliationResultHTTP, SameYear
      <4> QED
          BY <2>1, <4>1
    <3>4. IsFiniteSet(picked)
      <4>1. picked \in SUBSET versions /\ IsFiniteSet(versions)
          BY <1>1 DEF IInv, Reading, Stored
      <4> QED
          BY <4>1, FS_Subset
    <3> HIDE DEF f
    <3>5. Cardinality({f[v] : v \in picked}) = Cardinality(picked)
        BY <3>3, <3>4, ImageIsAsLarge
    <3> QED
        BY <3>1, <3>2, <3>5
  <2>3. \A v \in atCall : Normalized(v) =>
             \/ v \in picked
             \/ \E w \in versions \ {v} : SameYear(v, w) /\ w.seq >= v.seq
      BY <1>1 DEF IInv, ReconcileInv
  <2>4. \A v \in picked, w \in atCall : SameYear(v, w) => w.seq <= v.seq
      BY <1>1 DEF IInv, ReconcileInv
  <2> QED
      BY <2>1, <2>2, <2>3, <2>4 DEF SameYear
<1>2. ASSUME IInv, NEW c \in checks
      PROVE  /\ \A d \in checks : c.run = d.run /\ c.type = d.type /\ c.year = d.year => c = d
             /\ LET rows == {v \in versions : v.type = c.type /\ Year(v) = c.year /\ v.seq = c.seq}
                IN  /\ \E v \in rows : Normalized(v) /\ Status(v) = c.status
                    /\ Cardinality(rows) = 1 => \A v \in rows : v.date = c.date
  <2> DEFINE rows == {v \in versions : v.type = c.type /\ Year(v) = c.year /\ v.seq = c.seq}
  <2>1. Founded(c)
      BY <1>2 DEF IInv, ChecksInv
  <2>2. \E v \in rows : Normalized(v) /\ Status(v) = c.status
      BY <2>1 DEF Founded
  <2>3. \E v \in rows : v.date = c.date
      BY <2>1 DEF Founded
  <2>4. IsFiniteSet(rows)
      BY <1>2, FS_Subset DEF IInv, Stored
  <2>5. ASSUME Cardinality(rows) = 1 PROVE \A v \in rows : v.date = c.date
    <3> HIDE DEF rows
    <3>1. \E x : rows = {x}
        BY <2>4, <2>5, FS_Singleton
    <3> QED
        BY <2>3, <3>1
  <2> QED
      BY <1>2, <2>2, <2>5 DEF IInv, ChecksInv
<1>3. IInv => NewestAreReconciled
    BY <1>1, <1>2 DEF NewestAreReconciled
<1> QED
    BY <1>3, Always, PTL

-----------------------------------------------------------------------------
(* The checks of all runs, counted.                                        *)

LEMMA CheckFields ==
    ASSUME TypeOK, NEW c \in checks
    PROVE  /\ c.run \in Nat /\ c.run \in 1..MaxCalls /\ c.type \in Types
           /\ c.year \in Years /\ c.year \in Nat /\ c.seq \in Nat
           /\ c.status \in {"PASS", "FAIL"}
<1>1. c \in Check
    BY DEF TypeOK
<1>2. Years \subseteq Nat /\ Positions \subseteq Nat /\ 1..MaxCalls \subseteq Nat
    BY VersionsAssumption, AnalyticsAssumption DEF Years
<1> QED
    BY <1>1, <1>2 DEF Check

\* Checks of one type are in order by year, version and run; as many as the limit says
\* are kept, and whatever is cut off comes after all that is kept.
LEMMA OldestOf ==
    ASSUME IInv, NEW type, NEW rows \in SUBSET checks, \A c \in rows : c.type = type,
           NEW limit \in Nat
    PROVE  /\ IsFiniteSet(rows) /\ Cardinality(rows) \in Nat
           /\ Oldest(rows, limit) \subseteq rows
           /\ Cardinality(Oldest(rows, limit)) = IF limit < Cardinality(rows) THEN limit ELSE Cardinality(rows)
           /\ \A c \in rows \ Oldest(rows, limit) :
                limit < Cardinality(rows) /\ \A d \in Oldest(rows, limit) : InOrder(d, c)
<1> DEFINE kept == Oldest(rows, limit)
<1>1. IsFiniteSet(rows) /\ Cardinality(rows) \in Nat
  <2>1. IsFiniteSet(rows)
      BY FS_Subset DEF IInv, Stored
  <2> QED
      BY <2>1, FS_CardinalityType
<1>2. \A c \in rows : c.run \in Nat /\ c.year \in Nat /\ c.seq \in Nat
    BY CheckFields DEF IInv
<1>3. \A c, d \in rows : c.run = d.run /\ c.year = d.year => c = d
    BY DEF IInv, ChecksInv
<1>4. /\ \A c \in rows : ~InOrder(c, c)
      /\ \A c, d \in rows : c # d => InOrder(c, d) \/ InOrder(d, c)
      /\ \A c, d, e \in rows : InOrder(c, d) /\ InOrder(d, e) => InOrder(c, e)
  <2>1. \A c \in rows : ~InOrder(c, c)
      BY <1>2 DEF InOrder
  <2>2. \A c, d \in rows : c # d => InOrder(c, d) \/ InOrder(d, c)
      BY <1>2, <1>3 DEF InOrder
  <2>3. \A c, d, e \in rows : InOrder(c, d) /\ InOrder(d, e) => InOrder(c, e)
      BY <1>2 DEF InOrder
  <2> QED
      BY <2>1, <2>2, <2>3
<1>5. PICK before : before = [c \in rows |-> {d \in rows : InOrder(d, c)}]
    OBVIOUS
<1>6. \A c, d \in rows : d \in before[c] <=> InOrder(d, c)
    BY <1>5
<1>7. IsOrder(rows, before)
    BY <1>4, <1>5, <1>6 DEF IsOrder
<1>8. kept \in SUBSET rows /\ \A c \in rows : c \in kept <=> Cardinality(before[c]) < limit
    BY <1>5 DEF Oldest
<1> HIDE DEF kept
<1>9. CountsRanks(rows, before, limit, kept)
    BY <1>1, <1>7, <1>8, RanksCount DEF Ranked
<1>10. /\ \A c \in rows : Cardinality(before[c]) \in Nat /\ Cardinality(before[c]) < Cardinality(rows)
       /\ \A c, d \in rows : c \in before[d] => Cardinality(before[c]) < Cardinality(before[d])
       /\ Cardinality(kept) = IF limit < Cardinality(rows) THEN limit ELSE Cardinality(rows)
    BY <1>9 DEF CountsRanks
<1>11. ASSUME NEW c \in rows \ kept
       PROVE  limit < Cardinality(rows) /\ \A d \in kept : InOrder(d, c)
  <2>1. /\ Cardinality(before[c]) \in Nat /\ ~(Cardinality(before[c]) < limit)
        /\ Cardinality(before[c]) < Cardinality(rows)
      BY <1>8, <1>10
  <2>2. ASSUME NEW d \in kept PROVE InOrder(d, c)
    <3>1. d \in rows /\ d # c /\ Cardinality(before[d]) < limit /\ Cardinality(before[d]) \in Nat
        BY <1>8, <1>10
    <3>2. ~(c \in before[d])
        BY <1>10, <2>1, <3>1
    <3> QED
        BY <1>4, <1>6, <3>1, <3>2
  <2> QED
      BY <1>1, <2>1, <2>2
<1> QED
    BY <1>1, <1>8, <1>10, <1>11 DEF kept

\* The bucket a check is counted in.
Own(rows, r) == {c \in rows : c.year = r.year /\ c.seq = r.seq}

BucketOf(rows, r) ==
    [year |-> r.year, seq |-> r.seq,
     pass_count |-> CountOf(Own(rows, r), "PASS"), fail_count |-> CountOf(Own(rows, r), "FAIL")]

Tally(buckets) == MapThenSumSet(LAMBDA b : b.pass_count + b.fail_count, buckets)

LEMMA BucketsAreOf == \A rows : Buckets(rows) = {BucketOf(rows, r) : r \in rows}
BY DEF Buckets, BucketOf, Own

\* A summary counts every row it is made of once.
LEMMA BucketsCountAll ==
    ASSUME NEW rows, IsFiniteSet(rows), \A c \in rows : c.status \in {"PASS", "FAIL"}
    PROVE  Tally(Buckets(rows)) = Cardinality(rows)
<1> DEFINE f == [c \in rows |-> BucketOf(rows, c)]
           S == Buckets(rows)
           In(s) == {c \in rows : f[c] \in s}
           W == [s \in SUBSET S |-> Cardinality(In(s))]
<1>1. f = [c \in rows |-> f[c]] /\ S = {f[c] : c \in rows}
    BY BucketsAreOf
<1>2. IsFiniteSet(S)
  <2> HIDE DEF f, S
  <2> QED
      BY <1>1, ImageIsFinite
<1>3. \A c \in rows : f[c].year = c.year /\ f[c].seq = c.seq
    BY DEF BucketOf
<1>4. ASSUME NEW c \in rows, NEW d \in rows, c.year = d.year, c.seq = d.seq PROVE f[c] = f[d]
  <2>1. Own(rows, c) = Own(rows, d)
      BY <1>4 DEF Own
  <2> QED
      BY <1>4, <2>1 DEF BucketOf
<1>5. ASSUME NEW r \in rows
      PROVE  /\ IsFiniteSet(Own(rows, r))
             /\ Cardinality(Own(rows, r)) = f[r].pass_count + f[r].fail_count
  <2> DEFINE P == {c \in Own(rows, r) : c.status = "PASS"}
             F == {c \in Own(rows, r) : c.status = "FAIL"}
  <2>1. IsFiniteSet(Own(rows, r)) /\ IsFiniteSet(P) /\ IsFiniteSet(F)
      BY FS_Subset DEF Own
  <2>2. Own(rows, r) = P \cup F /\ P \cap F = {}
      BY DEF Own
  <2>3. f[r].pass_count = Cardinality(P) /\ f[r].fail_count = Cardinality(F)
      BY DEF BucketOf, CountOf
  <2> HIDE DEF P, F, f
  <2>4. Cardinality(P \cup F) = Cardinality(P) + Cardinality(F)
      BY <2>1, <2>2, DisjointUnion
  <2> QED
      BY <2>1, <2>2, <2>3, <2>4
<1> HIDE DEF f, S
<1>6. \A s : IsFiniteSet(In(s))
    BY FS_Subset
<1>7. ASSUME NEW s \in SUBSET S, NEW b \in S, b \in s
      PROVE  W[s] = b.pass_count + b.fail_count + W[s \ {b}]
  <2>1. PICK r \in rows : b = f[r]
      BY <1>1
  <2>2. \A c \in rows : f[c] = b <=> c \in Own(rows, r)
      BY <1>3, <1>4, <2>1 DEF Own
  <2>3. In(s) = In(s \ {b}) \cup Own(rows, r) /\ In(s \ {b}) \cap Own(rows, r) = {}
    <3>1. Own(rows, r) \subseteq rows
        BY DEF Own
    <3> QED
        BY <1>7, <2>2, <3>1
  <2>4. W[s] = Cardinality(In(s)) /\ W[s \ {b}] = Cardinality(In(s \ {b}))
      OBVIOUS
  <2>5. IsFiniteSet(In(s \ {b})) /\ Cardinality(In(s \ {b})) \in Nat
      BY <1>6, FS_CardinalityType
  <2>6. Cardinality(Own(rows, r)) \in Nat
      BY <1>5, FS_CardinalityType
  <2> HIDE DEF In, W
  <2>7. Cardinality(In(s)) = Cardinality(In(s \ {b})) + Cardinality(Own(rows, r))
      BY <1>5, <2>3, <2>5, DisjointUnion
  <2> QED
      BY <1>5, <2>1, <2>4, <2>5, <2>6, <2>7
<1>8. W = [s \in SUBSET S |-> W[s]]
    OBVIOUS
<1>9. W[{}] = 0
  <2>1. In({}) = {}
      OBVIOUS
  <2> QED
      BY <2>1, NoneSmall
<1>10. W[S] = Cardinality(rows)
  <2>1. In(S) = rows
      BY <1>1
  <2> QED
      BY <2>1
<1> HIDE DEF W
<1>11. MapThenSumSet(LAMBDA b : b.pass_count + b.fail_count, S) = W[S]
    BY <1>2, <1>7, <1>8, <1>9, BucketsSum
<1>12. Tally(S) = W[S]
    BY <1>11 DEF Tally
<1> QED
    BY <1>10, <1>12 DEF S

Judged(type, year, seq, status) == {c \in StatementRows(type, year, seq) : c.status = status}

\* A ledger of as many rows as there were calls has every check of its statement.
LEMMA LedgerHasAll ==
    ASSUME IInv, NEW type, NEW year, NEW seq, NEW status
    PROVE  LedgerOf(type, year, seq, {status}, MaxCalls) = Judged(type, year, seq, status)
<1> DEFINE rows == StatementRows(type, year, seq)
           f == [c \in rows |-> c.run]
<1>1. rows \in SUBSET checks /\ \A c \in rows : c.type = type /\ c.year = year /\ c.seq = seq
    BY DEF StatementRows
<1>2. IsFiniteSet(rows) /\ Cardinality(rows) \in Nat
  <2>1. IsFiniteSet(rows)
      BY <1>1, FS_Subset DEF IInv, Stored
  <2> QED
      BY <2>1, FS_CardinalityType
<1>3. \A c \in rows : c.run \in 1..MaxCalls
    BY <1>1, CheckFields DEF IInv
<1> HIDE DEF rows
<1>4. f = [c \in rows |-> f[c]] /\ \A c, d \in rows : f[c] = f[d] => c = d
    BY <1>1 DEF IInv, ChecksInv
<1>5. {f[c] : c \in rows} \in SUBSET (1..MaxCalls)
    BY <1>3
<1> HIDE DEF f
<1>6. Cardinality({f[c] : c \in rows}) = Cardinality(rows)
    BY <1>2, <1>4, ImageIsAsLarge
<1>7. MaxCalls \in Nat /\ IsFiniteSet(1..MaxCalls) /\ Cardinality(1..MaxCalls) = MaxCalls
    BY AnalyticsAssumption, FS_Interval
<1>8. Cardinality(rows) <= MaxCalls
  <2> DEFINE G == {f[c] : c \in rows}
             W == 1..MaxCalls
  <2>1. G \in SUBSET W /\ IsFiniteSet(W) /\ Cardinality(W) = MaxCalls
      BY <1>5, <1>7
  <2> HIDE DEF G, W
  <2>2. Cardinality(G) <= Cardinality(W)
      BY <2>1, FS_Subset
  <2> QED
      BY <1>6, <2>1, <2>2 DEF G
<1>9. Oldest(rows, MaxCalls) \subseteq rows /\ \A c \in rows \ Oldest(rows, MaxCalls) : MaxCalls < Cardinality(rows)
    BY <1>1, <1>7, OldestOf
<1>10. Oldest(rows, MaxCalls) = rows
  <2>1. ASSUME NEW c \in rows, c \notin Oldest(rows, MaxCalls) PROVE FALSE
    <3>1. MaxCalls < Cardinality(rows)
        BY <1>9, <2>1
    <3> QED
        BY <1>2, <1>7, <1>8, <3>1
  <2> QED
      BY <1>9, <2>1
<1> QED
    BY <1>10 DEF LedgerOf, Judged, rows

LEMMA MinOfTwo ==
    ASSUME NEW a \in Nat, NEW b \in Nat
    PROVE  Min({a, b}) = IF a < b THEN a ELSE b
<1>1. \E x \in {a, b} : \A y \in {a, b} : x <= y
    OBVIOUS
<1>2. Min({a, b}) \in {a, b} /\ \A y \in {a, b} : Min({a, b}) <= y
    BY <1>1 DEF Min
<1> QED
    BY <1>2

\* A summary counts what the ledgers of its statements list, over all runs; a limit
\* cuts off the newest, so that only the last bucket may be short
\* (GetReconciliationSummaryUseCase, GetReconciliationLedgerUseCase, list_for_window).
THEOREM SummariesAddUpAlways == Spec => []SummariesAddUp
<1>1. ASSUME IInv, NEW type \in Types, NEW from \in Years, NEW to \in Years,
             NEW limit \in 1..(Cardinality(checks) + 1), from <= to
      PROVE  LET buckets == SummaryRoute(type, from, to, limit).body
                 rows    == {c \in checks : c.type = type /\ c.year \in from..to}
                 Counted == MapThenSumSet(LAMBDA b : b.pass_count + b.fail_count, buckets)
                 All(c, status) == Cardinality(LedgerOf(type, c.year, c.seq, {status}, MaxCalls))
                 Later(c, d) == c.year > d.year \/ (c.year = d.year /\ c.seq > d.seq)
             IN  /\ Counted = Min({limit, Cardinality(rows)})
                 /\ \A b \in buckets :
                      \/ b.pass_count = All(b, "PASS") /\ b.fail_count = All(b, "FAIL")
                      \/ Counted = limit /\ ~\E other \in buckets : Later(other, b)
                 /\ \A c \in rows :
                      \/ \E b \in buckets : b.year = c.year /\ b.seq = c.seq
                      \/ Counted = limit /\ \A b \in buckets : Later(c, b)
  <2> DEFINE rows == {c \in checks : c.type = type /\ c.year \in from..to}
             kept == Oldest(rows, limit)
             sum  == Tally(Buckets(kept))
             answer == SummaryRoute(type, from, to, limit).body
             Later(c, d) == c.year > d.year \/ (c.year = d.year /\ c.seq > d.seq)
  <2>1. TypeOK /\ IsFiniteSet(checks) /\ Cardinality(checks) \in Nat
      BY <1>1, FS_CardinalityType DEF IInv, Stored
  <2>2. limit \in Nat /\ from \in Nat /\ to \in Nat
    <3>1. Years \subseteq Nat
        BY VersionsAssumption DEF Years
    <3> QED
        BY <2>1, <3>1
  <2>3. \A c \in checks : /\ c.year \in Nat /\ c.seq \in Nat /\ c.run \in Nat /\ c.status \in {"PASS", "FAIL"}
      BY <2>1, CheckFields
  <2>4. rows \in SUBSET checks /\ \A c \in rows : c.type = type
      OBVIOUS
  <2>5. answer = Buckets(kept)
    <3>1. {c \in checks : c.type = type /\ from <= c.year /\ c.year <= to} = rows
        BY <2>2, <2>3
    <3>2. WindowRows(type, from, to, limit) = kept
        BY <3>1 DEF WindowRows
    <3> HIDE DEF kept
    <3> QED
        BY <1>1, <2>2, <3>2 DEF SummaryRoute, Answer
  <2> HIDE DEF rows
  <2>6. /\ IsFiniteSet(rows) /\ Cardinality(rows) \in Nat
        /\ kept \subseteq rows
        /\ Cardinality(kept) = IF limit < Cardinality(rows) THEN limit ELSE Cardinality(rows)
        /\ \A c \in rows \ kept :
             limit < Cardinality(rows) /\ \A d \in kept : InOrder(d, c)
      BY <1>1, <2>2, <2>4, OldestOf
  <2> HIDE DEF kept
  <2>7. IsFiniteSet(kept) /\ \A c \in kept : c.status \in {"PASS", "FAIL"}
      BY <2>3, <2>4, <2>6, FS_Subset
  <2>8. sum = Cardinality(kept)
      BY <2>7, BucketsCountAll
  <2> HIDE DEF sum
  <2>9. sum = Min({limit, Cardinality(rows)})
      BY <2>2, <2>6, <2>8, MinOfTwo
  <2>10. \A c \in rows \ kept : sum = limit
      BY <2>6, <2>8
  <2>11. Buckets(kept) = {BucketOf(kept, r) : r \in kept}
      BY BucketsAreOf
  <2>12. ASSUME NEW r \in kept
         PROVE  \/ /\ BucketOf(kept, r).pass_count = Cardinality(LedgerOf(type, r.year, r.seq, {"PASS"}, MaxCalls))
                   /\ BucketOf(kept, r).fail_count = Cardinality(LedgerOf(type, r.year, r.seq, {"FAIL"}, MaxCalls))
                \/ sum = limit /\ ~\E d \in kept : Later(d, r)
    <3> DEFINE all == StatementRows(type, r.year, r.seq)
    <3>1. \A status : LedgerOf(type, r.year, r.seq, {status}, MaxCalls) = Judged(type, r.year, r.seq, status)
        BY <1>1, LedgerHasAll
    <3>2. all \subseteq rows /\ Own(kept, r) = all \cap kept
      <4>1. r \in rows /\ r.type = type /\ r.year \in from..to
          BY <2>6 DEF rows
      <4>2. all \subseteq rows
          BY <4>1 DEF StatementRows, rows
      <4>3. Own(kept, r) = all \cap kept
          BY <2>4, <2>6 DEF StatementRows, Own
      <4> QED
          BY <4>2, <4>3
    <3>3. CASE all \subseteq kept
      <4>1. Own(kept, r) = all
          BY <3>2, <3>3
      <4> QED
          BY <3>1, <4>1 DEF BucketOf, CountOf, Judged
    <3>4. CASE ~(all \subseteq kept)
      <4>1. PICK c \in all : c \notin kept
          BY <3>4
      <4>2. c \in rows \ kept /\ c.year = r.year /\ c.seq = r.seq
          BY <3>2, <4>1 DEF StatementRows
      <4>3. ASSUME NEW d \in kept, Later(d, r) PROVE FALSE
        <5>1. InOrder(d, c)
            BY <2>6, <4>2
        <5>2. d \in checks /\ c \in checks /\ r \in checks
            BY <2>4, <2>6, <4>2
        <5> QED
            BY <2>3, <4>2, <4>3, <5>1, <5>2 DEF InOrder
      <4> QED
          BY <2>10, <4>2, <4>3
    <3> QED
        BY <3>3, <3>4
  <2>13. ASSUME NEW c \in rows
         PROVE  \/ \E r \in kept : r.year = c.year /\ r.seq = c.seq
                \/ sum = limit /\ \A r \in kept : Later(c, r)
    <3>1. CASE c \in kept
        BY <3>1
    <3>2. CASE c \notin kept /\ ~\E r \in kept : r.year = c.year /\ r.seq = c.seq
      <4>1. ASSUME NEW r \in kept PROVE Later(c, r)
        <5>1. InOrder(r, c)
            BY <2>6, <3>2
        <5>2. r \in checks /\ c \in checks
            BY <2>4, <2>6
        <5> QED
            BY <2>3, <3>2, <5>1, <5>2 DEF InOrder
      <4> QED
          BY <2>10, <3>2, <4>1
    <3> QED
        BY <3>1, <3>2
  <2>14. \A r : BucketOf(kept, r).year = r.year /\ BucketOf(kept, r).seq = r.seq
      BY DEF BucketOf
  <2>15. ASSUME NEW b \in Buckets(kept)
         PROVE  \/ /\ b.pass_count = Cardinality(LedgerOf(type, b.year, b.seq, {"PASS"}, MaxCalls))
                   /\ b.fail_count = Cardinality(LedgerOf(type, b.year, b.seq, {"FAIL"}, MaxCalls))
                \/ sum = limit /\ ~\E other \in Buckets(kept) : Later(other, b)
    <3>1. PICK r \in kept : b = BucketOf(kept, r)
        BY <2>11
    <3> QED
        BY <2>11, <2>12, <2>14, <3>1
  <2>16. ASSUME NEW c \in rows
         PROVE  \/ \E b \in Buckets(kept) : b.year = c.year /\ b.seq = c.seq
                \/ sum = limit /\ \A b \in Buckets(kept) : Later(c, b)
      BY <2>11, <2>13, <2>14
  <2>17. MapThenSumSet(LAMBDA b : b.pass_count + b.fail_count, answer) = Tally(answer)
      BY DEF Tally
  <2> HIDE DEF answer
  <2>18. Tally(answer) = sum
      BY <2>5 DEF sum
  <2>19. /\ Tally(answer) = Min({limit, Cardinality(rows)})
         /\ \A b \in answer :
              \/ /\ b.pass_count = Cardinality(LedgerOf(type, b.year, b.seq, {"PASS"}, MaxCalls))
                 /\ b.fail_count = Cardinality(LedgerOf(type, b.year, b.seq, {"FAIL"}, MaxCalls))
              \/ Tally(answer) = limit /\ ~\E other \in answer : Later(other, b)
         /\ \A c \in rows :
              \/ \E b \in answer : b.year = c.year /\ b.seq = c.seq
              \/ Tally(answer) = limit /\ \A b \in answer : Later(c, b)
      BY <2>5, <2>9, <2>15, <2>16, <2>18
  <2> QED
      BY <2>17, <2>19 DEF answer, rows
<1>2. IInv => SummariesAddUp
    BY <1>1 DEF SummariesAddUp
<1> QED
    BY <1>2, Always, PTL

-----------------------------------------------------------------------------
(* The listings behind the views and routes of restatements.               *)

\* The list a query returns holds every row of its answer and no other.
LEMMA ListsAreWhole ==
    ASSUME NEW S, IsFiniteSet(S), NEW list \in SetToSeqs(S)
    PROVE  /\ list \in Seq(S) /\ ToSet(list) = S
           /\ \A i, j \in DOMAIN list : i # j => list[i] # list[j]
<1> DEFINE D == 1..Cardinality(S)
<1>1. Cardinality(S) \in Nat
    BY FS_CardinalityType
<1>2. list \in [D -> S] /\ \A i, j \in D : i # j => list[i] # list[j]
    BY DEF SetToSeqs
<1>3. IsFiniteSet(D) /\ Cardinality(D) = Cardinality(S)
    BY <1>1, FS_Interval
<1>4. ASSUME NEW s \in S PROVE s \in ToSet(list)
  <2>1. SUFFICES ASSUME s \notin ToSet(list) PROVE FALSE
      OBVIOUS
  <2>2. list \in [D -> S \ {s}]
      BY <1>2, <2>1 DEF ToSet
  <2>3. IsFiniteSet(S \ {s}) /\ Cardinality(S \ {s}) = Cardinality(S) - 1
      BY FS_RemoveElement
  <2>4. Cardinality(S \ {s}) < Cardinality(D)
      BY <1>1, <1>3, <2>3
  <2> HIDE DEF D
  <2>5. \E i, j \in D : i # j /\ list[i] = list[j]
      BY <1>3, <2>2, <2>3, <2>4, FS_PigeonHole
  <2> QED
      BY <1>2, <2>5
<1>5. list \in Seq(S)
    BY <1>1, <1>2
<1> QED
    BY <1>2, <1>4, <1>5 DEF ToSet

\* A list of versions no two of which have the same date and sequence.
IsListing(list) ==
    /\ list \in Seq(Version)
    /\ \A i, j \in DOMAIN list : list[i].date = list[j].date /\ list[i].seq = list[j].seq => i = j

LEMMA ListingsAre ==
    ASSUME IInv, NEW type, NEW year, NEW list \in Listings(versions, type, year)
    PROVE  IsListing(list)
<1> DEFINE rows == {v \in versions : v.type = type /\ Year(v) = year}
<1>1. /\ rows \subseteq Version /\ IsFiniteSet(rows)
      /\ \A v, w \in rows : v.date = w.date /\ v.seq = w.seq => v = w
    BY FS_Subset DEF IInv, TypeOK, Stored
<1>2. list \in SetToSeqs(rows)
    BY DEF Listings
<1> HIDE DEF rows
<1>3. /\ list \in Seq(rows) /\ ToSet(list) = rows
      /\ \A i, j \in DOMAIN list : i # j => list[i] # list[j]
    BY <1>1, <1>2, ListsAreWhole
<1>4. list \in Seq(Version)
    BY <1>1, <1>3
<1> QED
    BY <1>1, <1>3, <1>4 DEF IsListing

LEMMA PlacesAreAll ==
    ASSUME NEW S \in SUBSET Nat, IsFiniteSet(S)
    PROVE  /\ \A d \in S : Place(S, d) \in 0..(Cardinality(S) - 1)
           /\ \A d, e \in S : Place(S, d) = Place(S, e) => d = e
           /\ \A p \in 0..(Cardinality(S) - 1) : \E d \in S : Place(S, d) = p
<1> DEFINE N == Cardinality(S)
           r == [d \in S |-> Place(S, d)]
<1>1. N \in Nat
    BY FS_CardinalityType
<1>2. \A d \in S : Place(S, d) \in 0..(N - 1)
  <2>1. \A d \in S : Place(S, d) \in Nat /\ Place(S, d) < N
      BY PlacesAreNumbers
  <2> HIDE DEF N
  <2> QED
      BY <1>1, <2>1
<1>3. \A d, e \in S : Place(S, d) = Place(S, e) => d = e
  <2>1. \A d \in S : Place(S, d) \in Nat
      BY <1>2
  <2>2. \A d, e \in S : d < e => Place(S, d) < Place(S, e)
      BY PlacesAreNumbers
  <2>3. \A d, e \in S : d \in Nat /\ e \in Nat
      OBVIOUS
  <2> QED
      BY <2>1, <2>2, <2>3
<1>4. r \in Injection(S, 0..(N - 1))
    BY <1>2, <1>3 DEF Injection, IsInjective
<1>5. IsFiniteSet(0..(N - 1)) /\ Cardinality(0..(N - 1)) = N
  <2> HIDE DEF N
  <2> QED
      BY <1>1, FS_Interval
<1>6. r \in Surjection(S, 0..(N - 1))
  <2> HIDE DEF r
  <2> QED
      BY <1>4, <1>5, FS_Injection
<1>7. \A p \in 0..(N - 1) : \E d \in S : r[d] = p
  <2> HIDE DEF r
  <2> QED
      BY <1>6 DEF Surjection
<1> QED
    BY <1>2, <1>3, <1>7

\* What NormalizedOf keeps of a list, in the order of places of the kept ones.
IsHistory(vs) ==
    /\ IsListing(vs)
    /\ \A n \in DOMAIN vs : Normalized(vs[n])

LEMMA NormalizedOfKeeps ==
    ASSUME NEW list, IsListing(list)
    PROVE  /\ IsHistory(NormalizedOf(list))
           /\ \A n \in DOMAIN NormalizedOf(list) : \E i \in DOMAIN list : NormalizedOf(list)[n] = list[i]
           /\ \A i \in DOMAIN list : Normalized(list[i]) =>
                \E n \in DOMAIN NormalizedOf(list) : NormalizedOf(list)[n] = list[i]
<1> DEFINE kept   == {i \in DOMAIN list : Normalized(list[i])}
           N      == Cardinality(kept)
           Nth(n) == CHOOSE i \in kept : Cardinality({k \in kept : k < i}) = n - 1
           vs     == [n \in 1..N |-> list[Nth(n)]]
<1>1. list \in Seq(Version) /\ DOMAIN list = 1..Len(list) /\ Len(list) \in Nat
    BY DEF IsListing
<1>2. IsFiniteSet(kept) /\ kept \in SUBSET Nat /\ N \in Nat
  <2>1. IsFiniteSet(1..Len(list)) /\ kept \subseteq 1..Len(list)
      BY <1>1, FS_Interval
  <2>2. kept \in SUBSET Nat
      BY <1>1, <2>1
  <2> HIDE DEF kept
  <2> QED
      BY <2>1, <2>2, FS_Subset, FS_CardinalityType
<1>3. /\ \A i \in kept : Place(kept, i) \in 0..(N - 1)
      /\ \A i, k \in kept : Place(kept, i) = Place(kept, k) => i = k
      /\ \A p \in 0..(N - 1) : \E i \in kept : Place(kept, i) = p
  <2> HIDE DEF kept
  <2> QED
      BY <1>2, PlacesAreAll
<1>4. ASSUME NEW n \in 1..N PROVE Nth(n) \in kept /\ Place(kept, Nth(n)) = n - 1
  <2> HIDE DEF kept, N
  <2>1. n - 1 \in 0..(N - 1)
      BY <1>2
  <2>2. \E i \in kept : Place(kept, i) = n - 1
      BY <1>3, <2>1 DEF N
  <2> QED
      BY <2>2, Zenon DEF Place
<1>5. ASSUME NEW i \in kept PROVE Place(kept, i) + 1 \in 1..N /\ Nth(Place(kept, i) + 1) = i
  <2> DEFINE p == Place(kept, i) + 1
  <2> HIDE DEF Nth, kept
  <2>1. p \in 1..N /\ p - 1 = Place(kept, i)
      BY <1>2, <1>3
  <2>2. Nth(p) \in kept /\ Place(kept, Nth(p)) = p - 1
      BY <1>4, <2>1
  <2> QED
      BY <1>3, <2>1, <2>2
<1>6. NormalizedOf(list) = vs
    BY DEF NormalizedOf, NormalizedAt
<1>7. \A n \in 1..N : Nth(n) \in DOMAIN list /\ Normalized(list[Nth(n)])
    BY <1>4
<1>8. \A i \in DOMAIN list : Normalized(list[i]) => \E n \in 1..N : Nth(n) = i
    BY <1>5
<1> HIDE DEF Nth, kept
<1>9. \A n, k \in 1..N : Nth(n) = Nth(k) => n = k
    BY <1>2, <1>4
<1>10. vs \in Seq(Version) /\ DOMAIN vs = 1..N
  <2>1. \A n \in 1..N : vs[n] \in Version
      BY <1>1, <1>7
  <2> QED
      BY <1>2, <2>1
<1>11. \A i, j \in 1..N : vs[i].date = vs[j].date /\ vs[i].seq = vs[j].seq => i = j
    BY <1>7, <1>9 DEF IsListing
<1> QED
    BY <1>6, <1>7, <1>8, <1>10, <1>11 DEF IsHistory, IsListing

LEMMA PayloadFacts ==
    ASSUME NEW v \in Version, Normalized(v)
    PROVE  /\ DOMAIN v.payload \subseteq Metrics /\ IsFiniteSet(DOMAIN v.payload)
           /\ \A m \in DOMAIN v.payload : v.payload[m] \in Int /\ v.payload[m] # None
           /\ v.date \in Dates /\ v.seq \in Positions /\ v.seq \in Nat /\ v.seq # None
<1>1. v.payload \in Payloads /\ v.date \in Dates /\ v.seq \in Positions
    BY DEF Version, Normalized
<1>2. PICK type \in Types : v.payload \in PayloadsOf[type]
    BY <1>1 DEF Payloads
<1>3. DOMAIN v.payload \subseteq Metrics /\ v.payload \in [DOMAIN v.payload -> Int]
    BY <1>2, VersionsAssumption
<1>4. IsFiniteSet(DOMAIN v.payload)
    BY <1>3, VersionsAssumption, FS_Subset
<1>5. \A m \in DOMAIN v.payload : v.payload[m] \in Int
  <2> DEFINE p == v.payload
  <2> HIDE DEF p
  <2>1. p \in [DOMAIN p -> Int]
      BY <1>3 DEF p
  <2>2. \A m \in DOMAIN p : p[m] \in Int
      BY <2>1
  <2> QED
      BY <2>2 DEF p
<1>6. \A i \in Int : i # None
    BY VersionsAssumption
<1>7. v.seq \in Nat /\ v.seq # None
  <2>1. v.seq \in Nat
      BY <1>1, VersionsAssumption
  <2> QED
      BY <1>6, <2>1
<1>8. \A m \in DOMAIN v.payload : v.payload[m] # None
    BY <1>5, <1>6
<1> QED
    BY <1>1, <1>3, <1>4, <1>5, <1>7, <1>8

LEMMA DeltaIs ==
    ASSUME NEW v \in Version, Normalized(v), NEW w \in Version, Normalized(w)
    PROVE  /\ DOMAIN Delta(v, w) = {m \in Metrics : Has(v, m) /\ Has(w, m) /\ w.payload[m] # v.payload[m]}
           /\ \A m \in DOMAIN Delta(v, w) :
                /\ Delta(v, w)[m] = w.payload[m] - v.payload[m]
                /\ Delta(v, w)[m] \in Int /\ Delta(v, w)[m] # 0 /\ Delta(v, w)[m] # None
<1> DEFINE D == {m \in Metrics : Has(v, m) /\ Has(w, m) /\ w.payload[m] # v.payload[m]}
<1>1. Delta(v, w) = [m \in D |-> w.payload[m] - v.payload[m]]
    BY DEF Delta
<1>2. ASSUME NEW m \in D
      PROVE  /\ w.payload[m] - v.payload[m] \in Int /\ w.payload[m] - v.payload[m] # 0
             /\ w.payload[m] - v.payload[m] # None
  <2>1. v.payload[m] \in Int /\ w.payload[m] \in Int /\ w.payload[m] # v.payload[m]
      BY PayloadFacts DEF Has
  <2> QED
      BY <2>1, VersionsAssumption
<1> HIDE DEF D
<1>3. /\ DOMAIN Delta(v, w) = D
      /\ \A m \in DOMAIN Delta(v, w) :
                /\ Delta(v, w)[m] = w.payload[m] - v.payload[m]
                /\ Delta(v, w)[m] \in Int /\ Delta(v, w)[m] # 0 /\ Delta(v, w)[m] # None
    BY <1>1, <1>2
<1> QED
    BY <1>3 DEF D

LEMMA EntryIs ==
    ASSUME NEW v \in Version, Normalized(v), NEW w \in Version, Normalized(w)
    PROVE  /\ Entry(v, w).from = v.seq /\ Entry(v, w).to = w.seq
           /\ DOMAIN Entry(v, w).diffs = {m \in Metrics : Has(v, m) \/ Has(w, m)}
           /\ \A m \in DOMAIN Entry(v, w).diffs : Entry(v, w).diffs[m] \in Int \cup {None}
           /\ \A m \in Metrics : Has(v, m) /\ Has(w, m) =>
                Entry(v, w).diffs[m] = w.payload[m] - v.payload[m]
           /\ {m \in DOMAIN Entry(v, w).diffs : Entry(v, w).diffs[m] \notin {None, 0}} = DOMAIN Delta(v, w)
           /\ \A m \in DOMAIN Delta(v, w) : Entry(v, w).diffs[m] = Delta(v, w)[m]
           /\ Entry(v, w).changed = Cardinality(DOMAIN Delta(v, w))
           /\ Entry(v, w).compared = Cardinality(DOMAIN Entry(v, w).diffs)
<1> DEFINE compared == {m \in Metrics : Has(v, m) \/ Has(w, m)}
           diffs == [m \in compared |->
                        IF Has(v, m) /\ Has(w, m) THEN w.payload[m] - v.payload[m] ELSE None]
<1>1. /\ Entry(v, w).from = v.seq /\ Entry(v, w).to = w.seq /\ Entry(v, w).diffs = diffs
      /\ Entry(v, w).compared = Cardinality(compared)
      /\ Entry(v, w).changed  = Cardinality({m \in compared : diffs[m] \notin {None, 0}})
    BY DEF Entry
<1>2. \A m \in Metrics : /\ Has(v, m) => v.payload[m] \in Int
                         /\ Has(w, m) => w.payload[m] \in Int
    BY PayloadFacts DEF Has
<1>3. \A m \in compared : Has(v, m) /\ Has(w, m) => diffs[m] = w.payload[m] - v.payload[m]
    OBVIOUS
<1>4. \A m \in compared : ~(Has(v, m) /\ Has(w, m)) => diffs[m] = None
    OBVIOUS
<1>5. ASSUME NEW m \in Metrics, Has(v, m), Has(w, m)
      PROVE  /\ diffs[m] \in Int /\ diffs[m] # None
             /\ diffs[m] = 0 <=> w.payload[m] = v.payload[m]
  <2>1. diffs[m] = w.payload[m] - v.payload[m]
      BY <1>3, <1>5
  <2>2. v.payload[m] \in Int /\ w.payload[m] \in Int
      BY <1>2, <1>5
  <2> QED
      BY <2>1, <2>2, VersionsAssumption
<1>6. DOMAIN diffs = compared
    OBVIOUS
<1> HIDE DEF diffs
<1>7. {m \in compared : diffs[m] \notin {None, 0}} = DOMAIN Delta(v, w)
  <2>1. DOMAIN Delta(v, w) = {m \in Metrics : Has(v, m) /\ Has(w, m) /\ w.payload[m] # v.payload[m]}
      BY DeltaIs
  <2>2. ASSUME NEW m \in Metrics, Has(v, m), Has(w, m)
        PROVE  diffs[m] \notin {None, 0} <=> w.payload[m] # v.payload[m]
      BY <1>5, <2>2
  <2> QED
      BY <1>4, <2>1, <2>2
<1>8. \A m \in compared : diffs[m] \in Int \cup {None}
    BY <1>4, <1>5
<1>9. \A m \in DOMAIN Delta(v, w) : diffs[m] = Delta(v, w)[m]
    BY <1>3, DeltaIs
<1> QED
    BY <1>1, <1>3, <1>6, <1>7, <1>8, <1>9

\* The delta of two versions with what the answers made of it count and show.
LEMMA HopsAre ==
    ASSUME NEW list, IsListing(list), Len(NormalizedOf(list)) >= 2
    PROVE  LET vs == NormalizedOf(list)
               n  == Len(vs)
           IN  /\ n \in Nat /\ DOMAIN vs = 1..n
               /\ \A i \in 1..n : vs[i] \in Version /\ Normalized(vs[i])
               /\ n - 1 \in Nat
               /\ Len(Hops(list)) = n - 1 /\ Len(Ledger(list)) = n - 1
               /\ \A i \in 1..(n - 1) : /\ i \in 1..n /\ i + 1 \in 1..n
                                        /\ Hops(list)[i] = Delta(vs[i], vs[i + 1])
                                        /\ Ledger(list)[i] = Entry(vs[i], vs[i + 1])
<1> DEFINE vs == NormalizedOf(list)
           n  == Len(vs)
<1>1. /\ vs \in Seq(Version) /\ n >= 2
      /\ \A i \in DOMAIN vs : Normalized(vs[i])
    BY NormalizedOfKeeps DEF IsHistory, IsListing
<1>2. /\ Hops(list) = [i \in 1..(n - 1) |-> Delta(vs[i], vs[i + 1])]
      /\ Ledger(list) = [i \in 1..(n - 1) |-> Entry(vs[i], vs[i + 1])]
    BY DEF Hops, Ledger
<1> HIDE DEF vs
<1>3. n \in Nat /\ DOMAIN vs = 1..n /\ \A i \in 1..n : vs[i] \in Version /\ Normalized(vs[i])
    BY <1>1
<1> HIDE DEF n
<1>4. n - 1 \in Nat /\ \A i \in 1..(n - 1) : i \in 1..n /\ i + 1 \in 1..n
    BY <1>1, <1>3
<1>5. Len(Hops(list)) = n - 1 /\ Len(Ledger(list)) = n - 1
    BY <1>2, <1>4
<1>6. \A i \in 1..(n - 1) : /\ Hops(list)[i] = Delta(vs[i], vs[i + 1])
                            /\ Ledger(list)[i] = Entry(vs[i], vs[i + 1])
    BY <1>2
<1> QED
    BY <1>3, <1>4, <1>5, <1>6 DEF n, vs

-----------------------------------------------------------------------------
(* What the views of the restatements of a listing say of each other.      *)

\* The sum of a metric's moves from one version to the next is its move in all.
LEMMA MovesAddUp ==
    ASSUME NEW i \in Nat, NEW k \in Nat, i <= k, NEW e, NEW m, NEW x,
           \A j \in i..k : x[j] \in Int,
           \A j \in i..(k - 1) : e[j].diffs[m] = x[j + 1] - x[j]
    PROVE  Moved(e, m, i, k) = x[k] - x[i]
<1> DEFINE Is(f) == f = [j \in i..k |-> IF j = i THEN 0 ELSE f[j - 1] + e[j - 1].diffs[m]]
           W == [j \in i..k |-> x[j] - x[i]]
           moved == CHOOSE f : Is(f)
<1>1. ASSUME NEW j \in i..k
      PROVE  /\ j \in Nat /\ i \in i..k /\ k \in i..k
             /\ j # i => j - 1 \in i..k /\ j - 1 \in i..(k - 1) /\ (j - 1) + 1 = j
    OBVIOUS
<1>2. ASSUME NEW j \in i..k
      PROVE  W[j] = IF j = i THEN 0 ELSE W[j - 1] + e[j - 1].diffs[m]
  <2>1. CASE j = i
    <3>1. x[i] \in Int
        BY <1>1
    <3> QED
        BY <2>1, <3>1
  <2>2. CASE j # i
    <3>1. j - 1 \in i..k /\ e[j - 1].diffs[m] = x[j] - x[j - 1]
        BY <1>1, <2>2
    <3>2. x[j] \in Int /\ x[i] \in Int /\ x[j - 1] \in Int
        BY <1>1, <3>1
    <3>3. W[j] = x[j] - x[i] /\ W[j - 1] = x[j - 1] - x[i]
        BY <3>1
    <3> QED
        BY <2>2, <3>1, <3>2, <3>3
  <2> QED
      BY <2>1, <2>2
<1>3. Is(W)
    BY <1>2
<1>4. Is(moved)
  <2>1. \E f : Is(f)
      BY <1>3
  <2> HIDE DEF Is
  <2> QED
      BY <2>1, Zenon
<1> HIDE DEF W
<1>5. ASSUME NEW j \in i..k
      PROVE  moved[j] = IF j = i THEN 0 ELSE moved[j - 1] + e[j - 1].diffs[m]
  <2> HIDE DEF moved
  <2> QED
      BY <1>4
<1>6. Moved(e, m, i, k) = moved[k]
    BY DEF Moved
<1> HIDE DEF moved
<1> DEFINE Bad == {j \in i..k : moved[j] # W[j]}
<1>7. ASSUME Bad # {} PROVE FALSE
  <2>1. PICK j \in Bad : \A l \in Bad : j <= l
    <3>1. Bad \in SUBSET Nat
        BY <1>1
    <3> HIDE DEF Bad
    <3> QED
        BY <1>7, <3>1, LeastNumber
  <2>2. j # i
      BY <1>2, <1>5, <2>1
  <2>3. j - 1 \in i..k /\ j - 1 \notin Bad
    <3>1. j - 1 \in i..k /\ ~(j <= j - 1)
        BY <1>1, <2>1, <2>2
    <3> HIDE DEF Bad
    <3> QED
        BY <2>1, <3>1
  <2>4. moved[j - 1] = W[j - 1]
      BY <2>3
  <2> QED
      BY <1>2, <1>5, <2>1, <2>2, <2>4
<1>8. moved[k] = W[k] /\ W[k] = x[k] - x[i]
    BY <1>1, <1>7 DEF W
<1> QED
    BY <1>6, <1>8

LEMMA OneMoreTime ==
    ASSUME NEW c \in Nat, NEW M \in Int
    PROVE  c * M \in Int /\ (c + 1) * M = c * M + M
OBVIOUS

LEMMA MagnitudeIs ==
    /\ Magnitude(0) = 0
    /\ \A a \in Int : Magnitude(a) \in Nat
    /\ \A a, b \in Int : a + b \in Int /\ Magnitude(a + b) <= Magnitude(a) + Magnitude(b)
BY DEF Magnitude

\* What moves at some places, by at most M each time, has moved in all by at most M
\* times as often as it moved.
LEMMA MovesAreBounded ==
    ASSUME NEW n \in Nat, n >= 1, NEW x, \A j \in 1..n : x[j] \in Int, NEW M \in Int,
           NEW at, at = {h \in 1..(n - 1) : x[h + 1] # x[h]},
           \A h \in at : Magnitude(x[h + 1] - x[h]) <= M
    PROVE  Magnitude(x[n] - x[1]) <= Cardinality(at) * M
<1> DEFINE Upto(k) == {h \in at : h < k}
           Bad == {k \in 1..n : ~(Magnitude(x[k] - x[1]) <= Cardinality(Upto(k)) * M)}
<1>1. \A k \in 1..n : IsFiniteSet(Upto(k)) /\ Cardinality(Upto(k)) \in Nat
  <2>1. IsFiniteSet(1..(n - 1))
      BY FS_Interval
  <2>2. \A k \in 1..n : Upto(k) \subseteq 1..(n - 1)
      OBVIOUS
  <2> HIDE DEF Upto
  <2> QED
      BY <2>1, <2>2, FS_Subset, FS_CardinalityType
<1>2. ASSUME Bad # {} PROVE FALSE
  <2>1. PICK k \in Bad : \A l \in Bad : k <= l
    <3>1. Bad \in SUBSET Nat
        OBVIOUS
    <3> HIDE DEF Bad
    <3> QED
        BY <1>2, <3>1, LeastNumber
  <2>2. k # 1
    <3>1. Upto(1) = {}
        OBVIOUS
    <3>2. Cardinality(Upto(1)) = 0
        BY <3>1, FS_EmptySet
    <3>3. Magnitude(x[1] - x[1]) = 0
      <4>1. x[1] \in Int
          OBVIOUS
      <4>2. x[1] - x[1] = 0
          BY <4>1
      <4> QED
          BY <4>2, MagnitudeIs
    <3>4. 0 * M = 0
        OBVIOUS
    <3> HIDE DEF Upto
    <3> QED
        BY <2>1, <3>2, <3>3, <3>4
  <2> DEFINE p == k - 1
  <2>3. p \in 1..(n - 1) /\ p \in 1..n /\ p + 1 = k /\ ~(k <= p) /\ k \in 1..n
      BY <2>1, <2>2
  <2> HIDE DEF p
  <2>4. Magnitude(x[p] - x[1]) <= Cardinality(Upto(p)) * M
    <3>1. p \notin Bad
      <4> HIDE DEF Bad
      <4> QED
          BY <2>1, <2>3
    <3> QED
        BY <2>3, <3>1
  <2>5. x[p] \in Int /\ x[k] \in Int /\ x[1] \in Int
      BY <2>3
  <2>6. ~(Magnitude(x[k] - x[1]) <= Cardinality(Upto(k)) * M)
      BY <2>1
  <2>7. CASE p \in at
    <3>1. Upto(k) = Upto(p) \cup {p} /\ p \notin Upto(p)
        BY <2>3, <2>7
    <3>2. Cardinality(Upto(k)) = Cardinality(Upto(p)) + 1
      <4> HIDE DEF Upto
      <4> QED
          BY <1>1, <2>3, <3>1, FS_AddElement
    <3> DEFINE c == Cardinality(Upto(p))
    <3>3. c \in Nat
        BY <1>1, <2>3
    <3> HIDE DEF Upto
    <3>4. Magnitude(x[k] - x[p]) <= M
        BY <2>3, <2>7
    <3> DEFINE a == x[p] - x[1]
               b == x[k] - x[p]
    <3>5. a \in Int /\ b \in Int /\ x[k] - x[1] = a + b
        BY <2>5
    <3> HIDE DEF a, b
    <3>6. /\ Magnitude(a) \in Nat /\ Magnitude(b) \in Nat /\ Magnitude(a + b) \in Nat
          /\ Magnitude(a + b) <= Magnitude(a) + Magnitude(b)
      <4>1. a \in Int /\ b \in Int
          BY <3>5
      <4> QED
          BY <4>1, MagnitudeIs, Zenon
    <3>7. Magnitude(a) <= c * M /\ Magnitude(b) <= M /\ ~(Magnitude(a + b) <= (c + 1) * M)
        BY <2>4, <2>6, <3>2, <3>4, <3>5 DEF a, b
    <3> HIDE DEF c
    <3>8. c * M \in Int /\ (c + 1) * M = c * M + M
        BY <3>3, OneMoreTime
    <3> DEFINE cM == c * M
               cM1 == (c + 1) * M
               ma == Magnitude(a)
               mb == Magnitude(b)
               mab == Magnitude(a + b)
    <3>9. /\ ma \in Nat /\ mb \in Nat /\ mab \in Nat /\ mab <= ma + mb
          /\ ma <= cM /\ mb <= M /\ ~(mab <= cM1) /\ cM \in Int /\ cM1 = cM + M
        BY <3>6, <3>7, <3>8
    <3> HIDE DEF cM, cM1, ma, mb, mab
    <3> QED
        BY <3>9
  <2>8. CASE p \notin at
    <3>1. Upto(k) = Upto(p)
        BY <2>3, <2>8
    <3>2. x[k] = x[p]
        BY <2>3, <2>8
    <3> QED
        BY <2>4, <2>6, <3>1, <3>2
  <2> QED
      BY <2>7, <2>8
<1>3. Magnitude(x[n] - x[1]) <= Cardinality(Upto(n)) * M
  <2>1. n \in 1..n /\ n \notin Bad
    <3> HIDE DEF Bad
    <3> QED
        BY <1>2
  <2> HIDE DEF Upto
  <2> QED
      BY <2>1
<1>4. Upto(n) = at
    OBVIOUS
<1> QED
    BY <1>3, <1>4

\* A timeline is of versions of one date.
LEMMA TimelineHasOneDate ==
    ASSUME NEW list, IsListing(list), TimelineAnswers(list)
    PROVE  LET vs == NormalizedOf(list)
               n  == Len(vs)
           IN  /\ n >= 2
               /\ \A i, k \in 1..n : vs[i].date = vs[k].date
               /\ \A i, k \in 1..n : vs[i].seq = vs[k].seq => i = k
<1> DEFINE vs == NormalizedOf(list)
           n  == Len(vs)
           Bad == {k \in 1..n : vs[k].date # vs[1].date}
<1>1. n >= 2 /\ \A i \in 1..(n - 1) : vs[i].date = vs[i + 1].date
    BY DEF TimelineAnswers, SameStatement
<1>2. /\ n \in Nat /\ DOMAIN vs = 1..n
      /\ \A i, k \in DOMAIN vs : vs[i].date = vs[k].date /\ vs[i].seq = vs[k].seq => i = k
  <2>1. IsHistory(vs)
      BY NormalizedOfKeeps
  <2> HIDE DEF vs
  <2> QED
      BY <2>1 DEF IsHistory, IsListing
<1> HIDE DEF vs, n
<1>3. ASSUME Bad # {} PROVE FALSE
  <2>1. PICK k \in Bad : \A l \in Bad : k <= l
    <3>1. Bad \in SUBSET Nat
        BY <1>2
    <3> HIDE DEF Bad
    <3> QED
        BY <1>3, <3>1, LeastNumber
  <2>2. k \in 1..n /\ k # 1
      BY <2>1
  <2>3. k - 1 \in 1..(n - 1) /\ k - 1 \in 1..n /\ (k - 1) + 1 = k /\ ~(k <= k - 1)
      BY <1>2, <2>2
  <2>4. k - 1 \notin Bad
    <3> HIDE DEF Bad
    <3> QED
        BY <2>1, <2>3
  <2>5. vs[k - 1].date = vs[1].date
      BY <2>3, <2>4
  <2>6. vs[k - 1].date = vs[k].date
      BY <1>1, <2>3
  <2> QED
      BY <2>1, <2>5, <2>6
<1>4. \A k \in 1..n : vs[k].date = vs[1].date
    BY <1>3
<1>5. \A i, k \in 1..n : vs[i].date = vs[k].date
    BY <1>4
<1>6. \A i, k \in 1..n : vs[i].seq = vs[k].seq => i = k
    BY <1>2, <1>5
<1> QED
    BY <1>1, <1>5, <1>6 DEF n, vs

LEMMA PositionsAre ==
    ASSUME NEW vs, NEW n \in Nat, n = Len(vs), NEW i \in 1..n,
           \A k \in 1..n : vs[i].seq = vs[k].seq => i = k
    PROVE  PositionOf(vs, vs[i].seq) = i
<1>1. {k \in 1..Len(vs) : vs[k].seq = vs[i].seq} = {i}
    OBVIOUS
<1>2. Min({i}) = i
    BY DEF Min
<1> QED
    BY <1>1, <1>2 DEF PositionOf

\* What is asked for by version_sequence is what is there at its places.
LEMMA BetweenIs ==
    ASSUME NEW list, IsListing(list), TimelineAnswers(list)
    PROVE  LET vs == NormalizedOf(list)
               n  == Len(vs)
           IN  /\ \A i, k \in 1..n : i < k =>
                    /\ BetweenAnswers(list, vs[i].seq, vs[k].seq)
                    /\ Between(list, vs[i].seq, vs[k].seq) = Delta(vs[i], vs[k])
               /\ Between(list, None, None) = Delta(vs[n - 1], vs[n])
               /\ \A i \in 1..(n - 1) :
                    /\ Between(list, vs[i].seq, None) = Delta(vs[i], vs[i + 1])
                    /\ Between(list, None, vs[i + 1].seq) = Delta(vs[i], vs[i + 1])
<1> DEFINE vs == NormalizedOf(list)
           n  == Len(vs)
<1>1. /\ n >= 2
      /\ \A i, k \in 1..n : vs[i].date = vs[k].date
      /\ \A i, k \in 1..n : vs[i].seq = vs[k].seq => i = k
    BY TimelineHasOneDate
<1>2. /\ n \in Nat /\ DOMAIN vs = 1..n
      /\ \A i \in 1..n : vs[i] \in Version /\ Normalized(vs[i])
      /\ \A i \in 1..(n - 1) : i \in 1..n /\ i + 1 \in 1..n
    BY <1>1, HopsAre
<1>3. \A from, to : Between(list, from, to) =
          Delta(vs[Indices(vs, from, to)[1]], vs[Indices(vs, from, to)[2]])
    BY DEF Between
<1>4. \A from, to : BetweenAnswers(list, from, to) <=>
        /\ n >= 2
        /\ {from, to} \subseteq {v.seq : v \in ToSet(vs)} \cup {None}
        /\ 1 <= Indices(vs, from, to)[1] /\ Indices(vs, from, to)[1] < Indices(vs, from, to)[2]
        /\ Indices(vs, from, to)[2] <= n
        /\ SameStatement(vs[Indices(vs, from, to)[1]], vs[Indices(vs, from, to)[2]])
    BY DEF BetweenAnswers
<1> HIDE DEF vs
<1>5. \A i \in 1..n : PositionOf(vs, vs[i].seq) = i
    BY <1>1, <1>2, PositionsAre
<1>6. \A i \in 1..n : vs[i].seq # None
    BY <1>2, PayloadFacts
<1>7. /\ \A i, k \in 1..n : Indices(vs, vs[i].seq, vs[k].seq) = <<i, k>>
      /\ \A i \in 1..n : /\ Indices(vs, vs[i].seq, None) = <<i, i + 1>>
                         /\ Indices(vs, None, vs[i].seq) = <<i - 1, i>>
      /\ Indices(vs, None, None) = <<n - 1, n>>
    BY <1>5, <1>6 DEF Indices
<1>8. ASSUME NEW i \in 1..n, NEW k \in 1..n, i < k
      PROVE  /\ BetweenAnswers(list, vs[i].seq, vs[k].seq)
             /\ Between(list, vs[i].seq, vs[k].seq) = Delta(vs[i], vs[k])
  <2>1. Indices(vs, vs[i].seq, vs[k].seq)[1] = i /\ Indices(vs, vs[i].seq, vs[k].seq)[2] = k
      BY <1>7
  <2>2. vs[i] \in ToSet(vs) /\ vs[k] \in ToSet(vs)
      BY <1>2 DEF ToSet
  <2>3. SameStatement(vs[i], vs[k])
      BY <1>1 DEF SameStatement
  <2>4. 1 <= i /\ k <= n
      BY <1>2
  <2> HIDE DEF n
  <2> QED
      BY <1>1, <1>3, <1>4, <1>8, <2>1, <2>2, <2>3, <2>4
<1>9. Between(list, None, None) = Delta(vs[n - 1], vs[n])
    BY <1>3, <1>7
<1>10. ASSUME NEW i \in 1..(n - 1)
       PROVE  /\ Between(list, vs[i].seq, None) = Delta(vs[i], vs[i + 1])
              /\ Between(list, None, vs[i + 1].seq) = Delta(vs[i], vs[i + 1])
  <2>1. i \in 1..n /\ i + 1 \in 1..n /\ (i + 1) - 1 = i
      BY <1>2
  <2>2. Indices(vs, vs[i].seq, None) = <<i, i + 1>> /\ Indices(vs, None, vs[i + 1].seq) = <<i, i + 1>>
      BY <1>7, <2>1
  <2> QED
      BY <1>3, <2>2
<1> QED
    BY <1>8, <1>9, <1>10 DEF vs

LEMMA MaxIsGreatest ==
    ASSUME NEW S \in SUBSET Nat, IsFiniteSet(S), S # {}
    PROVE  Max(S) \in S /\ \A k \in S : k <= Max(S)
<1>1. \E m \in S : \A k \in S : k <= m
    BY GreatestNumber
<1>2. \E m \in S : \A k \in S : m >= k
  <2>1. \A m, k \in S : k <= m => m >= k
      OBVIOUS
  <2> QED
      BY <1>1, <2>1
<1>3. Max(S) \in S /\ \A k \in S : Max(S) >= k
    BY <1>2, Zenon DEF Max
<1> QED
    BY <1>3

LEMMA BySequenceIs ==
    ASSUME NEW list, IsListing(list), NEW seq \in {v.seq : v \in ToSet(list)}
    PROVE  \E j \in DOMAIN list : BySequence(list, seq) = list[j] /\ list[j].seq = seq
<1> DEFINE S == {i \in 1..Len(list) : list[i].seq = seq}
<1>1. Len(list) \in Nat /\ DOMAIN list = 1..Len(list)
    BY DEF IsListing
<1>2. S # {} /\ S \in SUBSET Nat /\ IsFiniteSet(S)
  <2>1. S # {} /\ S \in SUBSET Nat /\ S \subseteq 1..Len(list)
      BY <1>1 DEF ToSet
  <2>2. IsFiniteSet(1..Len(list))
      BY <1>1, FS_Interval
  <2> HIDE DEF S
  <2> QED
      BY <2>1, <2>2, FS_Subset
<1>3. Max(S) \in S
  <2> HIDE DEF S
  <2> QED
      BY <1>2, MaxIsGreatest
<1>4. BySequence(list, seq) = list[Max(S)]
    BY DEF BySequence
<1> QED
    BY <1>1, <1>3, <1>4

\* The last of the versions of a sequence, if it has a payload, is the one the timeline has.
LEMMA ComputeIs ==
    ASSUME NEW list, IsListing(list), TimelineAnswers(list)
    PROVE  LET vs == NormalizedOf(list)
               n  == Len(vs)
           IN  \A i, k \in 1..n : ComputeAnswers(list, vs[i].seq, vs[k].seq) =>
                    Compute(list, vs[i].seq, vs[k].seq) = Delta(vs[i], vs[k])
<1> DEFINE vs == NormalizedOf(list)
           n  == Len(vs)
<1>1. n >= 2 /\ \A i, k \in 1..n : vs[i].seq = vs[k].seq => i = k
    BY TimelineHasOneDate
<1>2. n \in Nat /\ DOMAIN vs = 1..n
    BY <1>1, HopsAre
<1>3. \A j \in DOMAIN list : Normalized(list[j]) => \E l \in DOMAIN vs : vs[l] = list[j]
    BY NormalizedOfKeeps
<1> HIDE DEF vs
<1>4. ASSUME NEW i \in 1..n, vs[i].seq \in {v.seq : v \in ToSet(list)}, Normalized(BySequence(list, vs[i].seq))
      PROVE  BySequence(list, vs[i].seq) = vs[i]
  <2>1. PICK j \in DOMAIN list : BySequence(list, vs[i].seq) = list[j] /\ list[j].seq = vs[i].seq
      BY <1>4, BySequenceIs
  <2>2. PICK l \in 1..n : vs[l] = list[j]
      BY <1>2, <1>3, <1>4, <2>1
  <2>3. l = i
      BY <1>1, <2>1, <2>2
  <2> QED
      BY <2>1, <2>2, <2>3
<1>5. ASSUME NEW i \in 1..n, NEW k \in 1..n, ComputeAnswers(list, vs[i].seq, vs[k].seq)
      PROVE  Compute(list, vs[i].seq, vs[k].seq) = Delta(vs[i], vs[k])
  <2>1. /\ vs[i].seq \in {v.seq : v \in ToSet(list)} /\ vs[k].seq \in {v.seq : v \in ToSet(list)}
        /\ Normalized(BySequence(list, vs[i].seq)) /\ Normalized(BySequence(list, vs[k].seq))
      BY <1>5 DEF ComputeAnswers
  <2> QED
      BY <1>4, <2>1 DEF Compute
<1> QED
    BY <1>5 DEF vs

LEMMA EntryCounts ==
    ASSUME NEW v \in Version, Normalized(v), NEW w \in Version, Normalized(w)
    PROVE  /\ Entry(v, w).changed = Cardinality(DOMAIN Delta(v, w))
           /\ \A m \in DOMAIN Delta(v, w) : Entry(v, w).diffs[m] = Delta(v, w)[m]
BY EntryIs

LEMMA EntryMoves ==
    ASSUME NEW v \in Version, Normalized(v), NEW w \in Version, Normalized(w),
           NEW m \in Metrics, Has(v, m), Has(w, m)
    PROVE  Entry(v, w).diffs[m] = w.payload[m] - v.payload[m]
BY DEF Entry

\* The hops that restate a metric, by how much, and the metrics a hop restates.
HopsOf(list, m) == {i \in 1..(Len(NormalizedOf(list)) - 1) : m \in DOMAIN Hops(list)[i]}

SizesOf(list, m) == {Magnitude(Hops(list)[i][m]) : i \in HopsOf(list, m)}

ChangesIn(list, h) ==
    {m \in DOMAIN Timeline(list).byMetric : \E x \in Timeline(list).byMetric[m] : x[1] = h}

LEMMA TimelineIs ==
    ASSUME NEW list, IsListing(list), Len(NormalizedOf(list)) >= 2
    PROVE  LET hops == Hops(list)
               N == Len(NormalizedOf(list)) - 1
               timeline == Timeline(list)
               restated == UNION {DOMAIN hops[i] : i \in 1..N}
           IN  /\ timeline.hops = N
               /\ DOMAIN timeline.byMetric = restated /\ DOMAIN timeline.most = restated
               /\ \A m \in restated :
                    /\ timeline.byMetric[m] = {<<i, Magnitude(hops[i][m])>> : i \in HopsOf(list, m)}
                    /\ timeline.frequency[m] = Cardinality(HopsOf(list, m))
                    /\ timeline.most[m] = Max(SizesOf(list, m))
<1> DEFINE hops == Hops(list)
           N == Len(NormalizedOf(list)) - 1
<1>1. Len(hops) = N
    BY HopsAre
<1> DEFINE restated == UNION {DOMAIN hops[i] : i \in 1..Len(hops)}
           At(m) == {i \in 1..Len(hops) : m \in DOMAIN hops[i]}
           Sizes(m) == {Magnitude(hops[i][m]) : i \in At(m)}
<1>2. /\ Timeline(list).hops = Len(hops)
      /\ Timeline(list).byMetric = [m \in restated |-> {<<i, Magnitude(hops[i][m])>> : i \in At(m)}]
      /\ Timeline(list).frequency = [m \in restated |-> Cardinality(At(m))]
      /\ Timeline(list).most = [m \in restated |-> Max(Sizes(m))]
    BY DEF Timeline
<1>3. \A m : At(m) = HopsOf(list, m) /\ Sizes(m) = SizesOf(list, m)
    BY <1>1 DEF HopsOf, SizesOf
<1>4. restated = UNION {DOMAIN hops[i] : i \in 1..N}
    BY <1>1
<1> HIDE DEF hops, N, At, Sizes, restated
<1>5. /\ DOMAIN Timeline(list).byMetric = restated /\ DOMAIN Timeline(list).most = restated
      /\ \A m \in restated :
           /\ Timeline(list).byMetric[m] = {<<i, Magnitude(hops[i][m])>> : i \in At(m)}
           /\ Timeline(list).frequency[m] = Cardinality(At(m))
           /\ Timeline(list).most[m] = Max(Sizes(m))
    BY <1>2
<1>6. \A m \in restated :
           /\ Timeline(list).byMetric[m] = {<<i, Magnitude(hops[i][m])>> : i \in HopsOf(list, m)}
           /\ Timeline(list).frequency[m] = Cardinality(HopsOf(list, m))
           /\ Timeline(list).most[m] = Max(SizesOf(list, m))
    BY <1>3, <1>5
<1> QED
    BY <1>1, <1>2, <1>4, <1>5, <1>6 DEF hops, N

\* Each hop of a timeline has the changes its ledger entry counts.
LEMMA TimelineShowsTheLedger ==
    ASSUME NEW list, IsListing(list), Len(NormalizedOf(list)) >= 2, NEW h \in 1..Timeline(list).hops
    PROVE  LET ledger   == Ledger(list)
               timeline == Timeline(list)
           IN  /\ h \in 1..(Len(NormalizedOf(list)) - 1)
               /\ ChangesIn(list, h) = DOMAIN Hops(list)[h]
               /\ ledger[h].changed = Cardinality(ChangesIn(list, h))
               /\ \A m \in ChangesIn(list, h) : <<h, Magnitude(ledger[h].diffs[m])>> \in timeline.byMetric[m]
<1> DEFINE vs == NormalizedOf(list)
           N == Len(vs) - 1
           hops == Hops(list)
           timeline == Timeline(list)
           ledger == Ledger(list)
           changes  == {m \in DOMAIN timeline.byMetric : \E x \in timeline.byMetric[m] : x[1] = h}
<1>1. /\ timeline.hops = N
      /\ DOMAIN timeline.byMetric = UNION {DOMAIN hops[i] : i \in 1..N}
      /\ \A m \in UNION {DOMAIN hops[i] : i \in 1..N} :
           timeline.byMetric[m] = {<<i, Magnitude(hops[i][m])>> : i \in HopsOf(list, m)}
    BY TimelineIs
<1>9. \A m : HopsOf(list, m) = {i \in 1..N : m \in DOMAIN hops[i]}
    BY DEF HopsOf
<1>10. ChangesIn(list, h) = changes
    BY DEF ChangesIn
<1>2. h \in 1..N
    BY <1>1
<1>3. /\ h + 1 \in 1..Len(vs) /\ h \in 1..Len(vs)
      /\ \A i \in 1..Len(vs) : vs[i] \in Version /\ Normalized(vs[i])
      /\ hops[h] = Delta(vs[h], vs[h + 1]) /\ ledger[h] = Entry(vs[h], vs[h + 1])
    BY <1>2, HopsAre
<1> HIDE DEF vs, N, hops, timeline, ledger
<1>4. /\ ledger[h].changed = Cardinality(DOMAIN hops[h])
      /\ \A m \in DOMAIN hops[h] : ledger[h].diffs[m] = hops[h][m]
  <2> DEFINE v == vs[h]
             w == vs[h + 1]
  <2>1. v \in Version /\ Normalized(v) /\ w \in Version /\ Normalized(w)
      BY <1>3
  <2>2. hops[h] = Delta(v, w) /\ ledger[h] = Entry(v, w)
      BY <1>3
  <2> HIDE DEF v, w
  <2> QED
      BY <2>1, <2>2, EntryCounts
<1>5. ASSUME NEW m \in DOMAIN timeline.byMetric
      PROVE  /\ (\E x \in timeline.byMetric[m] : x[1] = h) <=> m \in DOMAIN hops[h]
             /\ m \in DOMAIN hops[h] => <<h, Magnitude(hops[h][m])>> \in timeline.byMetric[m]
  <2>1. timeline.byMetric[m] = {<<i, Magnitude(hops[i][m])>> : i \in {i \in 1..N : m \in DOMAIN hops[i]}}
    <3>1. timeline.byMetric[m] = {<<i, Magnitude(hops[i][m])>> : i \in HopsOf(list, m)}
        BY <1>1
    <3> QED
        BY <1>9, <3>1
  <2>2. ASSUME NEW y \in timeline.byMetric[m], y[1] = h PROVE m \in DOMAIN hops[h]
    <3>1. PICK i \in 1..N : m \in DOMAIN hops[i] /\ y = <<i, Magnitude(hops[i][m])>>
        BY <2>1
    <3> QED
        BY <2>2, <3>1
  <2>3. ASSUME m \in DOMAIN hops[h] PROVE <<h, Magnitude(hops[h][m])>> \in timeline.byMetric[m]
      BY <1>2, <2>1, <2>3
  <2>4. <<h, Magnitude(hops[h][m])>>[1] = h
      OBVIOUS
  <2> QED
      BY <2>2, <2>3, <2>4
<1>6. DOMAIN hops[h] \subseteq DOMAIN timeline.byMetric
    BY <1>1, <1>2
<1>7. changes = DOMAIN hops[h]
    BY <1>5, <1>6
<1>8. \A m \in DOMAIN hops[h] : <<h, Magnitude(ledger[h].diffs[m])>> \in timeline.byMetric[m]
    BY <1>4, <1>5, <1>6
<1> QED
    BY <1>2, <1>4, <1>7, <1>8, <1>10 DEF vs, N, hops, timeline, ledger

\* What all versions have moves by what the ledger says.
LEMMA LedgerMoves ==
    ASSUME NEW list, IsListing(list), Len(NormalizedOf(list)) >= 2,
           NEW m \in Metrics, \A i \in 1..Len(NormalizedOf(list)) : Has(NormalizedOf(list)[i], m),
           NEW i \in 1..Len(NormalizedOf(list)), NEW k \in 1..Len(NormalizedOf(list)), i <= k
    PROVE  LET vs     == NormalizedOf(list)
               ledger == Ledger(list)
           IN  Moved(ledger, m, i, k) = vs[k].payload[m] - vs[i].payload[m]
<1> DEFINE vs == NormalizedOf(list)
           n  == Len(vs)
           ledger == Ledger(list)
           x == [j \in 1..n |-> vs[j].payload[m]]
<1>1. /\ n \in Nat
      /\ \A j \in 1..n : vs[j] \in Version /\ Normalized(vs[j])
      /\ \A j \in 1..(n - 1) : j \in 1..n /\ j + 1 \in 1..n /\ ledger[j] = Entry(vs[j], vs[j + 1])
    BY HopsAre
<1>2. \A j \in 1..n : Has(vs[j], m)
    OBVIOUS
<1>3. i \in 1..n /\ k \in 1..n
    OBVIOUS
<1> HIDE DEF vs, ledger
<1>4. ASSUME NEW j \in 1..n PROVE x[j] \in Int /\ x[j] = vs[j].payload[m]
    BY <1>1, <1>2, PayloadFacts DEF Has
<1>5. ASSUME NEW j \in 1..(n - 1) PROVE ledger[j].diffs[m] = x[j + 1] - x[j]
  <2>1. /\ j \in 1..n /\ j + 1 \in 1..n /\ ledger[j] = Entry(vs[j], vs[j + 1])
        /\ vs[j] \in Version /\ Normalized(vs[j]) /\ vs[j + 1] \in Version /\ Normalized(vs[j + 1])
      BY <1>1
  <2> DEFINE v == vs[j]
             w == vs[j + 1]
  <2>3. Has(v, m) /\ Has(w, m)
      BY <1>2, <2>1
  <2>4. /\ v \in Version /\ Normalized(v) /\ w \in Version /\ Normalized(w)
        /\ ledger[j] = Entry(v, w)
      BY <2>1
  <2> HIDE DEF v, w
  <2>5. ledger[j].diffs[m] = w.payload[m] - v.payload[m]
      BY <2>3, <2>4, EntryMoves
  <2>2. ledger[j].diffs[m] = vs[j + 1].payload[m] - vs[j].payload[m]
      BY <2>5 DEF v, w
  <2> QED
      BY <1>4, <2>1, <2>2
<1> HIDE DEF n, x
<1>6. /\ i \in Nat /\ k \in Nat
      /\ \A j \in i..k : j \in 1..n /\ x[j] \in Int
      /\ \A j \in i..(k - 1) : j \in 1..(n - 1) /\ ledger[j].diffs[m] = x[j + 1] - x[j]
  <2>1. i \in Nat /\ k \in Nat /\ \A j \in i..k : j \in 1..n
      BY <1>1, <1>3
  <2>2. \A j \in i..(k - 1) : j \in 1..(n - 1)
      BY <1>1, <1>3
  <2> QED
      BY <1>4, <1>5, <2>1, <2>2
<1>7. Moved(ledger, m, i, k) = x[k] - x[i]
  <2>1. \A j \in i..k : x[j] \in Int
      BY <1>6
  <2>2. \A j \in i..(k - 1) : ledger[j].diffs[m] = x[j + 1] - x[j]
      BY <1>6
  <2>3. i \in Nat /\ k \in Nat /\ i <= k
      BY <1>6
  <2> QED
      BY <2>1, <2>2, <2>3, MovesAddUp
<1> QED
    BY <1>3, <1>4, <1>7 DEF vs, n, ledger

\* And by no more than its largest change each time it changed.
LEMMA TimelineBoundsMoves ==
    ASSUME NEW list, IsListing(list), Len(NormalizedOf(list)) >= 2,
           NEW m \in Metrics, \A i \in 1..Len(NormalizedOf(list)) : Has(NormalizedOf(list)[i], m),
           m \in DOMAIN Timeline(list).most
    PROVE  Magnitude(Moved(Ledger(list), m, 1, Len(NormalizedOf(list)))) <=
              Timeline(list).frequency[m] * Timeline(list).most[m]
<1> DEFINE vs == NormalizedOf(list)
           n  == Len(vs)
           N  == n - 1
           hops == Hops(list)
           At == {i \in 1..N : m \in DOMAIN hops[i]}
           sizes == {Magnitude(hops[i][m]) : i \in At}
           x == [j \in 1..n |-> vs[j].payload[m]]
<1>1. /\ n \in Nat /\ n >= 2 /\ N \in Nat
      /\ \A j \in 1..n : vs[j] \in Version /\ Normalized(vs[j])
      /\ \A j \in 1..(n - 1) : j \in 1..n /\ j + 1 \in 1..n /\ hops[j] = Delta(vs[j], vs[j + 1])
    BY HopsAre
<1>2. m \in UNION {DOMAIN hops[i] : i \in 1..N}
    BY TimelineIs
<1>3. /\ Timeline(list).frequency[m] = Cardinality(At)
      /\ Timeline(list).most[m] = Max(sizes)
  <2>1. /\ Timeline(list).frequency[m] = Cardinality(HopsOf(list, m))
        /\ Timeline(list).most[m] = Max(SizesOf(list, m))
      BY <1>2, TimelineIs
  <2>2. At = HopsOf(list, m) /\ sizes = SizesOf(list, m)
      BY DEF HopsOf, SizesOf
  <2> HIDE DEF At, sizes
  <2> QED
      BY <2>1, <2>2
<1>4. Moved(Ledger(list), m, 1, n) = x[n] - x[1]
  <2>1. 1 \in 1..n /\ n \in 1..n /\ 1 <= n
      BY <1>1
  <2>2. Moved(Ledger(list), m, 1, n) = vs[n].payload[m] - vs[1].payload[m]
      BY <2>1, LedgerMoves
  <2> QED
      BY <2>1, <2>2
<1>5. \A j \in 1..n : Has(vs[j], m)
    OBVIOUS
<1> HIDE DEF vs, hops
<1>6. \A j \in 1..n : x[j] \in Int /\ x[j] = vs[j].payload[m]
    BY <1>1, <1>5, PayloadFacts DEF Has
<1>7. ASSUME NEW j \in 1..N
      PROVE  /\ m \in DOMAIN hops[j] <=> x[j + 1] # x[j]
             /\ m \in DOMAIN hops[j] => hops[j][m] = x[j + 1] - x[j]
             /\ x[j + 1] - x[j] \in Int
  <2> DEFINE v == vs[j]
             w == vs[j + 1]
  <2>1. /\ v \in Version /\ Normalized(v) /\ w \in Version /\ Normalized(w)
        /\ hops[j] = Delta(v, w) /\ Has(v, m) /\ Has(w, m)
      BY <1>1, <1>5
  <2>2. x[j] = v.payload[m] /\ x[j + 1] = w.payload[m] /\ x[j + 1] - x[j] \in Int
      BY <1>1, <1>6
  <2> HIDE DEF v, w, x
  <2>3. m \in DOMAIN hops[j] <=> w.payload[m] # v.payload[m]
      BY <2>1, DeltaIs
  <2>4. m \in DOMAIN hops[j] => hops[j][m] = w.payload[m] - v.payload[m]
      BY <2>1 DEF Delta
  <2> QED
      BY <2>2, <2>3, <2>4
<1> HIDE DEF x
<1>8. At = {h \in 1..N : x[h + 1] # x[h]}
    BY <1>7
<1>9. /\ sizes \in SUBSET Nat /\ IsFiniteSet(sizes) /\ sizes # {}
  <2>1. IsFiniteSet(At)
    <3>1. At \subseteq 1..N
        OBVIOUS
    <3>2. IsFiniteSet(1..N)
      <4>1. 1 \in Int /\ N \in Int
          BY <1>1
      <4> HIDE DEF N
      <4> QED
          BY <4>1, FS_Interval
    <3> HIDE DEF At
    <3> QED
        BY <3>1, <3>2, FS_Subset
  <2> DEFINE f == [i \in At |-> Magnitude(hops[i][m])]
  <2>2. f = [i \in At |-> f[i]] /\ sizes = {f[i] : i \in At}
      OBVIOUS
  <2>3. IsFiniteSet(sizes)
    <3> HIDE DEF f, sizes, At
    <3> QED
        BY <2>1, <2>2, ImageIsFinite
  <2>4. \A i \in At : hops[i][m] \in Int
      BY <1>7
  <2>5. sizes \in SUBSET Nat
      BY <2>4, MagnitudeIs
  <2>6. sizes # {}
      BY <1>2
  <2> QED
      BY <2>3, <2>5, <2>6
<1>10. Max(sizes) \in Int /\ \A h \in At : Magnitude(x[h + 1] - x[h]) <= Max(sizes)
  <2>1. Max(sizes) \in Int /\ \A s \in sizes : s <= Max(sizes)
    <3> HIDE DEF sizes
    <3>1. Max(sizes) \in sizes /\ \A s \in sizes : s <= Max(sizes)
        BY <1>9, MaxIsGreatest
    <3>2. Max(sizes) \in Nat
        BY <1>9, <3>1
    <3> QED
        BY <3>1, <3>2
  <2>2. \A h \in At : Magnitude(x[h + 1] - x[h]) \in sizes
      BY <1>7
  <2> QED
      BY <2>1, <2>2
<1> HIDE DEF At, sizes
<1>11. Magnitude(x[n] - x[1]) <= Cardinality(At) * Max(sizes)
  <2> HIDE DEF n
  <2>1. n \in Nat /\ n >= 1 /\ \A j \in 1..n : x[j] \in Int
      BY <1>1, <1>6
  <2>2. At = {h \in 1..(n - 1) : x[h + 1] # x[h]}
      BY <1>8
  <2> QED
      BY <1>10, <2>1, <2>2, MovesAreBounded
<1> QED
    BY <1>3, <1>4, <1>11 DEF vs

LEMMA ViewsAlwaysAgree ==
    ASSUME NEW list, IsListing(list)
    PROVE  ViewsAgree(list)
<1> DEFINE vs       == NormalizedOf(list)
           ledger   == Ledger(list)
           timeline == Timeline(list)
           hops     == Hops(list)
           n        == Len(vs)
           Steady   == {m \in Metrics : \A i \in 1..n : Has(vs[i], m)}
           Agree(m, i, k, delta) ==
               IF Moved(ledger, m, i, k) = 0 THEN m \notin DOMAIN delta
               ELSE m \in DOMAIN delta /\ delta[m] = Moved(ledger, m, i, k)
<1> SUFFICES ASSUME TimelineAnswers(list)
             PROVE
          /\ timeline.hops = Len(ledger)
          /\ \A h \in 1..timeline.hops :
               LET changes == {m \in DOMAIN timeline.byMetric : \E x \in timeline.byMetric[m] : x[1] = h}
               IN  /\ ledger[h].changed = Cardinality(changes)
                   /\ \A m \in changes : <<h, Magnitude(ledger[h].diffs[m])>> \in timeline.byMetric[m]
          /\ \A i, k \in 1..n : i < k =>
               LET between == Between(list, vs[i].seq, vs[k].seq)
               IN  /\ BetweenAnswers(list, vs[i].seq, vs[k].seq)
                   /\ ComputeAnswers(list, vs[i].seq, vs[k].seq) =>
                        between = Compute(list, vs[i].seq, vs[k].seq)
                   /\ \A m \in Steady : Agree(m, i, k, between)
          /\ \A m \in Steady \cap DOMAIN timeline.most :
               Magnitude(Moved(ledger, m, 1, n)) <= timeline.frequency[m] * timeline.most[m]
          /\ Between(list, None, None) = hops[n - 1]
          /\ \A i \in 1..(n - 1) :
               /\ Between(list, vs[i].seq, None) = hops[i]
               /\ Between(list, None, vs[i + 1].seq) = hops[i]
    BY DEF ViewsAgree
<1>1. n >= 2
    BY TimelineHasOneDate
<1>2. /\ n \in Nat
      /\ \A j \in 1..n : vs[j] \in Version /\ Normalized(vs[j])
      /\ Len(ledger) = n - 1
      /\ \A j \in 1..(n - 1) : j \in 1..n /\ j + 1 \in 1..n /\ hops[j] = Delta(vs[j], vs[j + 1])
    BY <1>1, HopsAre
<1>3. timeline.hops = Len(ledger)
    BY <1>1, <1>2, TimelineIs
<1>4. ASSUME NEW h \in 1..timeline.hops
      PROVE  LET changes == {m \in DOMAIN timeline.byMetric : \E x \in timeline.byMetric[m] : x[1] = h}
             IN  /\ ledger[h].changed = Cardinality(changes)
                 /\ \A m \in changes : <<h, Magnitude(ledger[h].diffs[m])>> \in timeline.byMetric[m]
  <2>1. /\ ledger[h].changed = Cardinality(ChangesIn(list, h))
        /\ \A m \in ChangesIn(list, h) : <<h, Magnitude(ledger[h].diffs[m])>> \in timeline.byMetric[m]
      BY <1>1, TimelineShowsTheLedger
  <2> QED
      BY <2>1 DEF ChangesIn
<1>5. ASSUME NEW i \in 1..n, NEW k \in 1..n, i < k, NEW m \in Steady
      PROVE  Agree(m, i, k, Delta(vs[i], vs[k]))
  <2>1. m \in Metrics /\ i <= k /\ \A j \in 1..n : Has(vs[j], m)
      BY <1>2, <1>5
  <2>2. Moved(ledger, m, i, k) = vs[k].payload[m] - vs[i].payload[m]
      BY <1>1, <2>1, LedgerMoves
  <2> DEFINE v == vs[i]
             w == vs[k]
  <2>3. /\ v \in Version /\ Normalized(v) /\ w \in Version /\ Normalized(w)
        /\ Has(v, m) /\ Has(w, m) /\ Moved(ledger, m, i, k) = w.payload[m] - v.payload[m]
      BY <1>2, <2>1, <2>2
  <2> HIDE DEF v, w, vs, ledger
  <2>4. v.payload[m] \in Int /\ w.payload[m] \in Int
      BY <2>3, PayloadFacts DEF Has
  <2>5. /\ m \in DOMAIN Delta(v, w) <=> w.payload[m] # v.payload[m]
        /\ m \in DOMAIN Delta(v, w) => Delta(v, w)[m] = w.payload[m] - v.payload[m]
      BY <2>1, <2>3, DeltaIs
  <2>6. Moved(ledger, m, i, k) = 0 <=> w.payload[m] = v.payload[m]
      BY <2>3, <2>4
  <2>7. Agree(m, i, k, Delta(v, w))
      BY <2>3, <2>5, <2>6
  <2> QED
      BY <2>7 DEF v, w
<1>6. ASSUME NEW i \in 1..n, NEW k \in 1..n, i < k
      PROVE  /\ BetweenAnswers(list, vs[i].seq, vs[k].seq)
             /\ Between(list, vs[i].seq, vs[k].seq) = Delta(vs[i], vs[k])
             /\ ComputeAnswers(list, vs[i].seq, vs[k].seq) =>
                  Compute(list, vs[i].seq, vs[k].seq) = Delta(vs[i], vs[k])
    BY <1>6, BetweenIs, ComputeIs
<1>7. \A m \in Steady \cap DOMAIN timeline.most :
               Magnitude(Moved(ledger, m, 1, n)) <= timeline.frequency[m] * timeline.most[m]
    BY <1>1, TimelineBoundsMoves
<1>8. Between(list, None, None) = hops[n - 1]
  <2>1. n - 1 \in 1..(n - 1) /\ (n - 1) + 1 = n
      BY <1>1, <1>2
  <2>2. hops[n - 1] = Delta(vs[n - 1], vs[n])
      BY <1>2, <2>1
  <2> QED
      BY <2>2, BetweenIs
<1>9. ASSUME NEW i \in 1..(n - 1)
      PROVE  Between(list, vs[i].seq, None) = hops[i] /\ Between(list, None, vs[i + 1].seq) = hops[i]
    BY <1>2, BetweenIs
<1> HIDE DEF vs, ledger, timeline, hops, n, Steady, Agree
<1> QED
    BY <1>3, <1>4, <1>5, <1>6, <1>7, <1>8, <1>9

-----------------------------------------------------------------------------
(* What the routes of a listing say of each other.                         *)

LEMMA TextsTellApart ==
    /\ \A n \in Int : Text(n) = [text |-> n] /\ Text(n) \in [text : Int] /\ Text(n) # None
    /\ \A n \in Int : Text(n) = Text(0) => n = 0
    /\ Text(None) = None /\ None \in TextOrNone
    /\ \A n \in Int : Text(n) \in TextOrNone
    /\ \A n \in Int : Decimal(n) \notin TextOrNone
<1>1. \A n \in Int : n # None
    BY VersionsAssumption
<1>2. \A n \in Int : Text(n) = [text |-> n]
    BY <1>1 DEF Text
<1>3. \A n \in Int : [text |-> n] \in [text : Int] /\ [decimal |-> n] \in [decimal : Int]
    OBVIOUS
<1>4. \A n \in Int : [text |-> n] # None /\ [decimal |-> n] # None
    BY <1>3, FiguresAssumption
<1>5. \A n, k \in Int : [text |-> n] = [text |-> k] => n = k
  <2>1. \A n, k \in Int : [text |-> n] = [text |-> k] => [text |-> n].text = [text |-> k].text
      OBVIOUS
  <2> QED
      BY <2>1
<1>6. \A n \in Int : [decimal |-> n] \notin [text : Int]
  <2>1. SUFFICES ASSUME NEW n \in Int, [decimal |-> n] \in [text : Int] PROVE FALSE
      OBVIOUS
  <2>2. DOMAIN [decimal |-> n] = {"text"}
      BY <2>1
  <2>3. DOMAIN [decimal |-> n] = {"decimal"}
      OBVIOUS
  <2> QED
      BY <2>2, <2>3
<1>7. 0 \in Int
    OBVIOUS
<1>8. \A n \in Int : Text(n) = Text(0) => n = 0
    BY <1>2, <1>5, <1>7
<1>9. \A n \in Int : Decimal(n) \notin TextOrNone
    BY <1>4, <1>6 DEF Decimal, TextOrNone
<1>10. Text(None) = None
    BY DEF Text
<1> QED
    BY <1>2, <1>3, <1>4, <1>8, <1>9, <1>10 DEF TextOrNone

\* A line of a delta.
LineOf(v, w, m) ==
    [metric |-> m, old_value |-> Text(v.payload[m]), new_value |-> Text(w.payload[m]),
     diff |-> Text(Delta(v, w)[m])]

LEMMA LinesAre ==
    ASSUME NEW v \in Version, Normalized(v), NEW w \in Version, Normalized(w)
    PROVE  /\ DeltaLines(v, w, "str") = {LineOf(v, w, m) : m \in DOMAIN Delta(v, w)}
           /\ DeltaLines(v, w, "str") \subseteq RestatementMetricDeltaDTO
           /\ \A line \in DeltaLines(v, w, "str") : line.diff \notin {None, Text(0)}
           /\ Cardinality(DeltaLines(v, w, "str")) = Cardinality(DOMAIN Delta(v, w))
           /\ Cardinality(DOMAIN Delta(v, w)) \in Nat
           /\ Cardinality(DOMAIN Delta(v, w)) = 0 <=> DOMAIN Delta(v, w) = {}
<1> DEFINE D == DOMAIN Delta(v, w)
<1>1. /\ D \subseteq Metrics
      /\ \A m \in D : v.payload[m] \in Int /\ w.payload[m] \in Int
      /\ \A m \in D : Delta(v, w)[m] \in Int /\ Delta(v, w)[m] # 0
  <2>1. D = {m \in Metrics : Has(v, m) /\ Has(w, m) /\ w.payload[m] # v.payload[m]}
      BY DeltaIs
  <2>2. \A m \in D : Delta(v, w)[m] \in Int /\ Delta(v, w)[m] # 0
      BY DeltaIs
  <2>3. \A m \in D : m \in Metrics /\ m \in DOMAIN v.payload /\ m \in DOMAIN w.payload
      BY <2>1 DEF Has
  <2> QED
      BY <2>2, <2>3, PayloadFacts
<1>2. DeltaLines(v, w, "str") = {LineOf(v, w, m) : m \in D}
    BY DEF DeltaLines, LineOf
<1> HIDE DEF D
<1>3. ASSUME NEW m \in D
      PROVE  /\ LineOf(v, w, m).metric = m
             /\ LineOf(v, w, m).diff \notin {None, Text(0)}
             /\ LineOf(v, w, m) \in RestatementMetricDeltaDTO
  <2>1. /\ Text(v.payload[m]) \in TextOrNone /\ Text(w.payload[m]) \in TextOrNone
        /\ Text(Delta(v, w)[m]) \in TextOrNone /\ Text(Delta(v, w)[m]) \notin {None, Text(0)}
        /\ m \in Metrics
      BY <1>1, <1>3, TextsTellApart
  <2> QED
      BY <2>1 DEF LineOf, RestatementMetricDeltaDTO
<1>4. IsFiniteSet(D) /\ Cardinality(D) \in Nat
    BY <1>1, VersionsAssumption, FS_Subset, FS_CardinalityType
<1>5. Cardinality(DeltaLines(v, w, "str")) = Cardinality(D)
  <2> DEFINE f == [m \in D |-> LineOf(v, w, m)]
  <2>1. f = [m \in D |-> f[m]] /\ \A m, q \in D : f[m] = f[q] => m = q
      BY <1>3
  <2>2. DeltaLines(v, w, "str") = {f[m] : m \in D}
      BY <1>2
  <2> HIDE DEF f
  <2> QED
      BY <1>4, <2>1, <2>2, ImageIsAsLarge
<1>6. Cardinality(D) = 0 <=> D = {}
    BY <1>4, FS_EmptySet
<1> QED
    BY <1>2, <1>3, <1>4, <1>5, <1>6 DEF D

\* The lines with Decimals are none for strings, unless there are none.
LEMMA DecimalsAre ==
    ASSUME NEW v \in Version, Normalized(v), NEW w \in Version, Normalized(w)
    PROVE  /\ DOMAIN Delta(v, w) = {} => DeltaLines(v, w, "Decimal") = {}
           /\ DeltaLines(v, w, "Decimal") \subseteq RestatementMetricDeltaDTO => DOMAIN Delta(v, w) = {}
           /\ Cardinality({}) = 0
<1> DEFINE D == DOMAIN Delta(v, w)
           Line(m) == [metric |-> m, old_value |-> Decimal(v.payload[m]), new_value |-> Decimal(w.payload[m]),
                       diff |-> Decimal(Delta(v, w)[m])]
<1>1. DeltaLines(v, w, "Decimal") = {Line(m) : m \in D}
    BY DEF DeltaLines
<1>2. ASSUME NEW m \in D PROVE Line(m) \notin RestatementMetricDeltaDTO
  <2>1. Delta(v, w)[m] \in Int
      BY DeltaIs
  <2>2. Decimal(Delta(v, w)[m]) \notin TextOrNone
      BY <2>1, TextsTellApart
  <2>3. Line(m) \in RestatementMetricDeltaDTO => Line(m).diff \in TextOrNone
    <3> HIDE DEF Line
    <3> QED
        BY DEF RestatementMetricDeltaDTO
  <2> QED
      BY <2>2, <2>3
<1> HIDE DEF D, Line
<1> QED
    BY <1>1, <1>2, FS_EmptySet DEF D

LEMMA ComputeOf ==
    ASSUME NEW list, IsListing(list), NEW from, NEW to, ComputeAnswers(list, from, to)
    PROVE  /\ from < to
           /\ BySequence(list, from) \in Version /\ Normalized(BySequence(list, from))
           /\ BySequence(list, to) \in Version /\ Normalized(BySequence(list, to))
<1>1. /\ from < to
      /\ from \in {v.seq : v \in ToSet(list)} /\ to \in {v.seq : v \in ToSet(list)}
      /\ Normalized(BySequence(list, from)) /\ Normalized(BySequence(list, to))
    BY DEF ComputeAnswers
<1>2. \A j \in DOMAIN list : list[j] \in Version
    BY DEF IsListing
<1> QED
    BY <1>1, <1>2, BySequenceIs

\* What EDGAR answers.
LEMMA EdgarAnswers ==
    ASSUME NEW list, IsListing(list), NEW from \in Positions, NEW to \in Positions,
           ComputeAnswers(list, from, to)
    PROVE  LET lines == DeltaLines(BySequence(list, from), BySequence(list, to), "str")
           IN  /\ EdgarDeltaRoute(list, from, to) =
                    Answer([from |-> from, to |-> to, metrics |-> lines,
                            summary |-> Summary(Cardinality(lines), Cardinality(lines))])
               /\ Cardinality(lines) \in Nat
               /\ ~(from > to) /\ ~(from >= to)
<1> DEFINE v == BySequence(list, from)
           w == BySequence(list, to)
           lines == DeltaLines(v, w, "str")
           c == Cardinality(lines)
           body == [from |-> from, to |-> to, metrics |-> lines, summary |-> Summary(c, c)]
<1>1. /\ v \in Version /\ Normalized(v) /\ w \in Version /\ Normalized(w)
      /\ ~(from > to) /\ ~(from >= to)
  <2>1. from \in Nat /\ to \in Nat
      BY VersionsAssumption
  <2> QED
      BY <2>1, ComputeOf
<1>2. EdgarDelta(list, from, to) =
        [from |-> from, to |-> to, deltas |-> lines,
         summary |-> Summary(c, Cardinality({line \in lines : line.diff \notin {None, Text(0)}}))]
    BY DEF EdgarDelta
<1> HIDE DEF v, w
<1>3. /\ lines \subseteq RestatementMetricDeltaDTO
      /\ {line \in lines : line.diff \notin {None, Text(0)}} = lines
      /\ c \in Nat
    BY <1>1, LinesAre
<1> HIDE DEF lines, c
<1>4. DeltaBody(EdgarDelta(list, from, to)) = body
    BY <1>2, <1>3 DEF DeltaBody, c
<1>5. body \in RestatementDeltaHTTP
  <2>1. Summary(c, c) \in RestatementSummaryHTTP
      BY <1>3 DEF Summary, RestatementSummaryHTTP
  <2>2. lines \in SUBSET RestatementMetricDeltaHTTP
      BY <1>3 DEF RestatementMetricDeltaHTTP
  <2> HIDE DEF Summary
  <2> QED
      BY <2>1, <2>2 DEF RestatementDeltaHTTP
<1> HIDE DEF body
<1>6. EdgarDeltaRoute(list, from, to) = Answer(body)
    BY <1>1, <1>4, <1>5 DEF EdgarDeltaRoute, BuiltAs
<1> QED
    BY <1>1, <1>3, <1>6 DEF body, c, lines, v, w

LEMMA AnswersAre ==
    /\ \A body : Answer(body).status = 200 /\ Answer(body).body = body
    /\ \A status : Refusal(status).status = status
    /\ EdgarStatus["Mapping"] = 500 /\ EdgarStatus["Ingestion"] = 502 /\ EdgarStatus["Other"] = 503
    /\ EdgarStatus.Mapping = 500 /\ EdgarStatus.Ingestion = 502 /\ EdgarStatus.Other = 503
    /\ FundamentalsStatus["Mapping"] = 400 /\ FundamentalsStatus["Ingestion"] = 502
    /\ FundamentalsStatus.Other = 500
BY DEF Answer, Refusal, EdgarStatus, FundamentalsStatus

LEMMA DeltaRoutesAgree ==
    ASSUME NEW list, IsListing(list), NEW from \in Positions, NEW to \in Positions
    PROVE  LET edgar == EdgarDeltaRoute(list, from, to)
               fundamentals == FundamentalsDeltaRoute(list, from, to)
           IN  /\ fundamentals.status = 200 => fundamentals = edgar
               /\ edgar.status = 200 =>
                    fundamentals.status = IF edgar.body.summary.has_material_change THEN 500 ELSE 200
               /\ (edgar.status = 502) <=> (fundamentals.status = 502)
               /\ edgar.status = 400 => fundamentals.status = 400
<1> DEFINE edgar == EdgarDeltaRoute(list, from, to)
           fundamentals == FundamentalsDeltaRoute(list, from, to)
           dto == FundamentalsDelta(list, from, to)
<1>1. fundamentals =
        IF from >= to THEN Refusal(400)
        ELSE IF ~ComputeAnswers(list, from, to)
        THEN Refusal(FundamentalsStatus[ComputeError(list, from, to)])
        ELSE IF dto.deltas \subseteq RestatementMetricDeltaDTO THEN Answer(DeltaBody(dto))
        ELSE Refusal(500)
    BY AnswersAre DEF FundamentalsDeltaRoute
<1>2. from \in Nat /\ to \in Nat
    BY VersionsAssumption
<1>3. CASE ComputeAnswers(list, from, to)
  <2> DEFINE v == BySequence(list, from)
             w == BySequence(list, to)
             lines == DeltaLines(v, w, "str")
             others == DeltaLines(v, w, "Decimal")
             c == Cardinality(lines)
             body == [from |-> from, to |-> to, metrics |-> lines, summary |-> Summary(c, c)]
  <2>1. edgar = Answer(body) /\ c \in Nat /\ ~(from >= to)
      BY <1>3, EdgarAnswers
  <2>2. v \in Version /\ Normalized(v) /\ w \in Version /\ Normalized(w)
      BY <1>3, ComputeOf
  <2>3. dto = [from |-> from, to |-> to, deltas |-> others,
               summary |-> Summary(Cardinality(others), Cardinality(others))]
      BY DEF FundamentalsDelta
  <2> HIDE DEF v, w
  <2>4. /\ lines = {LineOf(v, w, m) : m \in DOMAIN Delta(v, w)}
        /\ c = Cardinality(DOMAIN Delta(v, w)) /\ (c = 0 <=> DOMAIN Delta(v, w) = {})
      BY <2>2, LinesAre
  <2>5. /\ DOMAIN Delta(v, w) = {} => others = {}
        /\ others \subseteq RestatementMetricDeltaDTO => DOMAIN Delta(v, w) = {}
        /\ Cardinality({}) = 0
      BY <2>2, DecimalsAre
  <2>6. /\ edgar.status = 200 /\ edgar.body = body
        /\ body.summary.has_material_change = (c > 0)
      BY <2>1, AnswersAre DEF Summary
  <2>7. CASE DOMAIN Delta(v, w) = {}
    <3>1. lines = {} /\ others = {} /\ c = 0 /\ Cardinality(others) = 0
        BY <2>4, <2>5, <2>7
    <3> HIDE DEF lines, others, c
    <3>2. dto.deltas \subseteq RestatementMetricDeltaDTO
        BY <2>3, <3>1
    <3>3. DeltaBody(dto) = body
        BY <2>3, <3>1 DEF DeltaBody
    <3> HIDE DEF body, dto
    <3>4. fundamentals = Answer(body)
        BY <1>1, <1>3, <2>1, <3>2, <3>3
    <3>5. fundamentals = edgar /\ ~(c > 0)
        BY <2>1, <3>1, <3>4
    <3>7. (c > 0) = FALSE
        BY <3>1
    <3> HIDE DEF edgar, fundamentals
    <3>6. edgar.body.summary.has_material_change = FALSE
        BY <2>6, <3>7
    <3> QED
        BY <2>6, <3>5, <3>6 DEF edgar, fundamentals
  <2>8. CASE DOMAIN Delta(v, w) # {}
    <3>1. c > 0 /\ ~(others \subseteq RestatementMetricDeltaDTO)
        BY <2>1, <2>4, <2>5, <2>8
    <3> HIDE DEF lines, others, c
    <3>2. ~(dto.deltas \subseteq RestatementMetricDeltaDTO)
        BY <2>3, <3>1
    <3> HIDE DEF body, dto
    <3>3. fundamentals = Refusal(500)
        BY <1>1, <1>3, <2>1, <3>2
    <3>4. fundamentals.status = 500
        BY <3>3, AnswersAre
    <3> HIDE DEF edgar, fundamentals
    <3>5. edgar.body.summary.has_material_change = TRUE
        BY <2>6, <3>1
    <3> QED
        BY <2>6, <3>4, <3>5 DEF edgar, fundamentals
  <2> QED
      BY <2>7, <2>8
<1>4. CASE ~ComputeAnswers(list, from, to)
  <2>1. ComputeError(list, from, to) \in {"Mapping", "Ingestion"}
      BY DEF ComputeError
  <2>2. from >= to => ComputeError(list, from, to) = "Mapping"
      BY DEF ComputeError
  <2>3. edgar = IF from > to THEN Refusal(400) ELSE Refusal(EdgarStatus[ComputeError(list, from, to)])
      BY <1>4 DEF EdgarDeltaRoute
  <2>4. fundamentals = IF from >= to THEN Refusal(400)
                       ELSE Refusal(FundamentalsStatus[ComputeError(list, from, to)])
      BY <1>1, <1>4
  <2>5. /\ edgar.status = IF from > to THEN 400 ELSE EdgarStatus[ComputeError(list, from, to)]
        /\ fundamentals.status = IF from >= to THEN 400 ELSE FundamentalsStatus[ComputeError(list, from, to)]
      BY <2>3, <2>4, AnswersAre
  <2> HIDE DEF edgar, fundamentals
  <2>6. CASE from > to
    <3>1. edgar.status = 400 /\ fundamentals.status = 400
        BY <1>2, <2>5, <2>6
    <3> QED
        BY <3>1 DEF edgar, fundamentals
  <2>7. CASE from = to
    <3>1. edgar.status = 500 /\ fundamentals.status = 400
        BY <1>2, <2>2, <2>5, <2>7, AnswersAre
    <3> QED
        BY <3>1 DEF edgar, fundamentals
  <2>8. CASE from < to
    <3>1. \/ edgar.status = 500 /\ fundamentals.status = 400
          \/ edgar.status = 502 /\ fundamentals.status = 502
        BY <1>2, <2>1, <2>5, <2>8, AnswersAre
    <3> QED
        BY <3>1 DEF edgar, fundamentals
  <2> QED
      BY <1>2, <2>6, <2>7, <2>8
<1> QED
    BY <1>3, <1>4

\* The lines of a ledger entry that restate are those of the delta.
Changed(lines) == {line \in lines : line.diff \notin {None, Text(0)}}

LEMMA EntriesAre ==
    ASSUME NEW v \in Version, Normalized(v), NEW w \in Version, Normalized(w)
    PROVE  LET entry == LedgerEntryDTO(v, w)
           IN  /\ entry.from = v.seq /\ entry.to = w.seq
               /\ entry.summary.total_metrics_changed = Cardinality(DOMAIN Delta(v, w))
               /\ entry.summary.has_material_change = (Cardinality(DOMAIN Delta(v, w)) > 0)
               /\ Changed(entry.deltas) = DeltaLines(v, w, "str")
               /\ {line.metric : line \in Changed(entry.deltas)} = DOMAIN Delta(v, w)
               /\ entry \in RestatementLedgerEntryHTTP
<1> DEFINE e == Entry(v, w)
           C == DOMAIN e.diffs
           D == DOMAIN Delta(v, w)
           Line(m) == [metric |-> m, old_value |-> ValueOf(v, m), new_value |-> ValueOf(w, m),
                       diff |-> Text(e.diffs[m])]
           lines == {Line(m) : m \in C}
<1>1. LedgerEntryDTO(v, w) = [from |-> e.from, to |-> e.to, summary |-> Summary(e.compared, e.changed),
                              deltas |-> lines]
    BY DEF LedgerEntryDTO
<1>2. /\ e.from = v.seq /\ e.to = w.seq
      /\ C = {m \in Metrics : Has(v, m) \/ Has(w, m)}
      /\ \A m \in C : e.diffs[m] \in Int \cup {None}
      /\ {m \in C : e.diffs[m] \notin {None, 0}} = D
      /\ \A m \in D : e.diffs[m] = Delta(v, w)[m]
      /\ e.changed = Cardinality(D)
      /\ e.compared = Cardinality(C)
    BY EntryIs
<1> HIDE DEF e, C, D
<1>3. D \subseteq C /\ C \subseteq Metrics
    BY <1>2
<1>4. Cardinality(C) \in Nat /\ Cardinality(D) \in Nat
    BY <1>3, VersionsAssumption, FS_Subset, FS_CardinalityType
<1>5. ASSUME NEW m \in Metrics PROVE ValueOf(v, m) \in TextOrNone /\ ValueOf(w, m) \in TextOrNone
    BY PayloadFacts, TextsTellApart DEF ValueOf, Has
<1>6. ASSUME NEW m \in C PROVE Text(e.diffs[m]) \in TextOrNone /\ (Text(e.diffs[m]) \notin {None, Text(0)} <=> m \in D)
  <2>1. m \in D <=> e.diffs[m] # None /\ e.diffs[m] # 0
      BY <1>2
  <2>2. CASE e.diffs[m] = None
      BY <2>1, <2>2, TextsTellApart
  <2>3. CASE e.diffs[m] \in Int
    <3>1. e.diffs[m] # None
        BY <2>3, VersionsAssumption
    <3>2. Text(e.diffs[m]) \in TextOrNone /\ Text(e.diffs[m]) # None
        BY <2>3, TextsTellApart
    <3>3. Text(e.diffs[m]) = Text(0) <=> e.diffs[m] = 0
        BY <2>3, TextsTellApart
    <3> QED
        BY <2>1, <3>1, <3>2, <3>3
  <2> QED
      BY <1>2, <2>2, <2>3
<1>7. \A m \in C : Line(m).metric = m /\ Line(m).diff = Text(e.diffs[m])
    OBVIOUS
<1>8. \A m \in C : Line(m) \in RestatementMetricDeltaDTO
    BY <1>3, <1>5, <1>6 DEF RestatementMetricDeltaDTO
<1>9. \A m \in D : Line(m) = LineOf(v, w, m)
  <2>1. D = {m \in Metrics : Has(v, m) /\ Has(w, m) /\ w.payload[m] # v.payload[m]}
      BY DeltaIs DEF D
  <2>2. \A m \in D : ValueOf(v, m) = Text(v.payload[m]) /\ ValueOf(w, m) = Text(w.payload[m])
      BY <2>1 DEF ValueOf
  <2> QED
      BY <1>2, <2>2 DEF LineOf
<1>10. DeltaLines(v, w, "str") = {LineOf(v, w, m) : m \in D}
    BY LinesAre DEF D
<1> HIDE DEF Line
<1>11. Changed(lines) = {Line(m) : m \in D}
    BY <1>3, <1>6, <1>7 DEF Changed
<1>12. Changed(lines) = DeltaLines(v, w, "str")
    BY <1>9, <1>10, <1>11
<1>13. {line.metric : line \in Changed(lines)} = D
  <2>1. \A m \in D : Line(m).metric = m
      BY <1>3, <1>7
  <2> HIDE DEF lines
  <2>2. {line.metric : line \in Changed(lines)} = {Line(m).metric : m \in D}
      BY <1>11
  <2> QED
      BY <2>1, <2>2
<1>14. /\ Summary(e.compared, e.changed).total_metrics_changed = Cardinality(D)
       /\ Summary(e.compared, e.changed).has_material_change = (Cardinality(D) > 0)
       /\ Summary(e.compared, e.changed) \in RestatementSummaryHTTP
    BY <1>2, <1>4 DEF Summary, RestatementSummaryHTTP
<1>15. lines \in SUBSET RestatementMetricDeltaHTTP
    BY <1>8 DEF RestatementMetricDeltaHTTP
<1>16. e.from \in Positions /\ e.to \in Positions
    BY <1>2, PayloadFacts
<1> HIDE DEF lines
<1>17. LedgerEntryDTO(v, w) \in RestatementLedgerEntryHTTP
    BY <1>1, <1>14, <1>15, <1>16 DEF RestatementLedgerEntryHTTP
<1> QED
    BY <1>1, <1>2, <1>12, <1>13, <1>14, <1>17 DEF D

LEMMA LedgerAnswers200 ==
    ASSUME NEW list, IsListing(list), LedgerAnswers(list)
    PROVE  LET vs == NormalizedOf(list)
               n  == Len(vs)
           IN  /\ EdgarLedgerRoute(list) = Answer(LedgerBody(list))
               /\ LedgerBody(list).total_hops = n - 1
               /\ \A i \in 1..(n - 1) : LedgerBody(list).entries[i] = LedgerEntryDTO(vs[i], vs[i + 1])
<1> DEFINE vs == NormalizedOf(list)
           n  == Len(vs)
           entries == [i \in 1..(n - 1) |-> LedgerEntryDTO(vs[i], vs[i + 1])]
<1>1. /\ n - 1 \in Nat
      /\ \A j \in 1..n : vs[j] \in Version /\ Normalized(vs[j])
      /\ \A j \in 1..(n - 1) : j \in 1..n /\ j + 1 \in 1..n
    BY HopsAre DEF LedgerAnswers
<1>2. LedgerBody(list) = [total_hops |-> n - 1, entries |-> entries]
    BY DEF LedgerBody
<1> HIDE DEF vs
<1>3. \A i \in 1..(n - 1) : LedgerEntryDTO(vs[i], vs[i + 1]) \in RestatementLedgerEntryHTTP
    BY <1>1, EntriesAre
<1> HIDE DEF n
<1>4. entries \in Seq(RestatementLedgerEntryHTTP)
    BY <1>1, <1>3
<1>5. \A i \in 1..(n - 1) : entries[i] = LedgerEntryDTO(vs[i], vs[i + 1])
    OBVIOUS
<1> HIDE DEF entries
<1>6. LedgerBody(list) \in RestatementLedgerHTTP
    BY <1>1, <1>2, <1>4 DEF RestatementLedgerHTTP
<1>7. EdgarLedgerRoute(list) = Answer(LedgerBody(list))
    BY <1>6 DEF EdgarLedgerRoute, BuiltAs
<1>8. LedgerBody(list).total_hops = n - 1 /\ LedgerBody(list).entries = entries
    BY <1>2
<1> QED
    BY <1>5, <1>7, <1>8 DEF vs, n

LEMMA LedgerRefuses ==
    ASSUME NEW list, EdgarLedgerRoute(list).status = 200 PROVE LedgerAnswers(list)
BY AnswersAre DEF EdgarLedgerRoute

\* What an answered timeline says of a hop.
LEMMA TimelineAnswers200 ==
    ASSUME NEW list, EdgarTimelineRoute(list).status = 200
    PROVE  LET body == EdgarTimelineRoute(list).body
           IN  /\ TimelineAnswers(list) /\ LedgerAnswers(list)
               /\ \A h : {m \in DOMAIN body.by_metric : h \in {hop[1] : hop \in body.by_metric[m]}} =
                            ChangesIn(list, h)
<1>1. TimelineAnswers(list)
  <2>1. SUFFICES ASSUME ~TimelineAnswers(list) PROVE FALSE
      OBVIOUS
  <2>2. EdgarTimelineRoute(list).status = IF LedgerAnswers(list) THEN 500 ELSE 502
      BY <2>1, AnswersAre DEF EdgarTimelineRoute
  <2> QED
      BY <2>2
<1>2. LedgerAnswers(list)
    BY <1>1 DEF TimelineAnswers, LedgerAnswers
<1> DEFINE body == TimelineBody(list)
           timeline == Timeline(list)
<1>3. EdgarTimelineRoute(list) = Answer(body) \/ EdgarTimelineRoute(list) = Refusal(503)
    BY <1>1, AnswersAre DEF EdgarTimelineRoute
<1>4. EdgarTimelineRoute(list).body = body
  <2> HIDE DEF body
  <2> QED
      BY <1>3, AnswersAre
<1>5. body.by_metric = [m \in DOMAIN timeline.byMetric |->
                          {<<hop[1], Text(hop[2])>> : hop \in timeline.byMetric[m]}]
    BY DEF TimelineBody
<1> HIDE DEF body, timeline
<1>6. ASSUME NEW h, NEW m \in DOMAIN timeline.byMetric
      PROVE  h \in {hop[1] : hop \in body.by_metric[m]} <=> \E x \in timeline.byMetric[m] : x[1] = h
  <2>1. body.by_metric[m] = {<<hop[1], Text(hop[2])>> : hop \in timeline.byMetric[m]}
      BY <1>5
  <2>2. ASSUME NEW hop \in body.by_metric[m] PROVE \E x \in timeline.byMetric[m] : x[1] = hop[1]
    <3>1. PICK x \in timeline.byMetric[m] : hop = <<x[1], Text(x[2])>>
        BY <2>1
    <3> QED
        BY <3>1
  <2>3. ASSUME NEW x \in timeline.byMetric[m] PROVE \E hop \in body.by_metric[m] : hop[1] = x[1]
    <3>1. <<x[1], Text(x[2])>> \in body.by_metric[m]
        BY <2>1
    <3>2. <<x[1], Text(x[2])>>[1] = x[1]
        OBVIOUS
    <3> QED
        BY <3>1, <3>2
  <2> QED
      BY <2>2, <2>3
<1>7. DOMAIN body.by_metric = DOMAIN timeline.byMetric
    BY <1>5
<1>8. ASSUME NEW h
      PROVE  {m \in DOMAIN body.by_metric : h \in {hop[1] : hop \in body.by_metric[m]}} = ChangesIn(list, h)
  <2>1. ChangesIn(list, h) = {m \in DOMAIN timeline.byMetric : \E x \in timeline.byMetric[m] : x[1] = h}
      BY DEF ChangesIn, timeline
  <2> QED
      BY <1>6, <1>7, <2>1
<1> QED
    BY <1>1, <1>2, <1>4, <1>8

\* A version with a sequence of its own is the one found by it.
LEMMA AloneIsFound ==
    ASSUME NEW list, IsListing(list), NEW j \in DOMAIN list,
           Cardinality({i \in 1..Len(list) : list[i].seq = list[j].seq}) = 1
    PROVE  BySequence(list, list[j].seq) = list[j]
<1> DEFINE S == {i \in 1..Len(list) : list[i].seq = list[j].seq}
<1>1. DOMAIN list = 1..Len(list) /\ Len(list) \in Nat
    BY DEF IsListing
<1>2. IsFiniteSet(S)
  <2>1. IsFiniteSet(1..Len(list)) /\ S \subseteq 1..Len(list)
      BY <1>1, FS_Interval
  <2> HIDE DEF S
  <2> QED
      BY <2>1, FS_Subset
<1>3. PICK i : S = {i}
  <2> HIDE DEF S
  <2> QED
      BY <1>2, FS_Singleton DEF S
<1>4. \A k \in DOMAIN list : list[k].seq = list[j].seq => k = j
    BY <1>1, <1>3
<1>5. PICK k \in DOMAIN list : BySequence(list, list[j].seq) = list[k] /\ list[k].seq = list[j].seq
  <2>1. list[j].seq \in {v.seq : v \in ToSet(list)}
      BY DEF ToSet
  <2> QED
      BY <2>1, BySequenceIs
<1> QED
    BY <1>4, <1>5

LEMMA RoutesAlwaysAgree ==
    ASSUME NEW list, IsListing(list)
    PROVE  RoutesAgree(list)
<1> DEFINE ledger   == EdgarLedgerRoute(list)
           timeline == EdgarTimelineRoute(list)
           Alone(seq) == Cardinality({i \in 1..Len(list) : list[i].seq = seq}) = 1
<1>1. timeline.status = 200 => ledger.status = 200
    BY TimelineAnswers200, LedgerAnswers200, AnswersAre
<1>2. ASSUME ledger.status = 200, NEW i \in 1..ledger.body.total_hops
      PROVE  LET entry == ledger.body.entries[i]
                 delta == EdgarDeltaRoute(list, entry.from, entry.to)
                 RestatedAt(m) == {hop[1] : hop \in timeline.body.by_metric[m]}
             IN  /\ Alone(entry.from) /\ Alone(entry.to) /\ delta.status = 200 =>
                      /\ delta.body.metrics = Changed(entry.deltas)
                      /\ delta.body.summary.total_metrics_changed = entry.summary.total_metrics_changed
                      /\ delta.body.summary.has_material_change = entry.summary.has_material_change
                 /\ timeline.status = 200 =>
                      {line.metric : line \in Changed(entry.deltas)} =
                        {m \in DOMAIN timeline.body.by_metric : i \in RestatedAt(m)}
  <2> DEFINE vs == NormalizedOf(list)
             n  == Len(vs)
             v  == vs[i]
             w  == vs[i + 1]
             entry == LedgerEntryDTO(v, w)
             delta == EdgarDeltaRoute(list, v.seq, w.seq)
             D == DOMAIN Delta(v, w)
  <2>1. LedgerAnswers(list)
      BY <1>2, LedgerRefuses
  <2>2. /\ ledger.body = LedgerBody(list) /\ i \in 1..(n - 1)
        /\ ledger.body.entries[i] = entry
    <3>1. ledger.body = LedgerBody(list)
        BY <2>1, LedgerAnswers200, AnswersAre
    <3>2. i \in 1..(n - 1)
        BY <1>2, <2>1, <3>1, LedgerAnswers200
    <3> QED
        BY <2>1, <3>1, <3>2, LedgerAnswers200
  <2>3. /\ v \in Version /\ Normalized(v) /\ w \in Version /\ Normalized(w)
        /\ Hops(list)[i] = Delta(v, w)
        /\ i \in DOMAIN vs /\ i + 1 \in DOMAIN vs /\ n >= 2
      BY <2>1, <2>2, HopsAre DEF LedgerAnswers
  <2>4. /\ \E j \in DOMAIN list : v = list[j]
        /\ \E j \in DOMAIN list : w = list[j]
      BY <2>3, NormalizedOfKeeps
  <2>5. timeline.status = 200 => ChangesIn(list, i) = D
    <3>1. SUFFICES ASSUME timeline.status = 200 PROVE ChangesIn(list, i) = D
        OBVIOUS
    <3>2. Timeline(list).hops = n - 1
        BY <2>3, TimelineIs
    <3>3. i \in 1..Timeline(list).hops
        BY <2>2, <3>2
    <3> QED
        BY <2>3, <3>3, TimelineShowsTheLedger
  <2>6. timeline.status = 200 =>
          {m \in DOMAIN timeline.body.by_metric : i \in {hop[1] : hop \in timeline.body.by_metric[m]}} = ChangesIn(list, i)
      BY TimelineAnswers200
  <2> HIDE DEF vs, n, v, w
  <2>7. /\ entry.from = v.seq /\ entry.to = w.seq
        /\ entry.summary.total_metrics_changed = Cardinality(D)
        /\ entry.summary.has_material_change = (Cardinality(D) > 0)
        /\ Changed(entry.deltas) = DeltaLines(v, w, "str")
        /\ {line.metric : line \in Changed(entry.deltas)} = D
      BY <2>3, EntriesAre
  <2>8. ASSUME Alone(v.seq), Alone(w.seq), delta.status = 200
        PROVE  /\ delta.body.metrics = DeltaLines(v, w, "str")
               /\ delta.body.summary.total_metrics_changed = Cardinality(D)
               /\ delta.body.summary.has_material_change = (Cardinality(D) > 0)
    <3>1. BySequence(list, v.seq) = v /\ BySequence(list, w.seq) = w
        BY <2>4, <2>8, AloneIsFound
    <3>2. v.seq \in Positions /\ w.seq \in Positions
        BY <2>3, PayloadFacts
    <3>3. ComputeAnswers(list, v.seq, w.seq)
      <4>1. SUFFICES ASSUME ~ComputeAnswers(list, v.seq, w.seq) PROVE FALSE
          OBVIOUS
      <4>2. ComputeError(list, v.seq, w.seq) \in {"Mapping", "Ingestion"}
          BY DEF ComputeError
      <4>3. delta = Refusal(400) \/ delta = Refusal(EdgarStatus[ComputeError(list, v.seq, w.seq)])
          BY <4>1 DEF EdgarDeltaRoute
      <4> QED
          BY <2>8, <4>2, <4>3, AnswersAre
    <3> DEFINE lines == DeltaLines(v, w, "str")
               c == Cardinality(lines)
    <3>4. delta = Answer([from |-> v.seq, to |-> w.seq, metrics |-> lines, summary |-> Summary(c, c)])
        BY <3>1, <3>2, <3>3, EdgarAnswers
    <3>5. c = Cardinality(D)
        BY <2>3, LinesAre
    <3> HIDE DEF lines, c, delta, D
    <3>6. delta.body = [from |-> v.seq, to |-> w.seq, metrics |-> lines, summary |-> Summary(c, c)]
        BY <3>4, AnswersAre
    <3> QED
        BY <3>5, <3>6 DEF Summary, lines
  <2> HIDE DEF entry, D
  <2>9. {line.metric : line \in Changed(ledger.body.entries[i].deltas)} = D
      BY <2>2, <2>7
  <2> QED
      BY <2>2, <2>5, <2>6, <2>7, <2>8, <2>9
<1>3. \A from, to \in Positions :
             LET edgar == EdgarDeltaRoute(list, from, to)
                 fundamentals == FundamentalsDeltaRoute(list, from, to)
             IN  /\ fundamentals.status = 200 => fundamentals = edgar
                 /\ edgar.status = 200 =>
                      fundamentals.status = IF edgar.body.summary.has_material_change THEN 500 ELSE 200
                 /\ (edgar.status = 502) <=> (fundamentals.status = 502)
                 /\ edgar.status = 400 => fundamentals.status = 400
    BY DeltaRoutesAgree
<1> QED
    BY <1>1, <1>2, <1>3 DEF RoutesAgree, Changed

-----------------------------------------------------------------------------
(* The derived series.                                                     *)

Growths == {"REVENUE_GROWTH_YOY", "REVENUE_GROWTH_QOQ", "EPS_DILUTED_GROWTH"}

Others == {"GROSS_MARGIN", "OPERATING_MARGIN", "NET_MARGIN", "EBITDA", "EBIT", "LEVERED_FREE_CASH_FLOW",
           "WORKING_CAPITAL", "DEBT_TO_EQUITY", "INTEREST_COVERAGE", "ROE", "ROA", "ROIC"}

LEMMA MetricsAre ==
    /\ DOMAIN Specs = Growths \cup {"REVENUE_GROWTH_TTM", "UNLEVERED_FREE_CASH_FLOW"} \cup Others
    /\ MetricViews = [core_fundamentals |-> DOMAIN Specs]
<1>1. DOMAIN Specs = Growths \cup {"REVENUE_GROWTH_TTM", "UNLEVERED_FREE_CASH_FLOW"} \cup Others
    BY DEF Specs, Growths, Others
<1>2. MetricViews.core_fundamentals = Growths \cup {"REVENUE_GROWTH_TTM", "UNLEVERED_FREE_CASH_FLOW"} \cup Others
    BY DEF MetricViews, Growths, Others
<1>3. MetricViews = [core_fundamentals |-> MetricViews.core_fundamentals]
    BY DEF MetricViews
<1> QED
    BY <1>1, <1>2, <1>3

LEMMA SpecsAre ==
    /\ \A name \in Others \cup {"UNLEVERED_FREE_CASH_FLOW"} : Specs[name].history = 0
    /\ \A name \in Growths \cup {"REVENUE_GROWTH_TTM"} : Specs[name].history > 0
    /\ Specs["REVENUE_GROWTH_YOY"].inputs = {"REVENUE"}
    /\ Specs["REVENUE_GROWTH_QOQ"].inputs = {"REVENUE"}
    /\ Specs["REVENUE_GROWTH_TTM"].inputs = {"REVENUE"}
    /\ Specs["EPS_DILUTED_GROWTH"].inputs = {"DILUTED_EPS"}
<1>1. /\ Specs["REVENUE_GROWTH_YOY"].inputs = {"REVENUE"}
      /\ Specs["REVENUE_GROWTH_QOQ"].inputs = {"REVENUE"}
      /\ Specs["REVENUE_GROWTH_TTM"].inputs = {"REVENUE"}
      /\ Specs["EPS_DILUTED_GROWTH"].inputs = {"DILUTED_EPS"}
    BY DEF Specs, Spec3, Growing
<1>2. \A name \in Others \cup {"UNLEVERED_FREE_CASH_FLOW"} : Specs[name].history = 0
    BY DEF Specs, Spec3, OfIncome, OfReturn, Others
<1>3. \A name \in Growths \cup {"REVENUE_GROWTH_TTM"} : Specs[name].history > 0
    BY QuarterAssumption DEF Specs, Spec3, Growing, Growths
<1> QED
    BY <1>1, <1>2, <1>3

LEMMA FormulasAre ==
    ASSUME NEW v, NEW h
    PROVE  /\ Formula("GROSS_MARGIN", v, h) = Ratio(v, "GROSS_PROFIT", "REVENUE")
           /\ Formula("OPERATING_MARGIN", v, h) = Ratio(v, "OPERATING_INCOME", "REVENUE")
           /\ Formula("NET_MARGIN", v, h) = Ratio(v, "NET_INCOME", "REVENUE")
           /\ Formula("REVENUE_GROWTH_YOY", v, h) = Growth(v, Prior(v, h, 1), "REVENUE")
           /\ Formula("REVENUE_GROWTH_QOQ", v, h) = Growth(v, Previous(v, h), "REVENUE")
           /\ Formula("REVENUE_GROWTH_TTM", v, h) = Trailing(v, h, "REVENUE")
           /\ Formula("EPS_DILUTED_GROWTH", v, h) = Growth(v, Prior(v, h, 1), "DILUTED_EPS")
           /\ \E n : Formula("EBITDA", v, h) = Value(n, 1)
           /\ Formula("EBIT", v, h) = Value(Ebit(v), 1)
           /\ \E n : Formula("LEVERED_FREE_CASH_FLOW", v, h) = Value(n, 1)
           /\ Formula("UNLEVERED_FREE_CASH_FLOW", v, h) = Unlevered(v)
           /\ \E n : Formula("WORKING_CAPITAL", v, h) = Value(n, 1)
           /\ \E n, d : Formula("DEBT_TO_EQUITY", v, h) = Divide(n, d)
           /\ Formula("INTEREST_COVERAGE", v, h) = Divide(Ebit(v), v.payload.INTEREST_EXPENSE)
           /\ Formula("ROE", v, h) = Ratio(v, "NET_INCOME", "TOTAL_EQUITY")
           /\ Formula("ROA", v, h) = Ratio(v, "NET_INCOME", "TOTAL_ASSETS")
           /\ Formula("ROIC", v, h) = ReturnOnCapital(v)
<1>1. /\ Formula("GROSS_MARGIN", v, h) = Ratio(v, "GROSS_PROFIT", "REVENUE")
      /\ Formula("OPERATING_MARGIN", v, h) = Ratio(v, "OPERATING_INCOME", "REVENUE")
      /\ Formula("NET_MARGIN", v, h) = Ratio(v, "NET_INCOME", "REVENUE")
      /\ Formula("ROE", v, h) = Ratio(v, "NET_INCOME", "TOTAL_EQUITY")
      /\ Formula("ROA", v, h) = Ratio(v, "NET_INCOME", "TOTAL_ASSETS")
      /\ Formula("ROIC", v, h) = ReturnOnCapital(v)
    BY DEF Formula
<1>2. /\ Formula("REVENUE_GROWTH_YOY", v, h) = Growth(v, Prior(v, h, 1), "REVENUE")
      /\ Formula("REVENUE_GROWTH_QOQ", v, h) = Growth(v, Previous(v, h), "REVENUE")
      /\ Formula("REVENUE_GROWTH_TTM", v, h) = Trailing(v, h, "REVENUE")
      /\ Formula("EPS_DILUTED_GROWTH", v, h) = Growth(v, Prior(v, h, 1), "DILUTED_EPS")
    BY DEF Formula
<1>3. /\ Formula("EBITDA", v, h) = Value(v.payload.OPERATING_INCOME + v.payload.DA, 1)
      /\ Formula("EBIT", v, h) = Value(Ebit(v), 1)
      /\ Formula("LEVERED_FREE_CASH_FLOW", v, h) =
           Value(IF Has(v, "FREE_CASH_FLOW") THEN v.payload.FREE_CASH_FLOW
                 ELSE v.payload.CFO + v.payload.CAPEX, 1)
      /\ Formula("UNLEVERED_FREE_CASH_FLOW", v, h) = Unlevered(v)
      /\ Formula("WORKING_CAPITAL", v, h) =
           Value(v.payload.CURRENT_ASSETS - v.payload.CURRENT_LIABILITIES, 1)
    BY DEF Formula
<1>4. /\ Formula("DEBT_TO_EQUITY", v, h) = Divide(NetDebt(v), v.payload.TOTAL_EQUITY)
      /\ Formula("INTEREST_COVERAGE", v, h) = Divide(Ebit(v), v.payload.INTEREST_EXPENSE)
    BY DEF Formula
<1> QED
    BY <1>1, <1>2, <1>3, <1>4

\* A result is a value, whose denominator is not zero, or has a reason.
LEMMA ResultsAre ==
    /\ \A num, den : IsValue(Value(num, den)) /\ Value(num, den).num = num /\ Value(num, den).den = den
    /\ ~IsValue(Missing) /\ ~IsValue(Zero) /\ Missing # Zero
    /\ \A num, den : Divide(num, den) # Missing
    /\ \A num, den : IsValue(Divide(num, den)) => den # 0 /\ Divide(num, den) = Value(num, den)
<1>1. \A num, den : IsValue(Value(num, den)) /\ Value(num, den).num = num /\ Value(num, den).den = den
    BY DEF IsValue, Value
<1>2. ~IsValue(Missing) /\ ~IsValue(Zero)
  <2>1. DOMAIN Missing = {"reason"} /\ DOMAIN Zero = {"reason"}
      BY DEF Missing, Zero
  <2>2. {"reason"} # {"num", "den"}
      OBVIOUS
  <2> QED
      BY <2>1, <2>2 DEF IsValue
<1>3. Missing # Zero
  <2>1. Missing.reason = "MISSING_INPUT" /\ Zero.reason = "ZERO_DENOMINATOR"
      BY DEF Missing, Zero
  <2> QED
      BY <2>1
<1>4. \A num, den : Divide(num, den) = Zero \/ (den # 0 /\ Divide(num, den) = Value(num, den))
    BY DEF Divide
<1> QED
    BY <1>1, <1>2, <1>3, <1>4

LEMMA FormulasDivide ==
    ASSUME NEW name \in DOMAIN Specs, NEW v, NEW h
    PROVE  /\ IsValue(Formula(name, v, h)) => Formula(name, v, h).den # 0
           /\ name \in Others => Formula(name, v, h) # Missing
           /\ name = "UNLEVERED_FREE_CASH_FLOW" /\ HasEbit(v) => Formula(name, v, h) # Missing
<1> DEFINE r == Formula(name, v, h)
           Divides == \E num, den : r = Divide(num, den)
<1>1. ASSUME Divides PROVE r # Missing /\ (IsValue(r) => r.den # 0)
  <2>1. PICK num, den : r = Divide(num, den)
      BY <1>1
  <2> HIDE DEF r
  <2> QED
      BY <2>1, ResultsAre
<1>2. ASSUME NEW n, r = Value(n, 1) PROVE r # Missing /\ r.den # 0
  <2> HIDE DEF r
  <2>1. r.den = 1 /\ IsValue(r)
      BY <1>2, ResultsAre
  <2> QED
      BY <2>1, ResultsAre
<1>3. r = Missing => ~IsValue(r)
    BY ResultsAre
<1>4. CASE name \in Others
  <2>1. Divides \/ \E n : r = Value(n, 1)
      BY <1>4, FormulasAre DEF Others, Ratio, ReturnOnCapital
  <2>2. name # "UNLEVERED_FREE_CASH_FLOW"
      BY <1>4 DEF Others
  <2> HIDE DEF r
  <2>3. CASE Divides
      BY <1>1, <2>2, <2>3 DEF r
  <2>4. CASE \E n : r = Value(n, 1)
      BY <1>2, <2>2, <2>4 DEF r
  <2> QED
      BY <2>1, <2>3, <2>4
<1>5. CASE name \in Growths
  <2>1. \E prior, m : r = Growth(v, prior, m)
      BY <1>5, FormulasAre DEF Growths
  <2>2. Divides \/ r = Missing
    <3> HIDE DEF r
    <3> QED
        BY <2>1 DEF Growth
  <2>3. name \notin Others /\ name # "UNLEVERED_FREE_CASH_FLOW"
      BY <1>5 DEF Growths, Others
  <2> HIDE DEF r, Divides
  <2> QED
      BY <1>1, <1>3, <2>2, <2>3 DEF r
<1>6. CASE name = "REVENUE_GROWTH_TTM"
  <2>1. r = Trailing(v, h, "REVENUE")
      BY <1>6, FormulasAre
  <2>2. Divides \/ r = Missing
    <3> HIDE DEF r
    <3> QED
        BY <2>1 DEF Trailing
  <2>3. name \notin Others /\ name # "UNLEVERED_FREE_CASH_FLOW"
      BY <1>6 DEF Others
  <2> HIDE DEF r, Divides
  <2> QED
      BY <1>1, <1>3, <2>2, <2>3 DEF r
<1>7. CASE name = "UNLEVERED_FREE_CASH_FLOW"
  <2>1. r = Unlevered(v)
      BY <1>7, FormulasAre
  <2>2. IF HasEbit(v) THEN Divides ELSE r = Missing
    <3> HIDE DEF r
    <3> QED
        BY <2>1 DEF Unlevered
  <2>3. name \notin Others
      BY <1>7 DEF Others
  <2> HIDE DEF r, Divides
  <2> QED
      BY <1>1, <1>3, <2>2, <2>3 DEF r
<1> QED
    BY <1>4, <1>5, <1>6, <1>7, MetricsAre

\* What a point of the derived series is made of.
Earlier(S, v) == {p \in S : p.date < v.date}

ResultOf(S, v, name) == ComputeMetric(name, v, Earlier(S, v))

LEMMA ResultIs ==
    ASSUME NEW S, NEW v, NEW name \in DOMAIN Specs, IsValue(ResultOf(S, v, name))
    PROVE  /\ ResultOf(S, v, name) = Formula(name, v, Earlier(S, v))
           /\ v.type \in Specs[name].types
           /\ Specs[name].inputs \subseteq DOMAIN v.payload
<1>1. ResultOf(S, v, name) # Missing
    BY ResultsAre
<1> QED
    BY <1>1 DEF ResultOf, ComputeMetric

LEMMA PointIs ==
    ASSUME NEW S, NEW v, NEW names
    PROVE  /\ Point(S, v, names).version = v
           /\ \A r : r \in Point(S, v, names).values <=>
                \E name \in names : r = <<name, ResultOf(S, v, name)>> /\ IsValue(ResultOf(S, v, name))
<1> DEFINE results == {<<name, ResultOf(S, v, name)>> : name \in names}
<1>1. Point(S, v, names) = [version |-> v, values |-> {x \in results : IsValue(x[2])}]
    BY DEF Point, HistoryOf, Earlier, ResultOf
<1>2. \A r : r \in {x \in results : IsValue(x[2])} <=>
                \E name \in names : r = <<name, ResultOf(S, v, name)>> /\ IsValue(ResultOf(S, v, name))
    OBVIOUS
<1> HIDE DEF results
<1> QED
    BY <1>1, <1>2

\* A series: versions with payloads, of one type, and one of a date.
IsSeries(S) ==
    /\ S \subseteq Version /\ IsFiniteSet(S)
    /\ \A v \in S : Normalized(v)
    /\ \A v, w \in S : v.type = w.type /\ (v.date = w.date => v = w)

LEMMA NewestAreSeries ==
    ASSUME IInv, NEW type
    PROVE  IsSeries(NewestByDate({v \in versions : v.type = type}))
<1> DEFINE S == NewestByDate({v \in versions : v.type = type})
<1>1. /\ versions \subseteq Version /\ IsFiniteSet(versions)
      /\ \A v, w \in versions : v.type = w.type /\ v.date = w.date /\ v.seq = w.seq => v = w
    BY DEF IInv, TypeOK, Stored
<1>2. /\ S \subseteq versions
      /\ \A v \in S : Normalized(v) /\ v.type = type
      /\ \A v, w \in S : v.date = w.date => v.seq <= w.seq
    BY DEF NewestByDate
<1> HIDE DEF S
<1>3. \A v, w \in S : v.date = w.date => v = w
  <2>1. ASSUME NEW v \in S, NEW w \in S, v.date = w.date PROVE v = w
    <3>1. v.seq <= w.seq /\ w.seq <= v.seq /\ v.seq \in Nat /\ w.seq \in Nat
        BY <1>1, <1>2, <2>1, VersionFields
    <3>2. v.seq = w.seq
        BY <3>1
    <3> QED
        BY <1>1, <1>2, <2>1, <3>2
  <2> QED
      BY <2>1
<1>4. IsFiniteSet(S)
    BY <1>1, <1>2, FS_Subset
<1> QED
    BY <1>1, <1>2, <1>3, <1>4 DEF IsSeries, S

LEMMA SpecsAlwaysSuffice ==
    ASSUME NEW S, IsSeries(S)
    PROVE  SpecsSuffice(S)
<1> SUFFICES ASSUME NEW v \in S, NEW name \in DOMAIN Specs,
                    /\ v.type \in CatalogRoute.body[name].required_statement_types
                    /\ CatalogRoute.body[name].required_inputs \subseteq DOMAIN v.payload
                    /\ ComputeMetric(name, v, HistoryOf(S, v, DOMAIN Specs)) = Missing
             PROVE  \/ CatalogRoute.body[name].history_periods > 0
                    \/ name = "UNLEVERED_FREE_CASH_FLOW" /\ ~HasEbit(v)
    BY DEF SpecsSuffice
<1>1. /\ CatalogRoute.body[name].required_statement_types = Specs[name].types
      /\ CatalogRoute.body[name].required_inputs = Specs[name].inputs
      /\ CatalogRoute.body[name].history_periods = Specs[name].history
  <2>1. CatalogRoute.body = Catalog
      BY AnswersAre DEF CatalogRoute
  <2> QED
      BY <2>1 DEF Catalog
<1>2. ComputeMetric(name, v, Earlier(S, v)) = Missing
    BY DEF HistoryOf, Earlier
<1>3. Cardinality(Earlier(S, v)) \in Nat
    BY FS_Subset, FS_CardinalityType DEF IsSeries, Earlier
<1>4. SUFFICES ASSUME ~(Specs[name].history > 0) PROVE name = "UNLEVERED_FREE_CASH_FLOW" /\ ~HasEbit(v)
    BY <1>1
<1>5. name \in Others \cup {"UNLEVERED_FREE_CASH_FLOW"}
    BY <1>4, SpecsAre, MetricsAre
<1>6. Specs[name].history = 0
    BY <1>5, SpecsAre
<1>7. ComputeMetric(name, v, Earlier(S, v)) = Formula(name, v, Earlier(S, v))
    BY <1>1, <1>3, <1>6 DEF ComputeMetric
<1> QED
    BY <1>2, <1>5, <1>7, FormulasDivide

\* The one bundle there is has all metrics of the catalog.
LEMMA BundleIsWhole ==
    ASSUME NEW S, NEW view \in ViewsRoute.body
    PROVE  /\ view.metrics \subseteq DOMAIN CatalogRoute.body
           /\ ViewRoute(S, view.code, None) = EdgarSeriesRoute(S, None)
<1>1. DOMAIN MetricViews = {"core_fundamentals"} /\ MetricViews["core_fundamentals"] = DOMAIN Specs
    BY MetricsAre
<1>2. view.code = "core_fundamentals" /\ view.metrics = DOMAIN Specs
  <2>1. ViewsRoute.body = {[code |-> bundle, metrics |-> MetricViews[bundle]] : bundle \in DOMAIN MetricViews}
      BY AnswersAre DEF ViewsRoute
  <2> QED
      BY <1>1, <2>1
<1>3. DOMAIN CatalogRoute.body = DOMAIN Specs
  <2>1. CatalogRoute.body = Catalog
      BY AnswersAre DEF CatalogRoute
  <2> QED
      BY <2>1 DEF Catalog
<1>4. EdgarPoints(S, None, "core_fundamentals") = EdgarPoints(S, None, None)
    BY <1>1 DEF EdgarPoints
<1>5. ViewRoute(S, "core_fundamentals", None) = Answer(EdgarPoints(S, None, "core_fundamentals"))
    BY <1>1 DEF ViewRoute
<1> QED
    BY <1>2, <1>3, <1>4, <1>5 DEF EdgarSeriesRoute

\* What a series says of one metric, whatever else was asked for.
DatedOf(S, names, name) ==
    UNION {{<<p.version, r[2]>> : r \in {r \in p.values : r[1] = name}} : p \in PointsOf(S, names)}

LEMMA DatedIs ==
    ASSUME NEW S, NEW names, NEW name \in names
    PROVE  DatedOf(S, names, name) = {<<v, ResultOf(S, v, name)>> : v \in {v \in S : IsValue(ResultOf(S, v, name))}}
<1> DEFINE R == {<<v, ResultOf(S, v, name)>> : v \in {v \in S : IsValue(ResultOf(S, v, name))}}
<1>1. ASSUME NEW y \in DatedOf(S, names, name) PROVE y \in R
  <2>1. PICK p \in PointsOf(S, names) : \E r \in p.values : r[1] = name /\ y = <<p.version, r[2]>>
      BY <1>1 DEF DatedOf
  <2>2. PICK r \in p.values : r[1] = name /\ y = <<p.version, r[2]>>
      BY <2>1
  <2>3. PICK v \in S : p = Point(S, v, names)
      BY <2>1 DEF PointsOf
  <2>4. PICK other \in names : r = <<other, ResultOf(S, v, other)>> /\ IsValue(ResultOf(S, v, other))
      BY <2>2, <2>3, PointIs
  <2>5. other = name /\ r[2] = ResultOf(S, v, name) /\ p.version = v
      BY <2>2, <2>3, <2>4, PointIs
  <2> QED
      BY <2>2, <2>4, <2>5
<1>2. ASSUME NEW y \in R PROVE y \in DatedOf(S, names, name)
  <2>1. PICK v \in S : IsValue(ResultOf(S, v, name)) /\ y = <<v, ResultOf(S, v, name)>>
      BY <1>2
  <2> DEFINE p == Point(S, v, names)
             r == <<name, ResultOf(S, v, name)>>
  <2>2. p.version = v /\ r \in p.values
      BY <2>1, PointIs
  <2>3. p \in PointsOf(S, names)
      BY <2>2 DEF PointsOf
  <2>4. r[1] = name /\ y = <<p.version, r[2]>>
      BY <2>1, <2>2
  <2> HIDE DEF p, r
  <2> QED
      BY <2>2, <2>3, <2>4 DEF DatedOf
<1> HIDE DEF R
<1>3. DatedOf(S, names, name) = R
    BY <1>1, <1>2
<1> QED
    BY <1>3 DEF R

\* A point of the derived series belongs to one of its versions.
LEMMA PointsAre ==
    ASSUME NEW S, IsSeries(S)
    PROVE  /\ IsFiniteSet(Points(S))
           /\ \A p \in Points(S) : p.version \in S /\ p = Point(S, p.version, DOMAIN Specs) /\ p.version.date \in Nat
           /\ \A p, q \in Points(S) : p.version.date = q.version.date => p = q
<1> DEFINE f == [v \in S |-> Point(S, v, DOMAIN Specs)]
<1>1. Points(S) = {p \in {f[v] : v \in S} : p.values # {}} /\ f = [v \in S |-> f[v]]
    BY DEF Points, PointsOf
<1>2. \A v \in S : f[v] = Point(S, v, DOMAIN Specs) /\ f[v].version = v
    BY PointIs
<1>3. /\ S \subseteq Version /\ IsFiniteSet(S)
      /\ \A v, w \in S : v.date = w.date => v = w
    BY DEF IsSeries
<1>4. \A v \in S : v.date \in Nat
    BY <1>3, VersionFields
<1> HIDE DEF f
<1>5. IsFiniteSet({f[v] : v \in S})
    BY <1>1, <1>3, ImageIsFinite
<1>6. IsFiniteSet(Points(S))
    BY <1>1, <1>5, FS_Subset
<1> QED
    BY <1>1, <1>2, <1>3, <1>4, <1>6

\* The pages of a series of any length are together the series, and none is too long.
LEMMA PagesAre ==
    ASSUME NEW points, IsFiniteSet(points),
           \A p \in points : p.version.date \in Nat,
           \A p, q \in points : p.version.date = q.version.date => p = q,
           NEW size \in 1..2
    PROVE  /\ UNION {Page(points, n, size) : n \in 1..Cardinality(points)} = points
           /\ \A n \in 1..Cardinality(points) : Cardinality(Page(points, n, size)) <= size
<1> DEFINE N == Cardinality(points)
           D == DatesOf(points)
           k(p) == Cardinality({q \in points : q.version.date < p.version.date})
<1>1. N \in Nat /\ N = Cardinality(D)
  <2>1. Cardinality(points) = Cardinality(DatesOf(points))
      BY PageOfDates
  <2> QED
      BY <2>1, FS_CardinalityType
<1>2. D \in SUBSET Nat /\ IsFiniteSet(D)
  <2> DEFINE f == [p \in points |-> p.version.date]
  <2>1. f = [p \in points |-> f[p]] /\ D = {f[p] : p \in points}
      BY DEF DatesOf
  <2> HIDE DEF f
  <2>2. IsFiniteSet(D)
      BY <2>1, ImageIsFinite
  <2> QED
      BY <2>2 DEF DatesOf
<1>3. ASSUME NEW n \in 1..N
      PROVE  /\ Page(points, n, size) \subseteq points
             /\ \A p \in points : p \in Page(points, n, size) <=> k(p) \in ((n - 1) * size)..(n * size - 1)
    BY DEF Page, Slice
<1>4. ASSUME NEW p \in points PROVE k(p) \in 0..(N - 1)
  <2> DEFINE T == {q \in points : q.version.date < p.version.date}
  <2>1. IsFiniteSet(T) /\ T \subseteq points \ {p} /\ IsFiniteSet(points \ {p})
      BY FS_Subset
  <2>2. Cardinality(points \ {p}) = N - 1 /\ Cardinality(T) \in Nat
      BY <2>1, FS_RemoveElement, FS_CardinalityType
  <2>3. Cardinality(T) <= Cardinality(points \ {p})
      BY <2>1, FS_Subset
  <2> HIDE DEF N, T
  <2>4. Cardinality(T) \in 0..(N - 1)
      BY <1>1, <2>2, <2>3
  <2> QED
      BY <2>4 DEF T
<1> HIDE DEF N, D, k
<1>5. UNION {Page(points, n, size) : n \in 1..N} \subseteq points
    BY <1>3
<1>6. ASSUME NEW p \in points PROVE \E n \in 1..N : p \in Page(points, n, size)
  <2>1. k(p) \in 0..(N - 1)
      BY <1>4
  <2>2. \E n \in 1..N : k(p) \in ((n - 1) * size)..(n * size - 1)
    <3>1. CASE size = 1
      <4>1. k(p) + 1 \in 1..N /\ k(p) \in ((k(p) + 1 - 1) * size)..((k(p) + 1) * size - 1)
          BY <1>1, <2>1, <3>1
      <4> QED
          BY <4>1
    <3>2. CASE size = 2
      <4>1. PICK h \in Nat : k(p) = 2 * h \/ k(p) = 2 * h + 1
        <5>1. k(p) \div 2 \in Nat /\ (k(p) = 2 * (k(p) \div 2) \/ k(p) = 2 * (k(p) \div 2) + 1)
            BY <1>1, <2>1
        <5> QED
            BY <5>1
      <4>2. h + 1 \in 1..N /\ k(p) \in ((h + 1 - 1) * 2)..((h + 1) * 2 - 1)
          BY <1>1, <2>1, <4>1
      <4> QED
          BY <3>2, <4>2
    <3> QED
        BY <3>1, <3>2
  <2> QED
      BY <1>3, <2>2
<1>7. ASSUME NEW n \in 1..N PROVE Cardinality(Page(points, n, size)) <= size
  <2> DEFINE page == Page(points, n, size)
             first == (n - 1) * size
             E == DatesOf(page)
  <2>1. IsFiniteSet(page) /\ page \subseteq points
      BY <1>3, FS_Subset
  <2>2. Cardinality(page) = Cardinality(E)
    <3>1. /\ \A p \in page : p.version.date \in Nat
          /\ \A p, q \in page : p.version.date = q.version.date => p = q
        BY <2>1
    <3> HIDE DEF page
    <3> QED
        BY <2>1, <3>1, PageOfDates
  <2>3. first \in Int /\ n * size \in Int /\ n * size = first + size /\ n * size - 1 = first + size - 1
    <3>1. CASE size = 1
        BY <1>1, <3>1
    <3>2. CASE size = 2
        BY <1>1, <3>2
    <3> QED
        BY <3>1, <3>2
  <2>4. E = {d \in D : Place(D, d) \in first..(n * size - 1)}
    <3>1. DatesOf(Slice(points, first, n * size)) =
            {d \in DatesOf(points) : Place(DatesOf(points), d) \in first..(n * size - 1)}
      <4> HIDE DEF first
      <4> QED
          BY <2>3, PageOfDates
    <3> QED
        BY <3>1 DEF Page, D
  <2> DEFINE g == [d \in E |-> Place(D, d)]
  <2>5. IsFiniteSet(E)
      BY <1>2, <2>4, FS_Subset
  <2>6. g = [d \in E |-> g[d]] /\ \A x, y \in E : g[x] = g[y] => x = y
    <3>1. \A x, y \in D : Place(D, x) = Place(D, y) => x = y
        BY <1>2, PlacesAreAll
    <3> QED
        BY <2>4, <3>1
  <2>7. {g[d] : d \in E} \subseteq first..(first + size - 1)
      BY <2>3, <2>4
  <2> HIDE DEF page, first, E, g
  <2>8. Cardinality({g[d] : d \in E}) = Cardinality(E)
      BY <2>5, <2>6, ImageIsAsLarge
  <2>9. IsFiniteSet(first..(first + size - 1)) /\ Cardinality(first..(first + size - 1)) = size
    <3>1. first + size - 1 \in Int /\ first + size - 1 >= first /\ (first + size - 1) - first + 1 = size
        BY <2>3
    <3> QED
        BY <2>3, <3>1, FS_Interval
  <2>10. Cardinality({g[d] : d \in E}) <= size
    <3> DEFINE W == first..(first + size - 1)
               G == {g[d] : d \in E}
    <3>1. G \in SUBSET W /\ IsFiniteSet(W) /\ Cardinality(W) = size
        BY <2>7, <2>9
    <3> HIDE DEF W, G
    <3>2. Cardinality(G) <= Cardinality(W)
        BY <3>1, FS_Subset
    <3> QED
        BY <3>1, <3>2 DEF G
  <2> QED
      BY <2>2, <2>8, <2>10 DEF page
<1> QED
    BY <1>5, <1>6, <1>7 DEF N

\* The last of some versions of a series.
LEMMA LastIs ==
    ASSUME NEW S, IsSeries(S), NEW T, T \subseteq S, T # {}
    PROVE  LastOf(T) \in T /\ \A q \in T : q.date <= LastOf(T).date
<1> DEFINE D == {q.date : q \in T}
<1>1. \A q \in T : q.date \in Nat
    BY VersionFields DEF IsSeries
<1>2. IsFiniteSet(D)
  <2> DEFINE f == [q \in T |-> q.date]
  <2>1. IsFiniteSet(T) /\ f = [q \in T |-> f[q]] /\ D = {f[q] : q \in T}
      BY FS_Subset DEF IsSeries
  <2> HIDE DEF f, D
  <2> QED
      BY <2>1, ImageIsFinite
<1>3. D \in SUBSET Nat /\ D # {}
    BY <1>1
<1>4. \E d \in D : \A e \in D : e <= d
  <2> HIDE DEF D
  <2> QED
      BY <1>2, <1>3, GreatestNumber
<1>5. \E p \in T : \A q \in T : q.date <= p.date
    BY <1>4
<1>6. LastOf(T) = CHOOSE p \in T : \A q \in T : q.date <= p.date
    BY DEF LastOf
<1> QED
    BY <1>5, <1>6, Zenon

\* A growth figure compares with the latest earlier point of those it may compare with.
LEMMA GrowthIs ==
    ASSUME NEW S, IsSeries(S), NEW v \in S, NEW name \in Growths,
           IsValue(ResultOf(S, v, name)), NEW m, Specs[name].inputs = {m}
    PROVE  \E w \in S :
              /\ w.date < v.date /\ (name # "REVENUE_GROWTH_QOQ" => Year(w) = Year(v) - 1)
              /\ \A q \in S : q.date < v.date /\ (name # "REVENUE_GROWTH_QOQ" => Year(q) = Year(v) - 1)
                                => q.date <= w.date
              /\ ResultOf(S, v, name) = Value(v.payload[m] - w.payload[m], w.payload[m])
<1> DEFINE T == {p \in S : p.date < v.date /\ (name # "REVENUE_GROWTH_QOQ" => Year(p) = Year(v) - 1)}
           h == Earlier(S, v)
           r == ResultOf(S, v, name)
<1>1. name \in DOMAIN Specs /\ r = Formula(name, v, h)
    BY MetricsAre, ResultIs
<1>2. \A p \in S : p.type = v.type
    BY DEF IsSeries
<1>3. r = Growth(v, LastOf(T), m)
  <2>1. CASE name = "REVENUE_GROWTH_QOQ"
    <3>1. {p \in h : p.type = v.type /\ p.date < v.date} = T
        BY <1>2, <2>1 DEF Earlier
    <3>2. Previous(v, h) = LastOf(T)
        BY <3>1 DEF Previous
    <3>3. m = "REVENUE"
        BY <2>1, SpecsAre
    <3> HIDE DEF T, h, r
    <3> QED
        BY <1>1, <2>1, <3>2, <3>3, FormulasAre
  <2>2. CASE name # "REVENUE_GROWTH_QOQ"
    <3>1. {p \in h : p.type = v.type /\ Year(p) = Year(v) - 1} = T
        BY <1>2, <2>2 DEF Earlier
    <3>2. Prior(v, h, 1) = LastOf(T)
        BY <3>1 DEF Prior
    <3>3. \/ name = "REVENUE_GROWTH_YOY" /\ m = "REVENUE"
          \/ name = "EPS_DILUTED_GROWTH" /\ m = "DILUTED_EPS"
        BY <2>2, SpecsAre DEF Growths
    <3> HIDE DEF T, h, r
    <3> QED
        BY <1>1, <3>2, <3>3, FormulasAre
  <2> QED
      BY <2>1, <2>2
<1>4. T # {}
  <2>1. CASE T = {}
    <3>1. LastOf(T) = None
        BY <2>1 DEF LastOf
    <3>2. r = Missing
      <4> HIDE DEF T, r
      <4> QED
          BY <1>3, <3>1 DEF Growth
    <3> QED
        BY <3>2, ResultsAre
  <2> QED
      BY <2>1
<1>5. LastOf(T) \in T /\ \A q \in T : q.date <= LastOf(T).date
  <2>1. T \subseteq S
      OBVIOUS
  <2> HIDE DEF T
  <2> QED
      BY <1>4, <2>1, LastIs
<1>6. r = Value(v.payload[m] - LastOf(T).payload[m], LastOf(T).payload[m])
  <2>1. IsValue(r)
      OBVIOUS
  <2> HIDE DEF T, r
  <2> DEFINE w == LastOf(T)
  <2>2. r # Missing
      BY <2>1, ResultsAre
  <2> HIDE DEF w
  <2>3. r = Divide(v.payload[m] - w.payload[m], w.payload[m])
      BY <1>3, <2>2 DEF Growth, w
  <2> QED
      BY <2>1, <2>3, ResultsAre DEF w
<1> DEFINE w == LastOf(T)
<1> HIDE DEF w
<1>7. w \in T /\ \A q \in T : q.date <= w.date
    BY <1>5 DEF w
<1>8. r = Value(v.payload[m] - w.payload[m], w.payload[m])
    BY <1>6 DEF w
<1> QED
    BY <1>7, <1>8

LEMMA GrowthSays ==
    ASSUME NEW S, IsSeries(S), NEW v \in S, NEW name \in Growths,
           IsValue(ResultOf(S, v, name)), NEW point, point.version = v
    PROVE  SaysOf(Fundamentals(S), point, name, ResultOf(S, v, name))
<1> DEFINE m == CHOOSE n \in Specs[name].inputs : TRUE
           result == ResultOf(S, v, name)
           F == Fundamentals(S)
<1>1. Specs[name].inputs = {m}
    BY SpecsAre DEF Growths
<1>2. PICK w \in S :
         /\ w.date < v.date /\ (name # "REVENUE_GROWTH_QOQ" => Year(w) = Year(v) - 1)
         /\ \A q \in S : q.date < v.date /\ (name # "REVENUE_GROWTH_QOQ" => Year(q) = Year(v) - 1)
                           => q.date <= w.date
         /\ result = Value(v.payload[m] - w.payload[m], w.payload[m])
  <2> HIDE DEF m
  <2> QED
      BY <1>1, GrowthIs
<1> DEFINE prior == [version |-> w, values |-> w.payload]
<1>3. prior.version = w /\ prior.values = w.payload /\ prior \in F
    BY DEF Fundamentals
<1>4. \A p \in F : p.version \in S
    BY DEF Fundamentals
<1> HIDE DEF m, result, F, prior
<1>5. prior \in Before(F, point, name)
    BY <1>2, <1>3, <1>4 DEF Before
<1>6. \E p \in Before(F, point, name) : result = Value(point.version.payload[m] - p.values[m], p.values[m])
    BY <1>2, <1>3, <1>5
<1> QED
    BY <1>6 DEF SaysOf, Growths, m, result, F

\* The versions of a series up to one of them, and the windows of the latest of them.
UpTo(S, v) == {p \in S : p.date <= v.date}

VersionsOf(points) == {[p.version EXCEPT !.payload = p.values] : p \in points}

LEMMA WindowsAre ==
    ASSUME NEW S, IsSeries(S), NEW v \in S, NEW a \in Nat, NEW b \in Nat, NEW points,
           points = {p \in Fundamentals(S) : p.version.date <= v.date},
           NEW n, n = Cardinality(points)
    PROVE  /\ n = Cardinality(UpTo(S, v)) /\ n \in Nat
           /\ VersionsOf(Slice(points, n - b, n - a)) = Recent(UpTo(S, v), a, b)
<1> DEFINE U == UpTo(S, v)
           f == [p \in U |-> [version |-> p, values |-> p.payload]]
<1>1. IsFiniteSet(U) /\ U \subseteq S
    BY FS_Subset DEF IsSeries, UpTo
<1>2. /\ \A p \in U : f[p].version = p /\ f[p].values = p.payload
      /\ f = [p \in U |-> f[p]] /\ points = {f[p] : p \in U}
  <2>1. f = [p \in U |-> f[p]] /\ \A p \in U : f[p].version = p /\ f[p].values = p.payload
      OBVIOUS
  <2>2. points = {f[p] : p \in U}
      BY DEF Fundamentals, UpTo
  <2> QED
      BY <2>1, <2>2
<1>3. \A p \in U : p \in Version /\ p.date \in Nat
    BY <1>1, VersionFields DEF IsSeries
<1>4. \A p, q \in U : p.date = q.date => p = q
    BY <1>1 DEF IsSeries
<1> HIDE DEF U, f
<1>5. ASSUME NEW T \in SUBSET U PROVE Cardinality({f[p] : p \in T}) = Cardinality(T)
  <2> DEFINE g == [p \in T |-> f[p]]
  <2>1. IsFiniteSet(T) /\ g = [p \in T |-> g[p]]
      BY <1>1, FS_Subset
  <2>2. (\A x, y \in T : g[x] = g[y] => x = y) /\ {g[p] : p \in T} = {f[p] : p \in T}
      BY <1>2
  <2> HIDE DEF g
  <2>3. Cardinality({g[p] : p \in T}) = Cardinality(T)
      BY <2>1, <2>2, ImageIsAsLarge
  <2> QED
      BY <2>2, <2>3
<1>6. n = Cardinality(U) /\ n \in Nat
    BY <1>1, <1>2, <1>5, FS_CardinalityType
<1>7. ASSUME NEW p \in U
      PROVE  f[p] \in Slice(points, n - b, n - a) <=> p \in Recent(U, a, b)
  <2> DEFINE below == {q \in U : q.date < p.date}
             above == {q \in U : q.date > p.date}
             B == {q \in points : q.version.date < f[p].version.date}
  <2>1. IsFiniteSet(below) /\ IsFiniteSet(above) /\ below \in SUBSET U
      BY <1>1, FS_Subset
  <2>2. B = {f[q] : q \in below}
      BY <1>2
  <2>3. U = (below \cup {p}) \cup above /\ p \notin below /\ below \cap {p} = {} /\ (below \cup {p}) \cap above = {}
      BY <1>3, <1>4
  <2> HIDE DEF below, above, B
  <2>4. Cardinality(B) = Cardinality(below)
      BY <1>5, <2>1, <2>2
  <2>5. Cardinality(below \cup {p}) = Cardinality(below) + 1 /\ IsFiniteSet(below \cup {p})
      BY <2>1, <2>3, FS_AddElement
  <2>6. Cardinality(U) = Cardinality(below \cup {p}) + Cardinality(above)
      BY <2>1, <2>3, <2>5, DisjointUnion
  <2>7. Cardinality(below) \in Nat /\ Cardinality(above) \in Nat
      BY <2>1, FS_CardinalityType
  <2>8. Cardinality(B) \in (n - b)..(n - a - 1) <=> Cardinality(above) \in a..(b - 1)
      BY <1>6, <2>4, <2>5, <2>6, <2>7
  <2>9. f[p] \in Slice(points, n - b, n - a) <=> Cardinality(B) \in (n - b)..(n - a - 1)
      BY <1>2 DEF Slice, B
  <2>10. p \in Recent(U, a, b) <=> Cardinality(above) \in a..(b - 1)
      BY DEF Recent, above
  <2> QED
      BY <2>8, <2>9, <2>10
<1>8. \A p \in U : [f[p].version EXCEPT !.payload = f[p].values] = p
    BY <1>2, <1>3 DEF Version
<1>9. Slice(points, n - b, n - a) \subseteq points /\ Recent(U, a, b) \subseteq U
    BY DEF Slice, Recent
<1>10. VersionsOf(Slice(points, n - b, n - a)) = Recent(U, a, b)
    BY <1>2, <1>7, <1>8, <1>9 DEF VersionsOf
<1> QED
    BY <1>6, <1>10 DEF U

\* A trailing figure sums two windows of Quarter points, side by side and up to its own.
LEMMA TrailingSays ==
    ASSUME NEW S, IsSeries(S), NEW v \in S, IsValue(ResultOf(S, v, "REVENUE_GROWTH_TTM")),
           NEW point, point.version = v
    PROVE  SaysOf(Fundamentals(S), point, "REVENUE_GROWTH_TTM", ResultOf(S, v, "REVENUE_GROWTH_TTM"))
<1> DEFINE name == "REVENUE_GROWTH_TTM"
           result == ResultOf(S, v, name)
           F == Fundamentals(S)
           points == {p \in F : p.version.date <= point.version.date}
           n == Cardinality(points)
           Sum(some) == SumOver(VersionsOf(some), "REVENUE")
           now == Recent(UpTo(S, v), 0, Quarter)
           then == Recent(UpTo(S, v), Quarter, 2 * Quarter)
<1>1. name \in DOMAIN Specs /\ result = Trailing(v, Earlier(S, v), "REVENUE")
  <2>1. name \in DOMAIN Specs
      BY MetricsAre
  <2> QED
      BY <2>1, ResultIs, FormulasAre
<1>2. {p \in Earlier(S, v) : p.type = v.type} \cup {v} = UpTo(S, v)
  <2>1. \A p \in S : p.type = v.type /\ p.date \in Nat /\ (p.date = v.date => p = v)
      BY VersionFields DEF IsSeries
  <2> QED
      BY <2>1 DEF Earlier, UpTo
<1>3. result # Missing
    BY ResultsAre
<1>4. /\ Cardinality(UpTo(S, v)) >= 2 * Quarter
      /\ result = Divide(SumOver(now, "REVENUE") - SumOver(then, "REVENUE"), SumOver(then, "REVENUE"))
  <2> HIDE DEF result
  <2>1. Trailing(v, Earlier(S, v), "REVENUE") =
          IF Cardinality(UpTo(S, v)) < 2 * Quarter THEN Missing
          ELSE IF \E p \in now \cup then : ~Has(p, "REVENUE") THEN Missing
          ELSE Divide(SumOver(now, "REVENUE") - SumOver(then, "REVENUE"), SumOver(then, "REVENUE"))
      BY <1>2 DEF Trailing
  <2> HIDE DEF now, then
  <2>2. /\ ~(Cardinality(UpTo(S, v)) < 2 * Quarter)
        /\ result = Divide(SumOver(now, "REVENUE") - SumOver(then, "REVENUE"), SumOver(then, "REVENUE"))
      BY <1>1, <1>3, <2>1
  <2>3. Cardinality(UpTo(S, v)) \in Nat /\ Quarter \in Nat
      BY FS_Subset, FS_CardinalityType, QuarterAssumption DEF IsSeries, UpTo
  <2> QED
      BY <2>2, <2>3
<1>5. result.den = SumOver(then, "REVENUE") /\ result.num = SumOver(now, "REVENUE") - SumOver(then, "REVENUE")
  <2> HIDE DEF result, now, then
  <2>1. IsValue(result)
      BY DEF result
  <2> QED
      BY <1>4, <2>1, ResultsAre
<1>6. /\ n = Cardinality(UpTo(S, v)) /\ n \in Nat
      /\ Sum(Slice(points, n - Quarter, n)) = SumOver(now, "REVENUE")
      /\ Sum(Slice(points, n - 2 * Quarter, n - Quarter)) = SumOver(then, "REVENUE")
  <2>1. points = {p \in Fundamentals(S) : p.version.date <= v.date}
      OBVIOUS
  <2>2. Quarter \in Nat /\ 2 * Quarter \in Nat /\ 0 \in Nat
      BY QuarterAssumption
  <2> HIDE DEF points
  <2>3. n = Cardinality(points)
      OBVIOUS
  <2> HIDE DEF n
  <2>4. /\ n = Cardinality(UpTo(S, v)) /\ n \in Nat
        /\ VersionsOf(Slice(points, n - Quarter, n - 0)) = Recent(UpTo(S, v), 0, Quarter)
        /\ VersionsOf(Slice(points, n - 2 * Quarter, n - Quarter)) = Recent(UpTo(S, v), Quarter, 2 * Quarter)
      BY <2>1, <2>2, <2>3, WindowsAre
  <2>5. n - 0 = n
      BY <2>4
  <2> QED
      BY <2>4, <2>5
<1>7. Specs[name].inputs = {"REVENUE"}
    BY SpecsAre
<1>8. (CHOOSE m \in Specs[name].inputs : TRUE) = "REVENUE"
    BY <1>7
<1>9. /\ n >= 2 * Quarter
      /\ result.den = Sum(Slice(points, n - 2 * Quarter, n - Quarter))
      /\ result.num = Sum(Slice(points, n - Quarter, n)) - result.den
  <2> HIDE DEF n, Sum, points, result, now, then
  <2> QED
      BY <1>4, <1>5, <1>6
<1> HIDE DEF result, F, now, then
<1> QED
    BY <1>8, <1>9 DEF SaysOf, VersionsOf, result, F

\* The figures that reports give are numbers.
LEMMA FiguresAreNumbers ==
    ASSUME NEW S, IsSeries(S), NEW v \in S
    PROVE  \A m \in DOMAIN v.payload : v.payload[m] \in Int
<1>1. v.payload \in Payloads
    BY VersionFields DEF IsSeries, Normalized
<1>2. PICK type \in Types : v.payload \in PayloadsOf[type]
    BY <1>1 DEF Payloads
<1>3. v.payload \in [DOMAIN v.payload -> Int]
    BY <1>2, VersionsAssumption
<1> QED
    BY <1>3

\* The value that a point has for a metric.
LEMMA OfPoint ==
    ASSUME NEW S, NEW point, NEW v, point = Point(S, v, DOMAIN Specs), NEW other \in DOMAIN Specs
    PROVE  /\ other \in {x[1] : x \in point.values} <=> IsValue(ResultOf(S, v, other))
           /\ IsValue(ResultOf(S, v, other)) =>
                (CHOOSE q \in {x[2] : x \in {y \in point.values : y[1] = other}} : TRUE) = ResultOf(S, v, other)
<1>1. \A r : r \in point.values <=>
                \E name \in DOMAIN Specs : r = <<name, ResultOf(S, v, name)>> /\ IsValue(ResultOf(S, v, name))
    BY PointIs
<1> DEFINE r == <<other, ResultOf(S, v, other)>>
<1>2. \A y \in point.values : y[1] = other => y = r /\ IsValue(ResultOf(S, v, other))
  <2>1. ASSUME NEW y \in point.values, y[1] = other
        PROVE  y = r /\ IsValue(ResultOf(S, v, other))
    <3>1. PICK name \in DOMAIN Specs : y = <<name, ResultOf(S, v, name)>> /\ IsValue(ResultOf(S, v, name))
        BY <1>1, <2>1
    <3>2. name = other
        BY <2>1, <3>1
    <3> QED
        BY <3>1, <3>2
  <2> QED
      BY <2>1
<1>3. /\ IsValue(ResultOf(S, v, other)) => r \in point.values
      /\ r[1] = other /\ r[2] = ResultOf(S, v, other)
    BY <1>1
<1> HIDE DEF r
<1>4. other \in {x[1] : x \in point.values} <=> IsValue(ResultOf(S, v, other))
    BY <1>2, <1>3
<1>5. ASSUME IsValue(ResultOf(S, v, other))
      PROVE  {x[2] : x \in {y \in point.values : y[1] = other}} = {ResultOf(S, v, other)}
    BY <1>2, <1>3, <1>5
<1>6. ASSUME IsValue(ResultOf(S, v, other))
      PROVE  (CHOOSE q \in {x[2] : x \in {y \in point.values : y[1] = other}} : TRUE) = ResultOf(S, v, other)
    BY <1>5, <1>6
<1> QED
    BY <1>4, <1>6

\* Return on capital and the free cash flow of a point are made of the same profit.
LEMMA ProfitSays ==
    ASSUME NEW S, IsSeries(S), NEW v \in S, IsValue(ResultOf(S, v, "ROIC")),
           IsValue(ResultOf(S, v, "UNLEVERED_FREE_CASH_FLOW"))
    PROVE  ResultOf(S, v, "ROIC").num =
             ResultOf(S, v, "UNLEVERED_FREE_CASH_FLOW").num
               - (v.payload.DA + v.payload.CAPEX) * ResultOf(S, v, "UNLEVERED_FREE_CASH_FLOW").den
<1> DEFINE r == ResultOf(S, v, "ROIC")
           free == ResultOf(S, v, "UNLEVERED_FREE_CASH_FLOW")
<1>1. "ROIC" \in DOMAIN Specs /\ "UNLEVERED_FREE_CASH_FLOW" \in DOMAIN Specs
    BY MetricsAre DEF Others
<1>2. r = ReturnOnCapital(v) /\ free = Unlevered(v)
    BY <1>1, ResultIs, FormulasAre
<1>3. /\ {"INCOME_BEFORE_TAX", "INCOME_TAX_EXPENSE", "DA", "CAPEX"} \subseteq DOMAIN v.payload
      /\ {"INTEREST_INCOME", "INTEREST_EXPENSE"} \subseteq DOMAIN v.payload
  <2>1. /\ Specs["ROIC"].inputs \subseteq DOMAIN v.payload
        /\ Specs["UNLEVERED_FREE_CASH_FLOW"].inputs \subseteq DOMAIN v.payload
      BY <1>1, ResultIs
  <2>2. {"INTEREST_INCOME", "INTEREST_EXPENSE"} \subseteq Specs["ROIC"].inputs
      BY DEF Specs, OfReturn, Spec3
  <2>3. {"INCOME_BEFORE_TAX", "INCOME_TAX_EXPENSE", "DA", "CAPEX"} \subseteq Specs["UNLEVERED_FREE_CASH_FLOW"].inputs
      BY DEF Specs, OfIncome, Spec3
  <2> QED
      BY <2>1, <2>2, <2>3
<1> DEFINE income == v.payload.INCOME_BEFORE_TAX
           profit == NopatTimesIncome(v)
           spent == v.payload.DA + v.payload.CAPEX
<1>4. income \in Int /\ profit \in Int /\ spent \in Int
  <2>1. /\ income \in Int /\ v.payload.INCOME_TAX_EXPENSE \in Int /\ v.payload.DA \in Int
        /\ v.payload.CAPEX \in Int /\ v.payload.INTEREST_INCOME \in Int /\ v.payload.INTEREST_EXPENSE \in Int
      BY <1>3, FiguresAreNumbers
  <2> QED
      BY <2>1 DEF NopatTimesIncome, Ebit
<1>5. IsValue(r) /\ IsValue(free) /\ free # Missing
    BY ResultsAre
<1> HIDE DEF r, free
<1>6. r.num = profit
    BY <1>2, <1>5, ResultsAre DEF ReturnOnCapital
<1>7. free.num = profit + spent * income /\ free.den = income
  <2>1. free = Divide(profit + spent * income, income)
      BY <1>2, <1>5 DEF Unlevered
  <2> HIDE DEF profit, spent, income
  <2> QED
      BY <1>5, <2>1, ResultsAre
<1>8. r.num = free.num - spent * free.den
  <2> HIDE DEF profit, spent, income
  <2>1. spent * income \in Int
      BY <1>4
  <2> DEFINE s == spent * income
  <2>2. profit = (profit + s) - s
    <3> HIDE DEF s
    <3> QED
        BY <1>4, <2>1 DEF s
  <2> QED
      BY <1>6, <1>7, <2>2
<1> QED
    BY <1>8 DEF r, free

\* Interest coverage divides the operating figure of the same point.
LEMMA CoverageSays ==
    ASSUME NEW S, NEW v, IsValue(ResultOf(S, v, "INTEREST_COVERAGE"))
    PROVE  /\ IsValue(ResultOf(S, v, "EBIT"))
           /\ ResultOf(S, v, "INTEREST_COVERAGE").num = ResultOf(S, v, "EBIT").num
<1>1. "INTEREST_COVERAGE" \in DOMAIN Specs /\ "EBIT" \in DOMAIN Specs
    BY MetricsAre DEF Others
<1>2. Specs["EBIT"] = Specs["INTEREST_COVERAGE"]
    BY DEF Specs
<1>3. ResultOf(S, v, "INTEREST_COVERAGE") # Missing
    BY ResultsAre
<1>4. ResultOf(S, v, "EBIT") = Formula("EBIT", v, Earlier(S, v))
    BY <1>2, <1>3 DEF ResultOf, ComputeMetric
<1>5. ResultOf(S, v, "EBIT") = Value(Ebit(v), 1)
    BY <1>4, FormulasAre
<1>6. ResultOf(S, v, "INTEREST_COVERAGE") = Divide(Ebit(v), v.payload.INTEREST_EXPENSE)
    BY <1>1, ResultIs, FormulasAre
<1> QED
    BY <1>5, <1>6, ResultsAre

\* A figure of a point says of the others, and of the fundamentals, what it should.
LEMMA FiguresSay ==
    ASSUME NEW S, IsSeries(S), NEW point \in Points(S), NEW x \in point.values
    PROVE  x[2].den # 0 /\ SaysOf(Fundamentals(S), point, x[1], x[2])
<1> DEFINE v == point.version
<1>0. v \in S /\ point = Point(S, v, DOMAIN Specs)
    BY PointsAre
<1> HIDE DEF v
<1>1. PICK name \in DOMAIN Specs : x = <<name, ResultOf(S, v, name)>> /\ IsValue(ResultOf(S, v, name))
    BY <1>0, PointIs
<1> DEFINE r == ResultOf(S, v, name)
<1>2. x[1] = name /\ x[2] = r /\ IsValue(r)
    BY <1>1
<1>3. r.den # 0
    BY <1>1, ResultIs, FormulasDivide
<1>4. point.version = v
    BY DEF v
<1>5. SaysOf(Fundamentals(S), point, name, r)
  <2>1. CASE name \in Growths
      BY <1>0, <1>1, <1>4, <2>1, GrowthSays
  <2>2. CASE name = "REVENUE_GROWTH_TTM"
      BY <1>0, <1>1, <1>4, <2>2, TrailingSays
  <2>3. CASE name = "ROIC"
    <3> DEFINE free == "UNLEVERED_FREE_CASH_FLOW"
    <3>1. free \in DOMAIN Specs
        BY MetricsAre
    <3>2. free \in {y[1] : y \in point.values} <=> IsValue(ResultOf(S, v, free))
        BY <1>0, <3>1, OfPoint
    <3>3. CASE IsValue(ResultOf(S, v, free))
      <4>1. (CHOOSE q \in {z[2] : z \in {y \in point.values : y[1] = free}} : TRUE) = ResultOf(S, v, free)
          BY <1>0, <3>1, <3>3, OfPoint
      <4>2. r.num = ResultOf(S, v, free).num - (v.payload.DA + v.payload.CAPEX) * ResultOf(S, v, free).den
          BY <1>0, <1>1, <2>3, <3>3, ProfitSays
      <4> HIDE DEF r
      <4> QED
          BY <1>4, <2>3, <4>1, <4>2 DEF SaysOf
    <3>4. CASE ~IsValue(ResultOf(S, v, free))
      <4> HIDE DEF r
      <4> QED
          BY <2>3, <3>2, <3>4 DEF SaysOf
    <3> QED
        BY <3>3, <3>4
  <2>4. CASE name = "INTEREST_COVERAGE"
    <3> DEFINE ebit == "EBIT"
    <3>1. ebit \in DOMAIN Specs
        BY MetricsAre DEF Others
    <3>2. IsValue(ResultOf(S, v, ebit)) /\ r.num = ResultOf(S, v, ebit).num
        BY <1>1, <2>4, CoverageSays
    <3>3. /\ ebit \in {y[1] : y \in point.values}
          /\ (CHOOSE q \in {z[2] : z \in {y \in point.values : y[1] = ebit}} : TRUE) = ResultOf(S, v, ebit)
        BY <1>0, <3>1, <3>2, OfPoint
    <3> HIDE DEF r
    <3> QED
        BY <2>4, <3>2, <3>3 DEF SaysOf
  <2>5. CASE name \notin Growths \cup {"REVENUE_GROWTH_TTM", "ROIC", "INTEREST_COVERAGE"}
    <3> HIDE DEF r
    <3> QED
        BY <2>5 DEF SaysOf, Growths
  <2> QED
      BY <2>1, <2>2, <2>3, <2>4, <2>5
<1> QED
    BY <1>2, <1>3, <1>5

LEMMA SeriesAlwaysAgree ==
    ASSUME NEW S, IsSeries(S)
    PROVE  SeriesAgree(S)
<1> DEFINE whole == EdgarSeriesRoute(S, None)
           points == Points(S)
<1>1. \A view \in ViewsRoute.body :
         /\ view.metrics \subseteq DOMAIN CatalogRoute.body
         /\ ViewRoute(S, view.code, None) = whole
    BY BundleIsWhole
<1>2. whole.body = points /\ whole.body = PointsOf(S, DOMAIN Specs)
    BY AnswersAre DEF EdgarSeriesRoute, EdgarPoints, Points
<1>3. DOMAIN CatalogRoute.body = DOMAIN Specs
  <2>1. CatalogRoute.body = Catalog
      BY AnswersAre DEF CatalogRoute
  <2> QED
      BY <2>1 DEF Catalog
<1>4. ASSUME NEW name \in DOMAIN Specs
      PROVE  /\ EdgarSeriesRoute(S, {name}).body = PointsOf(S, {name})
             /\ DatedOf(S, {name}, name) = DatedOf(S, DOMAIN Specs, name)
  <2>1. {name} # None
      BY FiguresAssumption
  <2>2. EdgarSeriesRoute(S, {name}).body = PointsOf(S, {name})
      BY <2>1, AnswersAre DEF EdgarSeriesRoute, EdgarPoints
  <2>3. name \in {name}
      OBVIOUS
  <2>4. DatedOf(S, {name}, name) = {<<v, ResultOf(S, v, name)>> : v \in {v \in S : IsValue(ResultOf(S, v, name))}}
      BY <2>3, DatedIs
  <2>5. DatedOf(S, DOMAIN Specs, name) = {<<v, ResultOf(S, v, name)>> : v \in {v \in S : IsValue(ResultOf(S, v, name))}}
      BY DatedIs
  <2> QED
      BY <2>2, <2>4, <2>5
<1>5. \A name \in DOMAIN CatalogRoute.body :
         UNION {{<<p.version, r[2]>> : r \in {r \in p.values : r[1] = name}} : p \in EdgarSeriesRoute(S, {name}).body}
           = UNION {{<<p.version, r[2]>> : r \in {r \in p.values : r[1] = name}} : p \in whole.body}
  <2> HIDE DEF whole, points
  <2> QED
      BY <1>2, <1>3, <1>4 DEF DatedOf
<1>6. \A point \in points : \A x \in point.values :
         x[2].den # 0 /\ SaysOf(Fundamentals(S), point, x[1], x[2])
    BY FiguresSay
<1>7. SpecsSuffice(S)
    BY SpecsAlwaysSuffice
<1>8. ASSUME NEW size \in 1..2
      PROVE  /\ UNION {Page(points, n, size) : n \in 1..Cardinality(points)} = points
             /\ \A n \in 1..Cardinality(points) : Cardinality(Page(points, n, size)) <= size
  <2>1. /\ IsFiniteSet(points) /\ \A p \in points : p.version.date \in Nat
        /\ \A p, q \in points : p.version.date = q.version.date => p = q
      BY PointsAre
  <2> HIDE DEF points
  <2> QED
      BY <2>1, PagesAre
<1>9. \A size \in 1..2 :
         LET pages == {Page(points, n, size) : n \in 1..Cardinality(points)}
         IN  /\ UNION pages = whole.body
             /\ \A page \in pages : Cardinality(page) <= size
  <2> HIDE DEF whole, points
  <2> QED
      BY <1>2, <1>8
<1> HIDE DEF whole, points
<1> QED
    BY <1>1, <1>5, <1>6, <1>7, <1>9 DEF SeriesAgree, whole, points

-----------------------------------------------------------------------------
(* All of them.                                                            *)

\* The routes of a listing, the views of its restatements and the derived series say
\* the same of what is stored: edgar_router and fundamentals_router over
\* EdgarController and their presenters, and DerivedMetricsEngine.
THEOREM RoutesAlwaysTellTheSame == Spec => []RoutesTellTheSame
<1>1. IInv => RoutesTellTheSame
  <2>1. ASSUME IInv, NEW type \in Types, NEW year \in Years, NEW list \in Listings(versions, type, year)
        PROVE  ViewsAgree(list) /\ RoutesAgree(list)
    <3>1. IsListing(list)
        BY <2>1, ListingsAre
    <3> QED
        BY <3>1, ViewsAlwaysAgree, RoutesAlwaysAgree
  <2>2. ASSUME IInv, NEW type \in Types
        PROVE  SeriesAgree(NewestByDate({v \in versions : v.type = type}))
    <3> DEFINE S == NewestByDate({v \in versions : v.type = type})
    <3>1. IsSeries(S)
        BY <2>2, NewestAreSeries
    <3> HIDE DEF S
    <3>2. SeriesAgree(S)
        BY <3>1, SeriesAlwaysAgree
    <3> QED
        BY <3>2 DEF S
  <2> QED
      BY <2>1, <2>2 DEF RoutesTellTheSame
<1> QED
    BY <1>1, Always, PTL
=============================================================================
