--------------------------- MODULE NearestProofs ---------------------------
(***************************************************************************)
(* Proof that the candidates the projector accepts are the projections of  *)
(* their proposals.  The first half is about sums over a finite set, which *)
(* Geometry writes with MapThenSumSet; the second is the argument itself:  *)
(* a point that lies on its active rows, reached along them by multipliers *)
(* that are not negative, is no farther than any other feasible point.  At *)
(* the end, what Geometry's certificates and solutions give of the rest.   *)
(***************************************************************************)
EXTENDS Nearest, ProjectorProofs

-----------------------------------------------------------------------------
\* Sums.

\* The element that a sum over T takes first.
Pick(T) == CHOOSE x \in T : TRUE

LEMMA PickFacts ==
  ASSUME NEW T, T # {}
  PROVE  Pick(T) \in T
BY DEF Pick

\* h holds the sums of g over the subsets of S.
Sums(h, S, g) ==
    h = [T \in SUBSET S |-> IF T = {} THEN 0 ELSE g[Pick(T)] + h[T \ {Pick(T)}]]

\* A fact about subsets that passes from a set without its first element to the set
\* holds of all of them.
LEMMA SubsetInduction ==
  ASSUME NEW S, IsFiniteSet(S), NEW K, {} \in K,
         \A T \in SUBSET S : T # {} /\ T \ {Pick(T)} \in K => T \in K
  PROVE  SUBSET S \subseteq K
<1> DEFINE Bad   == {T \in SUBSET S : T \notin K}
           Sizes == {Cardinality(T) : T \in Bad}
<1>1. SUFFICES ASSUME Bad # {} PROVE FALSE
  OBVIOUS
<1>2. \A T \in SUBSET S : IsFiniteSet(T) /\ Cardinality(T) \in Nat
  BY FS_Subset, FS_CardinalityType
<1>3. Sizes \subseteq Nat /\ Sizes # {}
  BY <1>1, <1>2
<1>4. PICK n \in Sizes : \A m \in Sizes : n <= m
  BY <1>3, LeastNatural
<1>5. PICK T \in Bad : Cardinality(T) = n
  BY <1>4
<1>6. T # {} /\ Pick(T) \in T
  BY <1>5, PickFacts
<1>7. Cardinality(T \ {Pick(T)}) = Cardinality(T) - 1
  BY <1>2, <1>5, <1>6, FS_RemoveElement
<1>8. T \ {Pick(T)} \in SUBSET S
  BY <1>5
<1>9. T \ {Pick(T)} \notin Bad
  <2>1. n \in Nat /\ ~(n <= n - 1)
    BY <1>3
  <2>2. n - 1 \notin Sizes
    BY <1>4, <2>1
  <2> QED
    BY <1>5, <1>7, <2>2
<1> QED
  BY <1>5, <1>6, <1>8, <1>9

LEMMA SumsTyped ==
  ASSUME NEW S, IsFiniteSet(S), NEW g \in [S -> Int], NEW h, Sums(h, S, g)
  PROVE  /\ h \in [SUBSET S -> Int]
         /\ h[{}] = 0
         /\ \A T \in SUBSET S : T # {} =>
               /\ Pick(T) \in T /\ T \ {Pick(T)} \in SUBSET S
               /\ h[T] = g[Pick(T)] + h[T \ {Pick(T)}]
<1> DEFINE K == {T \in SUBSET S : h[T] \in Int}
<1>1. h[{}] = 0
  BY DEF Sums
<1>2. ASSUME NEW T \in SUBSET S, T # {}
      PROVE  /\ Pick(T) \in T /\ T \ {Pick(T)} \in SUBSET S
             /\ h[T] = g[Pick(T)] + h[T \ {Pick(T)}]
  BY <1>2, PickFacts DEF Sums
<1>3. SUBSET S \subseteq K
  <2>1. {} \in K
    BY <1>1
  <2>2. ASSUME NEW T \in SUBSET S, T # {}, T \ {Pick(T)} \in K PROVE T \in K
    BY <1>2, <2>2
  <2> HIDE DEF K
  <2> QED
    BY <2>1, <2>2, SubsetInduction
<1>4. h = [T \in SUBSET S |-> h[T]]
  BY DEF Sums
<1> QED
  BY <1>1, <1>2, <1>3, <1>4

LEMMA SumInteger ==
  ASSUME NEW S, IsFiniteSet(S), NEW g \in [S -> Int], NEW h, Sums(h, S, g), NEW T, T \subseteq S
  PROVE  h[T] \in Int
<1>1. h \in [SUBSET S -> Int]
  BY SumsTyped
<1> QED
  BY <1>1

LEMMA SumOfNone ==
  ASSUME NEW S, NEW g, NEW h, Sums(h, S, g)
  PROVE  h[{}] = 0
BY DEF Sums

\* One step of the recursion.
Splits(h, g, T, x, U) == h[T] = g[x] + h[U] /\ g[x] \in Int /\ h[U] \in Int

LEMMA SumStep ==
  ASSUME NEW S, IsFiniteSet(S), NEW g \in [S -> Int], NEW h, Sums(h, S, g),
         NEW T, T \subseteq S, T # {}, NEW x, x = Pick(T), NEW U, U = T \ {x}
  PROVE  Splits(h, g, T, x, U)
<1>1. x \in S /\ U \subseteq S
  BY PickFacts
<1>2. h[U] \in Int
  BY <1>1, SumInteger, Zenon
<1>3. g[x] \in Int
  BY <1>1
<1>4. h[T] = g[x] + h[U]
  BY DEF Sums
<1> QED
  BY <1>2, <1>3, <1>4 DEF Splits

\* The recursion of a sum has a value: up to each size by induction on the size.
LEMMA SumsExist ==
  ASSUME NEW S, IsFiniteSet(S), NEW g \in [S -> Int]
  PROVE  \E h : Sums(h, S, g)
<1> DEFINE Small(n) == {T \in SUBSET S : Cardinality(T) <= n}
           Upto(h, n) == \A T \in Small(n) :
                h[T] = IF T = {} THEN 0 ELSE g[Pick(T)] + h[T \ {Pick(T)}]
           N == Cardinality(S)
           K == {n \in 0 .. N : \E h \in [SUBSET S -> Int] : Upto(h, n)}
<1>1. \A T \in SUBSET S : IsFiniteSet(T) /\ Cardinality(T) \in Nat /\ Cardinality(T) <= N
  BY FS_Subset, FS_CardinalityType
<1>2. N \in Nat
  BY FS_CardinalityType
<1>3. \A T \in SUBSET S : T # {} =>
         /\ Pick(T) \in T /\ Pick(T) \in S /\ T \ {Pick(T)} \in SUBSET S
         /\ Cardinality(T \ {Pick(T)}) = Cardinality(T) - 1
  BY <1>1, PickFacts, FS_RemoveElement
<1> HIDE DEF N
<1>4. 0 \in K
  <2>1. \A T \in Small(0) : T = {}
    BY <1>1, FS_EmptySet
  <2>2. Upto([T \in SUBSET S |-> 0], 0)
    BY <2>1
  <2>3. [T \in SUBSET S |-> 0] \in [SUBSET S -> Int] /\ 0 \in 0 .. N
    BY <1>2
  <2> HIDE DEF Upto
  <2> QED
    BY <2>2, <2>3
<1>5. ASSUME NEW n \in 1 .. N, n - 1 \in K PROVE n \in K
  <2>1. PICK h \in [SUBSET S -> Int] : Upto(h, n - 1)
    BY <1>5
  <2> DEFINE k == [T \in SUBSET S |-> IF T = {} THEN 0 ELSE g[Pick(T)] + h[T \ {Pick(T)}]]
  <2>2. k \in [SUBSET S -> Int]
    <3>1. \A T \in SUBSET S : T # {} => g[Pick(T)] \in Int /\ h[T \ {Pick(T)}] \in Int
      BY <1>3
    <3> QED
      BY <3>1
  <2>3. \A T \in Small(n - 1) : k[T] = h[T]
    BY <2>1
  <2>4. ASSUME NEW T \in Small(n), T # {} PROVE k[T \ {Pick(T)}] = h[T \ {Pick(T)}]
    <3>1. T \ {Pick(T)} \in Small(n - 1)
      BY <1>1, <1>2, <1>3, <2>4
    <3> QED
      BY <2>3, <3>1
  <2>5. Upto(k, n)
    BY <2>4
  <2> HIDE DEF Upto, k
  <2> QED
    BY <2>2, <2>5
<1> HIDE DEF K
<1>6. N \in K
  <2>1. 0 .. N \subseteq K
    <3>1. \A n \in 1 .. N : n - 1 \in K => n \in K
      BY <1>5
    <3> QED
      BY <1>2, <1>4, <3>1, RangeInduction
  <2> QED
    BY <1>2, <2>1
<1>7. PICK h \in [SUBSET S -> Int] : Upto(h, N)
  BY <1>6 DEF K
<1>8. Small(N) = SUBSET S
  BY <1>1
<1>9. Sums(h, S, g)
  BY <1>7, <1>8 DEF Sums
<1> QED
  BY <1>9

\* Sums respect the order of their summands.
LEMMA SumsOrdered ==
  ASSUME NEW S, IsFiniteSet(S), NEW a \in [S -> Int], NEW b \in [S -> Int],
         \A s \in S : a[s] <= b[s],
         NEW ha, Sums(ha, S, a), NEW hb, Sums(hb, S, b)
  PROVE  ha[S] <= hb[S]
<1> DEFINE K == {T \in SUBSET S : ha[T] <= hb[T]}
<1>1. {} \in K
  <2>1. ha[{}] = 0 /\ hb[{}] = 0
    BY SumOfNone, Zenon
  <2> QED
    BY <2>1
<1>2. ASSUME NEW T \in SUBSET S, T # {}, T \ {Pick(T)} \in K PROVE T \in K
  <2> DEFINE x == Pick(T)
             U == T \ {Pick(T)}
  <2>0. T \subseteq S /\ T # {} /\ x = Pick(T) /\ U = T \ {x}
    BY <1>2
  <2>1. x \in S /\ U \in SUBSET S
    BY <1>2, PickFacts
  <2>2. /\ ha[T] = a[x] + ha[U] /\ a[x] \in Int /\ ha[U] \in Int
        /\ hb[T] = b[x] + hb[U] /\ b[x] \in Int /\ hb[U] \in Int
    <3> HIDE DEF x, U
    <3>1. Splits(ha, a, T, x, U) /\ Splits(hb, b, T, x, U)
      BY <2>0, SumStep, Zenon
    <3> QED
      BY <3>1 DEF Splits
  <2>3. a[x] \in Int /\ b[x] \in Int /\ a[x] <= b[x] /\ ha[U] <= hb[U]
    BY <1>2, <2>1
  <2> QED
    BY <1>2, <2>2, <2>3
<1> HIDE DEF K
<1>3. S \in K
  BY <1>1, <1>2, SubsetInduction
<1> QED
  BY <1>3 DEF K

\* The sum of a function over its domain.
Total(S, g) == (CHOOSE h : Sums(h, S, g))[S]

LEMMA TotalIsSum ==
  ASSUME NEW S, IsFiniteSet(S), NEW g \in [S -> Int], NEW h, Sums(h, S, g)
  PROVE  h[S] = Total(S, g) /\ Total(S, g) \in Int
<1> DEFINE t == CHOOSE x : Sums(x, S, g)
<1>1. Sums(t, S, g)
  BY SumsExist
<1>2. Total(S, g) = t[S]
  BY DEF Total
<1> HIDE DEF t
<1>3. \A s \in S : g[s] <= g[s]
  OBVIOUS
<1>4. h[S] <= t[S] /\ t[S] <= h[S]
  BY <1>1, <1>3, SumsOrdered
<1>5. h[S] \in Int /\ t[S] \in Int
  <2>1. S \in SUBSET S
    OBVIOUS
  <2> QED
    BY <1>1, <2>1, SumInteger, Zenon
<1> QED
  BY <1>2, <1>4, <1>5

\* Totals respect linear combinations, and the order of their summands.
LEMMA TotalLinear ==
  ASSUME NEW S, IsFiniteSet(S), NEW a \in [S -> Int], NEW b \in [S -> Int], NEW c \in [S -> Int],
         NEW k \in Int, \A s \in S : c[s] = k * a[s] + b[s]
  PROVE  Total(S, c) = k * Total(S, a) + Total(S, b)
<1>1. PICK ha : Sums(ha, S, a)
  BY SumsExist
<1>2. PICK hb : Sums(hb, S, b)
  BY SumsExist
<1>3. PICK hc : Sums(hc, S, c)
  BY SumsExist
<1> DEFINE K == {T \in SUBSET S : hc[T] = k * ha[T] + hb[T]}
<1>4. {} \in K
  <2>1. ha[{}] = 0 /\ hb[{}] = 0 /\ hc[{}] = 0
    BY <1>1, <1>2, <1>3, SumOfNone, Zenon
  <2> QED
    BY <2>1
<1>5. ASSUME NEW T \in SUBSET S, T # {}, T \ {Pick(T)} \in K PROVE T \in K
  <2> DEFINE x == Pick(T)
             U == T \ {Pick(T)}
  <2>0. T \subseteq S /\ T # {} /\ x = Pick(T) /\ U = T \ {x}
    BY <1>5
  <2>1. x \in S /\ U \in SUBSET S
    BY <1>5, PickFacts
  <2>2. /\ ha[T] = a[x] + ha[U] /\ a[x] \in Int /\ ha[U] \in Int
        /\ hb[T] = b[x] + hb[U] /\ b[x] \in Int /\ hb[U] \in Int
        /\ hc[T] = c[x] + hc[U] /\ c[x] \in Int /\ hc[U] \in Int
    <3> HIDE DEF x, U
    <3>1. Splits(ha, a, T, x, U) /\ Splits(hb, b, T, x, U) /\ Splits(hc, c, T, x, U)
      BY <1>1, <1>2, <1>3, <2>0, SumStep, Zenon
    <3> QED
      BY <3>1 DEF Splits
  <2>3. c[x] = k * a[x] + b[x] /\ hc[U] = k * ha[U] + hb[U]
    BY <1>5, <2>1
  <2>4. a[x] \in Int /\ b[x] \in Int
    BY <2>1
  <2> HIDE DEF x, U
  <2>5. \A u, v, w, z \in Int : k * (u + v) + (w + z) = (k * u + w) + (k * v + z)
    OBVIOUS
  <2>6. hc[T] = (k * a[x] + b[x]) + (k * ha[U] + hb[U])
    BY <2>2, <2>3
  <2>7. hc[T] = k * ha[T] + hb[T]
    BY <2>2, <2>5, <2>6
  <2> QED
    BY <1>5, <2>7
<1> HIDE DEF K
<1>6. S \in K
  BY <1>4, <1>5, SubsetInduction
<1>7. ha[S] = Total(S, a) /\ hb[S] = Total(S, b) /\ hc[S] = Total(S, c)
  BY <1>1, <1>2, <1>3, TotalIsSum
<1> QED
  BY <1>6, <1>7 DEF K

LEMMA TotalOrdered ==
  ASSUME NEW S, IsFiniteSet(S), NEW a \in [S -> Int], NEW b \in [S -> Int],
         \A s \in S : a[s] <= b[s]
  PROVE  Total(S, a) <= Total(S, b)
<1>1. PICK ha : Sums(ha, S, a)
  BY SumsExist
<1>2. PICK hb : Sums(hb, S, b)
  BY SumsExist
<1>3. ha[S] <= hb[S]
  BY <1>1, <1>2, SumsOrdered
<1> QED
  BY <1>1, <1>2, <1>3, TotalIsSum

LEMMA TotalTyped ==
  ASSUME NEW S, IsFiniteSet(S), NEW a \in [S -> Int]
  PROVE  Total(S, a) \in Int
BY SumsExist, TotalIsSum

LEMMA TotalZero ==
  ASSUME NEW S, IsFiniteSet(S), NEW a \in [S -> Int], \A s \in S : a[s] = 0
  PROVE  Total(S, a) = 0
<1>1. \A s \in S : a[s] = 1 * a[s] + a[s]
  OBVIOUS
<1>2. Total(S, a) = 1 * Total(S, a) + Total(S, a)
  BY <1>1, TotalLinear
<1> QED
  BY <1>2, TotalTyped

LEMMA TotalScaled ==
  ASSUME NEW S, IsFiniteSet(S), NEW a \in [S -> Int], NEW c \in [S -> Int],
         NEW k \in Int, \A s \in S : c[s] = k * a[s]
  PROVE  Total(S, c) = k * Total(S, a)
<1> DEFINE z == [s \in S |-> 0]
<1>1. z \in [S -> Int] /\ \A s \in S : z[s] = 0
  OBVIOUS
<1> HIDE DEF z
<1>2. \A s \in S : c[s] = k * a[s] + z[s]
  <2>1. ASSUME NEW s \in S PROVE c[s] = k * a[s] + z[s]
    <3>1. c[s] = k * a[s] /\ c[s] \in Int /\ z[s] = 0
      BY <1>1
    <3> QED
      BY <3>1
  <2> QED
    BY <2>1
<1>3. Total(S, c) = k * Total(S, a) + Total(S, z)
  BY <1>1, <1>2, TotalLinear
<1>4. Total(S, z) = 0
  BY <1>1, TotalZero
<1>5. k * Total(S, a) \in Int
  BY TotalTyped
<1> QED
  BY <1>3, <1>4, <1>5

LEMMA TotalNonnegative ==
  ASSUME NEW S, IsFiniteSet(S), NEW a \in [S -> Int], \A s \in S : 0 <= a[s]
  PROVE  0 <= Total(S, a)
<1> DEFINE z == [s \in S |-> 0]
<1>1. z \in [S -> Int] /\ (\A s \in S : z[s] = 0) /\ \A s \in S : z[s] <= a[s]
  OBVIOUS
<1> HIDE DEF z
<1>2. Total(S, z) <= Total(S, a) /\ Total(S, z) = 0
  BY <1>1, TotalOrdered, TotalZero
<1> QED
  BY <1>2

LEMMA TotalAdds ==
  ASSUME NEW S, IsFiniteSet(S), NEW a \in [S -> Int], NEW b \in [S -> Int], NEW c \in [S -> Int],
         \A s \in S : c[s] = a[s] + b[s]
  PROVE  Total(S, c) = Total(S, a) + Total(S, b)
<1>1. \A s \in S : c[s] = 1 * a[s] + b[s]
  OBVIOUS
<1>2. Total(S, c) = 1 * Total(S, a) + Total(S, b)
  BY <1>1, TotalLinear
<1> QED
  BY <1>2, TotalTyped

\* A sum with one summand.
LEMMA TotalSingle ==
  ASSUME NEW S, IsFiniteSet(S), NEW a \in [S -> Int], NEW t \in S,
         \A s \in S \ {t} : a[s] = 0
  PROVE  Total(S, a) = a[t]
<1>1. PICK h : Sums(h, S, a)
  BY SumsExist
<1> DEFINE K == {T \in SUBSET S : h[T] = IF t \in T THEN a[t] ELSE 0}
<1>2. {} \in K
  BY <1>1, SumOfNone
<1>3. ASSUME NEW T \in SUBSET S, T # {}, T \ {Pick(T)} \in K PROVE T \in K
  <2> DEFINE x == Pick(T)
             U == T \ {x}
  <2>1. T \subseteq S /\ T # {} /\ x = Pick(T) /\ U = T \ {x} /\ x \in T
    BY <1>3, PickFacts
  <2>2. h[U] = IF t \in U THEN a[t] ELSE 0
    BY <1>3
  <2> HIDE DEF x, U
  <2>3. Splits(h, a, T, x, U)
    BY <1>1, <2>1, SumStep, Zenon
  <2>4. h[T] = a[x] + h[U] /\ a[t] \in Int
    BY <2>3 DEF Splits
  <2>5. CASE x = t
    BY <2>1, <2>2, <2>4, <2>5
  <2>6. CASE x # t
    <3>1. a[x] = 0
      BY <2>1, <2>6
    <3>2. t \in T <=> t \in U
      BY <2>1, <2>6
    <3> QED
      BY <2>1, <2>2, <2>4, <3>1, <3>2
  <2> QED
    BY <2>5, <2>6
<1> HIDE DEF K
<1>4. S \in K
  BY <1>2, <1>3, SubsetInduction
<1>5. h[S] = Total(S, a)
  BY <1>1, TotalIsSum
<1> QED
  BY <1>4, <1>5 DEF K

\* A summand is no more than a sum of numbers that are not negative.
LEMMA TotalBounds ==
  ASSUME NEW S, IsFiniteSet(S), NEW a \in [S -> Int], NEW t \in S, \A s \in S : 0 <= a[s]
  PROVE  a[t] <= Total(S, a)
<1> DEFINE e == [s \in S |-> IF s = t THEN a[t] ELSE 0]
<1>1. e \in [S -> Int] /\ e[t] = a[t] /\ \A s \in S \ {t} : e[s] = 0
  OBVIOUS
<1>2. \A s \in S : e[s] <= a[s]
  OBVIOUS
<1> HIDE DEF e
<1>3. Total(S, e) = e[t]
  BY <1>1, TotalSingle
<1>4. Total(S, e) <= Total(S, a)
  BY <1>1, <1>2, TotalOrdered
<1> QED
  BY <1>1, <1>3, <1>4

\* Summing rows first or columns first.
LEMMA TotalsSwap ==
  ASSUME NEW S, IsFiniteSet(S), NEW D, IsFiniteSet(D), NEW m \in [S -> [D -> Int]]
  PROVE  Total(S, [s \in S |-> Total(D, m[s])])
         = Total(D, [i \in D |-> Total(S, [s \in S |-> m[s][i]])])
<1> DEFINE row == [s \in S |-> Total(D, m[s])]
           col(i) == [s \in S |-> m[s][i]]
           C == [i \in D |-> CHOOSE h : Sums(h, S, col(i))]
           Across(T) == [i \in D |-> C[i][T]]
<1>1. row \in [S -> Int] /\ \A s \in S : row[s] = Total(D, m[s]) /\ m[s] \in [D -> Int]
  BY TotalTyped
<1>2. \A i \in D : col(i) \in [S -> Int] /\ \A s \in S : col(i)[s] = m[s][i]
  OBVIOUS
<1>3. \A i \in D : Sums(C[i], S, col(i))
  BY <1>2, SumsExist
<1>4. PICK R : Sums(R, S, row)
  BY <1>1, SumsExist
<1>5. \A i \in D : C[i][S] = Total(S, col(i))
  <2> HIDE DEF col, C
  <2> QED
    BY <1>2, <1>3, TotalIsSum, Zenon
<1>6. Across(S) = [i \in D |-> Total(S, col(i))]
  BY <1>5
<1> HIDE DEF row, col, C
<1>7. ASSUME NEW T \in SUBSET S PROVE Across(T) \in [D -> Int]
  <2>1. \A i \in D : C[i][T] \in Int
    BY <1>2, <1>3, <1>7, SumInteger, Zenon
  <2> QED
    BY <2>1
<1> DEFINE K == {T \in SUBSET S : R[T] = Total(D, Across(T))}
<1>8. {} \in K
  <2>1. R[{}] = 0
    BY <1>4, SumOfNone, Zenon
  <2>2. \A i \in D : Across({})[i] = 0
    <3>1. \A i \in D : C[i][{}] = 0
      BY <1>3, SumOfNone, Zenon
    <3> QED
      BY <3>1
  <2>3. Across({}) \in [D -> Int]
    BY <1>7
  <2> HIDE DEF Across
  <2>4. Total(D, Across({})) = 0
    BY <2>2, <2>3, TotalZero
  <2> QED
    BY <2>1, <2>4
<1>9. ASSUME NEW T \in SUBSET S, T # {}, T \ {Pick(T)} \in K PROVE T \in K
  <2> DEFINE x == Pick(T)
             U == T \ {Pick(T)}
  <2>0. T \subseteq S /\ T # {} /\ x = Pick(T) /\ U = T \ {x}
    BY <1>9
  <2>1. x \in S /\ U \in SUBSET S
    BY <1>9, PickFacts
  <2>2. R[T] = Total(D, m[x]) + R[U]
    <3> HIDE DEF x, U
    <3>1. Splits(R, row, T, x, U)
      BY <1>1, <1>4, <2>0, SumStep, Zenon
    <3> QED
      BY <1>1, <2>1, <3>1 DEF Splits
  <2>3. \A i \in D : C[i][T] = m[x][i] + C[i][U] /\ m[x][i] \in Int /\ C[i][U] \in Int
    <3> HIDE DEF x, U
    <3>1. \A i \in D : Splits(C[i], col(i), T, x, U)
      BY <1>2, <1>3, <2>0, SumStep, Zenon
    <3> QED
      BY <1>2, <2>1, <3>1 DEF Splits
  <2>4. \A i \in D : Across(T)[i] = 1 * m[x][i] + Across(U)[i]
    <3> HIDE DEF x, U
    <3> QED
      BY <2>3
  <2>5. R[U] = Total(D, Across(U))
    BY <1>9
  <2>6. Across(T) \in [D -> Int] /\ Across(U) \in [D -> Int] /\ m[x] \in [D -> Int]
    BY <1>7, <2>1
  <2> HIDE DEF x, U, Across
  <2>7. Total(D, Across(T)) = 1 * Total(D, m[x]) + Total(D, Across(U))
    BY <2>4, <2>6, TotalLinear
  <2>8. Total(D, m[x]) \in Int /\ Total(D, Across(U)) \in Int
    BY <2>6, TotalTyped
  <2> QED
    BY <2>2, <2>5, <2>7, <2>8
<1> HIDE DEF K
<1>10. S \in K
  BY <1>8, <1>9, SubsetInduction
<1>11. R[S] = Total(D, Across(S))
  BY <1>10 DEF K
<1>12. R[S] = Total(S, row)
  BY <1>1, <1>4, TotalIsSum
<1> QED
  BY <1>6, <1>11, <1>12 DEF row, col

-----------------------------------------------------------------------------
\* Geometry's sums.

LEMMA BlocksFinite == IsFiniteSet(Blocks)
BY SystemAssumption, FS_Interval DEF Blocks

\* What the sum of a row, of a distance and of a shift are.
LEMMA RowDotIsTotal ==
  ASSUME NEW id \in Ids, NEW q \in [Blocks -> Int]
  PROVE  RowDot(id, q) = Total(Blocks, [b \in Blocks |-> Coef[id][b] * q[b]])
<1> DEFINE e == [b \in Blocks |-> Coef[id][b] * q[b]]
           Fold(x) == x = [s \in SUBSET Blocks |->
                             IF s = {} THEN 0
                             ELSE Coef[id][CHOOSE b \in s : TRUE] * q[CHOOSE b \in s : TRUE]
                                  + x[s \ {CHOOSE b \in s : TRUE}]]
           f == CHOOSE x : Fold(x)
<1>1. RowDot(id, q) = f[Blocks]
  BY DEF RowDot, MapThenSumSet, MapThenFoldSet
<1>2. e \in [Blocks -> Int]
  BY GeometryAssumption
<1>3. ASSUME NEW h PROVE Fold(h) <=> Sums(h, Blocks, e)
  <2>1. \A s \in SUBSET Blocks : s # {} => Pick(s) \in Blocks
    BY PickFacts
  <2>2. \A s \in SUBSET Blocks :
          (IF s = {} THEN 0
           ELSE Coef[id][CHOOSE b \in s : TRUE] * q[CHOOSE b \in s : TRUE]
                + h[s \ {CHOOSE b \in s : TRUE}])
          = IF s = {} THEN 0 ELSE e[Pick(s)] + h[s \ {Pick(s)}]
    BY <2>1 DEF Pick
  <2> QED
    BY <2>2 DEF Sums
<1> HIDE DEF e, Fold
<1>4. Sums(f, Blocks, e)
  <2>1. \E h : Fold(h)
    BY <1>2, <1>3, SumsExist, BlocksFinite
  <2>2. Fold(f)
    BY <2>1
  <2> QED
    BY <1>3, <2>2
<1> HIDE DEF f
<1>5. f[Blocks] = Total(Blocks, e)
  BY <1>2, <1>4, TotalIsSum, BlocksFinite
<1> QED
  BY <1>1, <1>5 DEF e

LEMMA Distance2IsTotal ==
  ASSUME NEW p \in [Blocks -> Int], NEW q \in [Blocks -> Int]
  PROVE  Distance2(p, q) = Total(Blocks, [b \in Blocks |-> (p[b] - q[b]) * (p[b] - q[b])])
<1> DEFINE e == [b \in Blocks |-> (p[b] - q[b]) * (p[b] - q[b])]
           Part(b) == (p[b] - q[b]) * (p[b] - q[b])
           Fold(x) == x = [s \in SUBSET Blocks |->
                             IF s = {} THEN 0
                             ELSE Part(CHOOSE b \in s : TRUE) + x[s \ {CHOOSE b \in s : TRUE}]]
           f == CHOOSE x : Fold(x)
<1>1. Distance2(p, q) = f[Blocks]
  BY DEF Distance2, MapThenSumSet, MapThenFoldSet
<1>2. e \in [Blocks -> Int]
  OBVIOUS
<1>3. ASSUME NEW h PROVE Fold(h) <=> Sums(h, Blocks, e)
  <2>1. \A s \in SUBSET Blocks : s # {} => Pick(s) \in Blocks
    BY PickFacts
  <2>2. \A b \in Blocks : Part(b) = e[b]
    OBVIOUS
  <2> HIDE DEF Part, e
  <2>3. \A s \in SUBSET Blocks :
          (IF s = {} THEN 0
           ELSE Part(CHOOSE b \in s : TRUE) + h[s \ {CHOOSE b \in s : TRUE}])
          = IF s = {} THEN 0 ELSE e[Pick(s)] + h[s \ {Pick(s)}]
    BY <2>1, <2>2 DEF Pick
  <2> QED
    BY <2>3 DEF Sums
<1> HIDE DEF e, Fold
<1>4. Sums(f, Blocks, e)
  <2>1. \E h : Fold(h)
    BY <1>2, <1>3, SumsExist, BlocksFinite
  <2>2. Fold(f)
    BY <2>1
  <2> QED
    BY <1>3, <2>2
<1> HIDE DEF f
<1>5. f[Blocks] = Total(Blocks, e)
  BY <1>2, <1>4, TotalIsSum, BlocksFinite
<1> QED
  BY <1>1, <1>5 DEF e

LEMMA ShiftIsTotal ==
  ASSUME NEW list, IsFiniteSet(DOMAIN list), \A i \in DOMAIN list : list[i] \in Ids,
         NEW lambda \in [DOMAIN list -> Int], NEW b \in Blocks
  PROVE  Shift(list, lambda, b)
         = Total(DOMAIN list, [i \in DOMAIN list |-> lambda[i] * Coef[list[i]][b]])
<1> DEFINE D == DOMAIN list
           e == [i \in D |-> lambda[i] * Coef[list[i]][b]]
           Part(i) == lambda[i] * Coef[list[i]][b]
           Fold(x) == x = [s \in SUBSET D |->
                             IF s = {} THEN 0
                             ELSE Part(CHOOSE i \in s : TRUE) + x[s \ {CHOOSE i \in s : TRUE}]]
           f == CHOOSE x : Fold(x)
<1>1. Shift(list, lambda, b) = f[D]
  BY DEF Shift, MapThenSumSet, MapThenFoldSet
<1>2. e \in [D -> Int]
  <2>1. \A i \in D : Coef[list[i]][b] \in Int
    BY GeometryAssumption
  <2> QED
    BY <2>1
<1>3. ASSUME NEW h PROVE Fold(h) <=> Sums(h, D, e)
  <2>1. \A s \in SUBSET D : s # {} => Pick(s) \in D
    BY PickFacts
  <2>2. \A i \in D : Part(i) = e[i]
    OBVIOUS
  <2> HIDE DEF Part, e, D
  <2>3. \A s \in SUBSET D :
          (IF s = {} THEN 0
           ELSE Part(CHOOSE i \in s : TRUE) + h[s \ {CHOOSE i \in s : TRUE}])
          = IF s = {} THEN 0 ELSE e[Pick(s)] + h[s \ {Pick(s)}]
    BY <2>1, <2>2 DEF Pick
  <2> QED
    BY <2>3 DEF Sums
<1> HIDE DEF e, Fold
<1>4. Sums(f, D, e)
  <2>1. \E h : Fold(h)
    BY <1>2, <1>3, SumsExist
  <2>2. Fold(f)
    BY <2>1
  <2> QED
    BY <1>3, <2>2
<1> HIDE DEF f
<1>5. f[D] = Total(D, e)
  BY <1>2, <1>4, TotalIsSum
<1> QED
  BY <1>1, <1>5 DEF e

-----------------------------------------------------------------------------
\* The projection.

\* Along a shift by rows that are no larger at y than at x, where they count with a
\* multiplier that is not negative, the way from y to x does not go back.
LEMMA ShiftOutward ==
  ASSUME NEW list, IsFiniteSet(DOMAIN list), \A i \in DOMAIN list : list[i] \in Ids,
         NEW lambda \in [DOMAIN list -> Int],
         NEW x \in [Blocks -> Int], NEW y \in [Blocks -> Int],
         \A i \in DOMAIN list : \/ RowDot(list[i], y) = RowDot(list[i], x)
                                \/ lambda[i] >= 0 /\ RowDot(list[i], y) <= RowDot(list[i], x)
  PROVE  0 <= Total(Blocks, [b \in Blocks |-> Shift(list, lambda, b) * (x[b] - y[b])])
<1> DEFINE D == DOMAIN list
           m == [b \in Blocks |-> [i \in D |-> lambda[i] * Coef[list[i]][b] * (x[b] - y[b])]]
           col(i) == [b \in Blocks |-> m[b][i]]
           row == [b \in Blocks |-> Total(D, m[b])]
<1>1. \A i \in D : list[i] \in Ids /\ lambda[i] \in Int /\ \A b \in Blocks : Coef[list[i]][b] \in Int
  BY GeometryAssumption
<1>2. m \in [Blocks -> [D -> Int]]
  BY <1>1
<1>3. ASSUME NEW b \in Blocks PROVE row[b] = Shift(list, lambda, b) * (x[b] - y[b])
  <2> DEFINE s == [i \in D |-> lambda[i] * Coef[list[i]][b]]
             z == x[b] - y[b]
  <2>1. s \in [D -> Int] /\ m[b] \in [D -> Int] /\ z \in Int
    BY <1>1, <1>2
  <2>2. \A i \in D : m[b][i] = z * s[i]
    <3>1. ASSUME NEW i \in D PROVE m[b][i] = z * s[i]
      <4>1. m[b][i] = lambda[i] * Coef[list[i]][b] * z
        OBVIOUS
      <4>2. s[i] = lambda[i] * Coef[list[i]][b] /\ s[i] \in Int
        BY <2>1
      <4> HIDE DEF s, m, z
      <4> QED
        BY <2>1, <4>1, <4>2
    <3> QED
      BY <3>1
  <2>3. Shift(list, lambda, b) = Total(D, s)
    BY ShiftIsTotal
  <2>4. row[b] = Total(D, m[b])
    OBVIOUS
  <2> HIDE DEF s, m, z, row, D
  <2>5. Total(D, m[b]) = z * Total(D, s)
    BY <2>1, <2>2, TotalScaled DEF D
  <2>6. Total(D, s) \in Int
    BY <2>1, TotalTyped DEF D
  <2>7. row[b] = Shift(list, lambda, b) * z
    BY <2>1, <2>3, <2>4, <2>5, <2>6
  <2> QED
    BY <2>7 DEF z
<1>4. ASSUME NEW i \in D PROVE 0 <= Total(Blocks, col(i)) /\ Total(Blocks, col(i)) \in Int
  <2> DEFINE cx == [b \in Blocks |-> Coef[list[i]][b] * x[b]]
             cy == [b \in Blocks |-> Coef[list[i]][b] * y[b]]
             w  == [b \in Blocks |-> cx[b] - cy[b]]
  <2>1. cx \in [Blocks -> Int] /\ cy \in [Blocks -> Int]
    BY <1>1
  <2>2. RowDot(list[i], x) = Total(Blocks, cx) /\ RowDot(list[i], y) = Total(Blocks, cy)
    BY <1>1, RowDotIsTotal
  <2>3. \A b \in Blocks : col(i)[b] = lambda[i] * w[b]
    <3>1. ASSUME NEW b \in Blocks PROVE col(i)[b] = lambda[i] * w[b]
      <4>1. /\ col(i)[b] = lambda[i] * Coef[list[i]][b] * (x[b] - y[b])
            /\ w[b] = Coef[list[i]][b] * x[b] - Coef[list[i]][b] * y[b]
        OBVIOUS
      <4>2. \A k, l, u, v \in Int : k * l * (u - v) = k * (l * u - l * v)
        OBVIOUS
      <4>3. lambda[i] \in Int /\ Coef[list[i]][b] \in Int /\ x[b] \in Int /\ y[b] \in Int
        BY <1>1
      <4> HIDE DEF w, col
      <4> QED
        BY <4>1, <4>2, <4>3
    <3> QED
      BY <3>1
  <2>4. col(i) \in [Blocks -> Int]
    BY <1>2
  <2> HIDE DEF cx, cy
  <2>5. w \in [Blocks -> Int] /\ \A b \in Blocks : cx[b] = w[b] + cy[b]
    BY <2>1
  <2> HIDE DEF w, col
  <2>6. Total(Blocks, cx) = Total(Blocks, w) + Total(Blocks, cy)
    BY <2>1, <2>5, TotalAdds, BlocksFinite
  <2>7. Total(Blocks, cx) \in Int /\ Total(Blocks, cy) \in Int /\ Total(Blocks, w) \in Int
    BY <2>1, <2>5, TotalTyped, BlocksFinite
  <2>8. Total(Blocks, w) = 0 \/ (0 <= lambda[i] /\ 0 <= Total(Blocks, w))
    <3>1. \/ Total(Blocks, cy) = Total(Blocks, cx)
          \/ lambda[i] >= 0 /\ Total(Blocks, cy) <= Total(Blocks, cx)
      BY <2>2
    <3>2. lambda[i] \in Int
      BY <1>1
    <3> QED
      BY <2>6, <2>7, <3>1, <3>2
  <2>9. Total(Blocks, col(i)) = lambda[i] * Total(Blocks, w)
    BY <1>1, <2>3, <2>4, <2>5, TotalScaled, BlocksFinite
  <2>10. \A u, v \in Int : (v = 0 \/ (0 <= u /\ 0 <= v)) => 0 <= u * v /\ u * v \in Int
    OBVIOUS
  <2>11. lambda[i] \in Int
    BY <1>1
  <2> QED
    BY <2>7, <2>8, <2>9, <2>10, <2>11
<1> DEFINE cols == [i \in D |-> Total(Blocks, col(i))]
<1>5. Total(Blocks, row) = Total(D, cols)
  <2> HIDE DEF m
  <2> QED
    BY <1>2, TotalsSwap, BlocksFinite
<1>6. row = [b \in Blocks |-> Shift(list, lambda, b) * (x[b] - y[b])]
  BY <1>3
<1>7. cols \in [D -> Int] /\ \A i \in D : 0 <= cols[i]
  BY <1>4
<1> HIDE DEF cols, row
<1>8. 0 <= Total(D, cols)
  BY <1>7, TotalNonnegative
<1> QED
  BY <1>5, <1>6, <1>8

\* Block by block, the way from y to x times the way from x to p.
Way(p, x, y) == [b \in Blocks |-> (p[b] - x[b]) * (x[b] - y[b])]

LEMMA WayTyped ==
  ASSUME NEW p \in [Blocks -> Int], NEW x \in [Blocks -> Int], NEW y \in [Blocks -> Int]
  PROVE  /\ Way(p, x, y) \in [Blocks -> Int]
         /\ \A b \in Blocks : Way(p, x, y)[b] = (p[b] - x[b]) * (x[b] - y[b])
BY DEF Way

\* Pythagoras: if the way from y to x does not go back along the way from x to p, then
\* x is no farther from p than y is.
LEMMA NoFarther ==
  ASSUME NEW p \in [Blocks -> Int], NEW x \in [Blocks -> Int], NEW y \in [Blocks -> Int],
         0 <= Total(Blocks, Way(p, x, y))
  PROVE  Distance2(p, x) <= Distance2(p, y)
<1> DEFINE near == [b \in Blocks |-> (p[b] - x[b]) * (p[b] - x[b])]
           far  == [b \in Blocks |-> (p[b] - y[b]) * (p[b] - y[b])]
           way  == Way(p, x, y)
           both == [b \in Blocks |-> 2 * way[b] + near[b]]
<1>1. /\ near \in [Blocks -> Int] /\ far \in [Blocks -> Int]
      /\ way \in [Blocks -> Int] /\ both \in [Blocks -> Int]
  BY WayTyped
<1>2. ASSUME NEW b \in Blocks PROVE both[b] <= far[b]
  <2>1. both[b] = 2 * ((p[b] - x[b]) * (x[b] - y[b])) + (p[b] - x[b]) * (p[b] - x[b])
    BY WayTyped
  <2>2. far[b] = (p[b] - y[b]) * (p[b] - y[b])
    OBVIOUS
  <2>3. \A u, v, w \in Int : /\ (u - w) * (u - w)
                                = 2 * ((u - v) * (v - w)) + (u - v) * (u - v) + (v - w) * (v - w)
                             /\ (v - w) * (v - w) >= 0
    OBVIOUS
  <2>4. p[b] \in Int /\ x[b] \in Int /\ y[b] \in Int
    OBVIOUS
  <2> HIDE DEF near, far, way, both
  <2> QED
    BY <2>1, <2>2, <2>3, <2>4
<1>3. \A b \in Blocks : both[b] = 2 * way[b] + near[b]
  OBVIOUS
<1>4. Distance2(p, x) = Total(Blocks, near) /\ Distance2(p, y) = Total(Blocks, far)
  BY Distance2IsTotal
<1>5. 0 <= Total(Blocks, way)
  OBVIOUS
<1> HIDE DEF near, far, way, both
<1>6. Total(Blocks, both) = 2 * Total(Blocks, way) + Total(Blocks, near)
  BY <1>1, <1>3, TotalLinear, BlocksFinite
<1>7. Total(Blocks, both) <= Total(Blocks, far)
  BY <1>1, <1>2, TotalOrdered, BlocksFinite
<1>8. /\ Total(Blocks, near) \in Int /\ Total(Blocks, far) \in Int /\ Total(Blocks, way) \in Int
      /\ Total(Blocks, both) \in Int
  BY <1>1, TotalTyped, BlocksFinite
<1> QED
  BY <1>4, <1>5, <1>6, <1>7, <1>8

\* Two points none of which is on the other's way back to the proposal are one.
LEMMA NoWayBack ==
  ASSUME NEW p \in [Blocks -> Int], NEW x \in [Blocks -> Int], NEW y \in [Blocks -> Int],
         0 <= Total(Blocks, Way(p, x, y)),
         0 <= Total(Blocks, Way(p, y, x))
  PROVE  x = y
<1> DEFINE to  == Way(p, x, y)
           fro == Way(p, y, x)
           sum == [b \in Blocks |-> to[b] + fro[b]]
           sq  == [b \in Blocks |-> (x[b] - y[b]) * (x[b] - y[b])]
<1>1. to \in [Blocks -> Int] /\ fro \in [Blocks -> Int] /\ sum \in [Blocks -> Int] /\ sq \in [Blocks -> Int]
  BY WayTyped
<1>2. ASSUME NEW b \in Blocks PROVE 0 = sum[b] + sq[b] /\ 0 <= sq[b]
  <2>1. /\ sum[b] = (p[b] - x[b]) * (x[b] - y[b]) + (p[b] - y[b]) * (y[b] - x[b])
        /\ sq[b] = (x[b] - y[b]) * (x[b] - y[b])
    <3>1. /\ to[b] = (p[b] - x[b]) * (x[b] - y[b])
          /\ fro[b] = (p[b] - y[b]) * (y[b] - x[b])
      BY WayTyped
    <3> HIDE DEF to, fro
    <3> QED
      BY <3>1
  <2>2. \A u, v, w \in Int :
          (u - v) * (v - w) + (u - w) * (w - v) = -((v - w) * (v - w))
    OBVIOUS
  <2>3. \A u \in Int : 0 <= u * u /\ u * u \in Int
    OBVIOUS
  <2>4. p[b] \in Int /\ x[b] \in Int /\ y[b] \in Int
    BY <1>1
  <2> HIDE DEF sum, sq
  <2>5. 0 <= sq[b] /\ sq[b] \in Int
    BY <2>1, <2>3, <2>4
  <2>6. sum[b] = -sq[b]
    BY <2>1, <2>2, <2>4
  <2> QED
    BY <2>5, <2>6
<1>3. 0 <= Total(Blocks, to) /\ 0 <= Total(Blocks, fro)
  OBVIOUS
<1>4. \A b \in Blocks : sum[b] = to[b] + fro[b]
  OBVIOUS
<1>5. \A b \in Blocks : sq[b] = (x[b] - y[b]) * (x[b] - y[b])
  OBVIOUS
<1> DEFINE none == [b \in Blocks |-> 0]
<1>6. none \in [Blocks -> Int] /\ (\A b \in Blocks : none[b] = 0)
  OBVIOUS
<1> HIDE DEF to, fro, sum, sq, none
<1>7. Total(Blocks, sum) = Total(Blocks, to) + Total(Blocks, fro)
  BY <1>1, <1>4, TotalAdds, BlocksFinite
<1>8. Total(Blocks, none) = Total(Blocks, sum) + Total(Blocks, sq)
  <2>1. \A b \in Blocks : none[b] = sum[b] + sq[b]
    BY <1>2, <1>6
  <2>2. none \in [Blocks -> Int]
    BY <1>6
  <2> QED
    BY <1>1, <2>1, <2>2, TotalAdds, BlocksFinite
<1>9. Total(Blocks, none) = 0
  BY <1>6, TotalZero, BlocksFinite
<1>10. /\ Total(Blocks, to) \in Int /\ Total(Blocks, fro) \in Int
       /\ Total(Blocks, sum) \in Int /\ Total(Blocks, sq) \in Int
  BY <1>1, TotalTyped, BlocksFinite
<1>11. Total(Blocks, sq) <= 0
  BY <1>3, <1>7, <1>8, <1>9, <1>10
<1>12. ASSUME NEW b \in Blocks PROVE x[b] = y[b]
  <2>1. sq[b] <= Total(Blocks, sq)
    BY <1>1, <1>2, TotalBounds, BlocksFinite
  <2>2. (x[b] - y[b]) * (x[b] - y[b]) <= 0
    BY <1>1, <1>5, <1>10, <1>11, <2>1
  <2>3. \A u \in Int : (u > 0 => u * u > 0) /\ (u < 0 => u * u > 0) /\ u * u \in Int
    OBVIOUS
  <2>4. x[b] \in Int /\ y[b] \in Int
    BY <1>1
  <2> DEFINE u == x[b] - y[b]
  <2>5. u \in Int /\ u * u <= 0
    BY <2>2, <2>4
  <2> HIDE DEF u
  <2>6. u = 0
    BY <2>3, <2>5
  <2> QED
    BY <2>4, <2>6 DEF u
<1> QED
  BY <1>12

\* A point that agrees with a solution on its active rows, or that lies below it where
\* no multiplier is negative, is not on its way back to the proposal.
LEMMA SolutionWay ==
  ASSUME SolvesExactly, IntegerData, NEW p \in Proposals, NEW r \in RightHandSides,
         NEW list \in IdLists, Factorable(list), NEW y \in Points,
         \A i \in DOMAIN list : \/ RowDot(list[i], y) = r[list[i]]
                                \/ /\ Multipliers(list, p, r)[i] >= 0
                                   /\ RowDot(list[i], y) <= r[list[i]]
  PROVE  0 <= Total(Blocks, Way(p, Combine(list, p, r), y))
<1> DEFINE x == Combine(list, p, r)
           lambda == Multipliers(list, p, r)
           d == Det(GramMatrix(list))
           shifted == [b \in Blocks |-> Shift(list, lambda, b) * (x[b] - y[b])]
           way == Way(p, x, y)
<1>1. /\ d \in Nat \ {0}
      /\ \A b \in Blocks : d * (p[b] - x[b]) = Shift(list, lambda, b)
      /\ \A i \in DOMAIN list : RowDot(list[i], x) = r[list[i]]
  BY DEF SolvesExactly
<1>2. lambda \in [DOMAIN list -> Int] /\ x \in Points
  BY NumericAssumption
<1>3. p \in [Blocks -> Int] /\ x \in [Blocks -> Int] /\ y \in [Blocks -> Int]
  BY <1>2, ParameterAssumption DEF Points, IntegerData
<1>4. IsFiniteSet(DOMAIN list) /\ \A i \in DOMAIN list : list[i] \in Ids
  <2>1. DOMAIN list = 1 .. Len(list) /\ list \in [1 .. Len(list) -> Ids] /\ Len(list) \in Int
    BY IdListFacts
  <2>2. IsFiniteSet(1 .. Len(list))
    BY <2>1, FS_Interval
  <2> QED
    BY <2>1, <2>2
<1>5. \A i \in DOMAIN list : \/ RowDot(list[i], y) = RowDot(list[i], x)
                             \/ lambda[i] >= 0 /\ RowDot(list[i], y) <= RowDot(list[i], x)
  BY <1>1
<1>6. \A b \in Blocks : shifted[b] = d * way[b]
  <2>1. ASSUME NEW b \in Blocks PROVE shifted[b] = d * way[b]
    <3>1. shifted[b] = (d * (p[b] - x[b])) * (x[b] - y[b])
      BY <1>1
    <3>2. way[b] = (p[b] - x[b]) * (x[b] - y[b])
      BY <1>3, WayTyped
    <3>3. d \in Int /\ p[b] - x[b] \in Int /\ x[b] - y[b] \in Int
      BY <1>1, <1>3
    <3>4. \A u, v, w \in Int : (u * v) * w = u * (v * w)
      OBVIOUS
    <3> HIDE DEF shifted, way, d, x
    <3> QED
      BY <3>1, <3>2, <3>3, <3>4
  <2> QED
    BY <2>1
<1>7. way \in [Blocks -> Int]
  BY <1>3, WayTyped
<1> HIDE DEF d, x, lambda
<1>8. 0 <= Total(Blocks, shifted)
  BY <1>2, <1>3, <1>4, <1>5, ShiftOutward
<1> HIDE DEF shifted, way
<1>9. shifted \in [Blocks -> Int]
  <2>1. \A b \in Blocks : d * way[b] \in Int
    BY <1>1, <1>7
  <2>2. shifted = [b \in Blocks |-> shifted[b]]
    BY DEF shifted
  <2> QED
    BY <1>6, <2>1, <2>2
<1>10. Total(Blocks, shifted) = d * Total(Blocks, way)
  BY <1>1, <1>6, <1>7, <1>9, TotalScaled, BlocksFinite
<1>11. Total(Blocks, way) \in Int
  BY <1>7, TotalTyped, BlocksFinite
<1>12. \A u, v \in Int : u > 0 /\ 0 <= u * v => 0 <= v
  OBVIOUS
<1>13. 0 <= Total(Blocks, way)
  BY <1>1, <1>8, <1>10, <1>11, <1>12
<1> QED
  BY <1>13 DEF way, x

\* Solving exactly, the order of the rows in a list does not matter: the solutions of
\* two orders agree on every active row.
LEMMA SolvedInAnyOrder ==
  ASSUME SolvesExactly, IntegerData
  PROVE  OrderFree
<1> SUFFICES ASSUME NEW list \in IdLists, NEW perm \in IdLists,
                    Factorable(list), Factorable(perm),
                    {list[i] : i \in DOMAIN list} = {perm[i] : i \in DOMAIN perm},
                    NEW p \in Proposals, NEW r \in RightHandSides
             PROVE  Combine(list, p, r) = Combine(perm, p, r)
  BY DEF OrderFree
<1> DEFINE x == Combine(list, p, r)
           y == Combine(perm, p, r)
<1>1. x \in Points /\ y \in Points /\ p \in Points
  BY NumericAssumption, ParameterAssumption
<1>2. x \in [Blocks -> Int] /\ y \in [Blocks -> Int] /\ p \in [Blocks -> Int]
  BY <1>1 DEF Points, IntegerData
<1>3. \A i \in DOMAIN list : RowDot(list[i], y) = r[list[i]]
  <2>1. \A j \in DOMAIN perm : RowDot(perm[j], y) = r[perm[j]]
    BY DEF SolvesExactly
  <2> HIDE DEF y
  <2>2. ASSUME NEW i \in DOMAIN list PROVE RowDot(list[i], y) = r[list[i]]
    <3>1. PICK j \in DOMAIN perm : list[i] = perm[j]
      OBVIOUS
    <3> QED
      BY <2>1, <3>1
  <2> QED
    BY <2>2
<1>4. \A j \in DOMAIN perm : RowDot(perm[j], x) = r[perm[j]]
  <2>1. \A i \in DOMAIN list : RowDot(list[i], x) = r[list[i]]
    BY DEF SolvesExactly
  <2> HIDE DEF x
  <2>2. ASSUME NEW j \in DOMAIN perm PROVE RowDot(perm[j], x) = r[perm[j]]
    <3>1. PICK i \in DOMAIN list : list[i] = perm[j]
      OBVIOUS
    <3> QED
      BY <2>1, <3>1
  <2> QED
    BY <2>2
<1>5. 0 <= Total(Blocks, Way(p, x, y))
  <2> HIDE DEF y
  <2> QED
    BY <1>1, <1>3, SolutionWay
<1>6. 0 <= Total(Blocks, Way(p, y, x))
  <2> HIDE DEF x
  <2> QED
    BY <1>1, <1>4, SolutionWay
<1> HIDE DEF x, y
<1>7. x = y
  BY <1>2, <1>5, <1>6, NoWayBack
<1> QED
  BY <1>7 DEF x, y

\* The solution of active rows with no negative multiplier is no farther from the
\* proposal than any feasible point.
LEMMA SolutionIsNearest ==
  ASSUME ExactArithmetic, NEW p \in Proposals, NEW r \in RightHandSides,
         NEW list \in IdLists, Factorable(list),
         \A i \in DOMAIN list : Multipliers(list, p, r)[i] >= 0,
         NEW y \in Points, \A id \in Ids : RowDot(id, y) <= r[id]
  PROVE  Distance2(p, Combine(list, p, r)) <= Distance2(p, y)
<1> DEFINE x == Combine(list, p, r)
<1>1. SolvesExactly /\ IntegerData
  BY DEF ExactArithmetic
<1>2. x \in Points /\ p \in Points
  BY NumericAssumption, ParameterAssumption
<1>3. p \in [Blocks -> Int] /\ x \in [Blocks -> Int] /\ y \in [Blocks -> Int]
  BY <1>1, <1>2 DEF Points, IntegerData
<1>4. \A i \in DOMAIN list : RowDot(list[i], y) <= r[list[i]]
  BY IdListFacts
<1>5. 0 <= Total(Blocks, Way(p, x, y))
  BY <1>1, <1>4, SolutionWay
<1> HIDE DEF x
<1>6. Distance2(p, x) <= Distance2(p, y)
  BY <1>3, <1>5, NoFarther
<1> QED
  BY <1>6 DEF x

\* An accepted candidate satisfies every row: the active ones with equality, because
\* the call is solved for them, the others because the oracle certifies them.
LEMMA AcceptedFeasible ==
  ASSUME ExactArithmetic, IInv, Fresh, Rescanned, AcceptedIsSolved',
         NEW f, AcceptedFrom(f), NEW id \in Ids
  PROVE  RowDot(id, qCurr) <= rhs[id]
<1>1. /\ ids \in IdLists /\ prop \in Proposals /\ rhs \in RightHandSides /\ qCurr \in Points
      /\ rhs \in [Ids -> Int]
  BY DEF IInv, TypeOK, AcceptedFrom, ExactArithmetic, IntegerData
<1>2. ret'.kind = "accepted" /\ ret'.ids = ids /\ ret'.cand = qCurr /\ ret'.prop = prop /\ rhs' = rhs
  BY DEF AcceptedFrom, Accept, Return, settingVars
<1>3. CASE id \notin Elems(ids)
  <2>1. RowViolation(id, qCurr, rhs) <= 0
    BY <1>3, ConvergedRows DEF AcceptedFrom
  <2> QED
    BY <1>1, <2>1 DEF ExactArithmetic, CertificatesSound
<1>4. CASE id \in Elems(ids)
  <2>1. ids # <<>> /\ Factorable(ids)
    BY <1>4, EmptyIdList DEF AcceptedFrom, Coherent
  <2>2. qCurr = Combine(ids, prop, rhs)
    BY <1>2, <2>1 DEF AcceptedIsSolved
  <2>3. PICK i \in DOMAIN ids : ids[i] = id
    BY <1>4 DEF Elems
  <2>4. RowDot(ids[i], Combine(ids, prop, rhs)) = rhs[ids[i]]
    BY <1>1, <2>1 DEF ExactArithmetic, SolvesExactly
  <2>5. rhs[id] \in Int
    BY <1>1
  <2> QED
    BY <2>2, <2>3, <2>4, <2>5
<1> QED
  BY <1>3, <1>4

\* It is no farther from the proposal than another feasible point.
LEMMA AcceptedNearest ==
  ASSUME ExactArithmetic, IInv, AcceptedIsSolved', NEW f, AcceptedFrom(f),
         NEW y \in Points, \A id \in Ids : RowDot(id, y) <= rhs[id]
  PROVE  Distance2(prop, qCurr) <= Distance2(prop, y)
<1>1. /\ ids \in IdLists /\ prop \in Proposals /\ rhs \in RightHandSides /\ qCurr \in Points
  BY DEF IInv, TypeOK, AcceptedFrom
<1>2. ret'.kind = "accepted" /\ ret'.ids = ids /\ ret'.cand = qCurr /\ ret'.prop = prop /\ rhs' = rhs
  BY DEF AcceptedFrom, Accept, Return, settingVars
<1>3. CASE ids = <<>>
  <2> DEFINE way == Way(prop, qCurr, y)
  <2>1. qCurr = prop
    BY <1>2, <1>3 DEF AcceptedIsSolved
  <2>2. prop \in [Blocks -> Int] /\ qCurr \in [Blocks -> Int] /\ y \in [Blocks -> Int]
    BY <1>1, ParameterAssumption DEF ExactArithmetic, IntegerData, Points
  <2>3. way \in [Blocks -> Int] /\ \A b \in Blocks : 0 <= way[b]
    BY <2>1, <2>2, WayTyped
  <2> HIDE DEF way
  <2>4. 0 <= Total(Blocks, way)
    BY <2>3, TotalNonnegative, BlocksFinite
  <2> QED
    BY <2>2, <2>4, NoFarther DEF way
<1>4. CASE ids # <<>>
  <2>1. Factorable(ids)
    BY <1>4 DEF AcceptedFrom, Coherent
  <2>2. /\ qCurr = Combine(ids, prop, rhs)
        /\ \A i \in DOMAIN ids : Multipliers(ids, prop, rhs)[i] >= -LambdaNegativeTol
    BY <1>2, <1>4 DEF AcceptedIsSolved
  <2>3. \A i \in DOMAIN ids : Multipliers(ids, prop, rhs)[i] >= 0
    <3>1. LambdaNegativeTol = 0
      BY DEF ExactArithmetic
    <3> QED
      BY <2>2, <3>1
  <2> QED
    BY <1>1, <2>1, <2>2, <2>3, SolutionIsNearest
<1> QED
  BY <1>3, <1>4

\* Where the numerics are exact, a caller whose ticks are rescanned gets, from every call
\* that is accepted, the projection of its proposal onto the rows: for any geometry,
\* any sequence of calls and any warm active set they leave behind.
THEOREM AcceptedAreNearest ==
  ASSUME ExactArithmetic
  PROVE  Spec => []AcceptedIsNearest
<1>1. Init => AcceptedIsNearest /\ AcceptedIsSolved /\ Fresh
  BY DEF Init, AcceptedIsNearest, AcceptedIsSolved, Fresh, NoReturn
<1>2. IInv /\ Fresh /\ AcceptedIsSolved' /\ AcceptedIsNearest /\ [Next]_vars => AcceptedIsNearest'
  <2> SUFFICES ASSUME IInv, Fresh, AcceptedIsSolved', AcceptedIsNearest, [Next]_vars
               PROVE  AcceptedIsNearest'
    OBVIOUS
  <2>1. CASE ret'.kind # "accepted" \/ UNCHANGED <<opts, rhs, ret>>
    BY <2>1 DEF AcceptedIsNearest, ExactlyFeasible, Rescanned
  <2>2. ASSUME NEW f, AcceptedFrom(f) PROVE AcceptedIsNearest'
    <3> SUFFICES ASSUME Rescanned'
                 PROVE  /\ ExactlyFeasible(ret.cand)'
                        /\ \A x \in Points : ExactlyFeasible(x)' =>
                              Distance2(ret'.prop, ret'.cand) <= Distance2(ret'.prop, x)
      BY DEF AcceptedIsNearest
    <3>1. /\ ret'.cand = qCurr /\ ret'.prop = prop /\ rhs' = rhs /\ opts' = opts
      BY <2>2 DEF AcceptedFrom, Accept, Return, settingVars
    <3>2. Rescanned
      BY <3>1 DEF Rescanned
    <3>3. \A id \in Ids : RowDot(id, qCurr) <= rhs[id]
      BY <2>2, <3>2, AcceptedFeasible
    <3>4. ASSUME NEW x \in Points, \A id \in Ids : RowDot(id, x) <= rhs[id]
          PROVE  Distance2(prop, qCurr) <= Distance2(prop, x)
      BY <2>2, <3>4, AcceptedNearest
    <3> QED
      BY <3>1, <3>3, <3>4 DEF ExactlyFeasible
  <2> QED
    BY <2>1, <2>2, NextAccepted
<1>3. IInv /\ Fresh /\ [Next]_vars => Fresh'
  BY NextFresh
<1>4. Spec => []AcceptedIsSolved
  BY AcceptedAreSolved, SolvedInAnyOrder DEF ExactArithmetic
<1> QED
  BY <1>1, <1>2, <1>3, <1>4, Invariance, PTL DEF Spec

-----------------------------------------------------------------------------
\* Geometry's rows are exact in this sense.

\* A local row reads its own block only.
LEMMA LocalRowDot ==
  ASSUME NEW id \in LocalIds, NEW q \in [Blocks -> Int]
  PROVE  RowDot(id, q) = Coef[id][BlockOf(id)] * q[BlockOf(id)]
<1> DEFINE e == [b \in Blocks |-> Coef[id][b] * q[b]]
<1>1. BlockOf(id) \in Blocks /\ id \in Ids
  BY BlockOfLocal DEF Ids
<1>2. e \in [Blocks -> Int] /\ \A b \in Blocks \ {BlockOf(id)} : e[b] = 0
  BY <1>1, GeometryAssumption
<1>3. RowDot(id, q) = Total(Blocks, e)
  BY <1>1, RowDotIsTotal
<1>4. e[BlockOf(id)] = Coef[id][BlockOf(id)] * q[BlockOf(id)]
  BY <1>1
<1> HIDE DEF e
<1>5. Total(Blocks, e) = e[BlockOf(id)]
  BY <1>1, <1>2, TotalSingle, BlocksFinite
<1> QED
  BY <1>3, <1>4, <1>5

\* What Geometry certifies a row with is its excess and an error that is not negative.
LEMMA GeometryViolation ==
  ASSUME RowsOfGeometry, IntegerData,
         NEW r \in RightHandSides, NEW p \in Points, NEW id \in Ids
  PROVE  /\ RowDot(id, p) \in Int /\ r[id] \in Int /\ Margin \in Nat
         /\ \E error \in Nat : RowViolation(id, p, r) = RowDot(id, p) - r[id] + error + Margin
<1>1. p \in [Blocks -> Int] /\ r[id] \in Int /\ Margin \in Nat /\ DotError \in Nat
  BY GeometryAssumption DEF IntegerData, Points
<1>2. RowDot(id, p) \in Int
  <2>1. [b \in Blocks |-> Coef[id][b] * p[b]] \in [Blocks -> Int]
    BY <1>1, GeometryAssumption
  <2> QED
    BY <1>1, <2>1, RowDotIsTotal, TotalTyped, BlocksFinite
<1>3. \E touches \in BOOLEAN : RowViolation(id, p, r) = CertifiedViolation(RowDot(id, p), touches, r[id])
  <2>1. CASE id \in LocalIds
    <3>1. RowViolation(id, p, r) = LocalRow(id, p[BlockOf(id)], r[id])
      <4>1. p[BlockOf(id)] \in Parts
        BY <2>1, BlockOfLocal DEF Points
      <4> QED
        BY <2>1, <4>1 DEF RowViolation, RowsOfGeometry
    <3> QED
      BY <1>1, <2>1, <3>1, LocalRowDot DEF LocalRow
  <2>2. CASE id \notin LocalIds
    <3>1. RowViolation(id, p, r) = GlobalRow(id, p, r[id])
      BY <2>2 DEF RowViolation, RowsOfGeometry, Ids
    <3> QED
      BY <3>1 DEF GlobalRow
  <2> QED
    BY <2>1, <2>2
<1>4. PICK touches \in BOOLEAN : RowViolation(id, p, r) = CertifiedViolation(RowDot(id, p), touches, r[id])
  BY <1>3
<1> DEFINE error == IF touches THEN DotError ELSE 0
<1>5. error \in Nat /\ RowViolation(id, p, r) = RowDot(id, p) - r[id] + error + Margin
  BY <1>1, <1>4 DEF CertifiedViolation
<1> QED
  BY <1>1, <1>2, <1>5

\* A row that certified_violation_from_dot finds not violated holds, whatever bounds it adds.
THEOREM CertifiedRowsHold ==
  ASSUME RowsOfGeometry, IntegerData
  PROVE  CertificatesSound
<1> SUFFICES ASSUME NEW r \in RightHandSides, NEW p \in Points, NEW id \in Ids,
                    RowViolation(id, p, r) <= 0
             PROVE  RowDot(id, p) <= r[id]
  BY DEF CertificatesSound
<1>1. PICK error \in Nat : RowViolation(id, p, r) = RowDot(id, p) - r[id] + error + Margin
  BY GeometryViolation
<1>2. RowDot(id, p) \in Int /\ r[id] \in Int /\ Margin \in Nat
  BY GeometryViolation
<1> QED
  BY <1>1, <1>2

\* With a positive tau_abs, a row solved to hold with equality is violated by its
\* certificate: why finalize_with_safety cannot accept active rows without a shrink.
THEOREM SolvedRowsAreViolated ==
  ASSUME RowsOfGeometry, IntegerData, SolvesExactly, Margin > 0
  PROVE  BoundRowsViolated
<1> SUFFICES ASSUME NEW list \in IdLists, Factorable(list), NEW p \in Proposals,
                    NEW r \in RightHandSides, NEW i \in DOMAIN list
             PROVE  RowViolation(list[i], Combine(list, p, r), r) > 0
  BY DEF BoundRowsViolated
<1> DEFINE x == Combine(list, p, r)
           id == list[i]
<1>1. x \in Points /\ id \in Ids
  BY NumericAssumption, IdListFacts
<1>2. RowDot(id, x) = r[id]
  BY DEF SolvesExactly
<1> HIDE DEF x, id
<1>3. PICK error \in Nat : RowViolation(id, x, r) = RowDot(id, x) - r[id] + error + Margin
  BY <1>1, GeometryViolation
<1>4. r[id] \in Int /\ Margin \in Nat
  BY <1>1, GeometryViolation
<1> QED
  BY <1>2, <1>3, <1>4 DEF x, id
=============================================================================
