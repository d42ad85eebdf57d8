-------------------------- MODULE ViolatorsProofs --------------------------
(***************************************************************************)
(* The preference order of violators is a strict total order, so the best  *)
(* of a finite set exists, is unique and can be found piecewise.           *)
(***************************************************************************)
EXTENDS Violators, FiniteSets, FiniteSetTheorems, WellFoundedInduction, TLAPS

\* Constraint ids and the sentinel's id are integers.
LEMMA IdsAreIntegers == Ids \cup {NoId} \subseteq Int
  BY SystemAssumption DEF Ids, LocalIds, GlobalIds, NoId

\* prefer_lhs leaves no two different violators undecided.
LEMMA PreferTotal ==
  ASSUME NEW v \in Violator, NEW w \in Violator, v # w
  PROVE  Prefer(v, w) \/ Prefer(w, v)
<1>1. v.id \in Int /\ w.id \in Int
  BY IdsAreIntegers DEF Violator
<1>2. v.scope # w.scope \/ v.id # w.id \/ v.violation # w.violation
  BY DEF Violator
<1>3. CASE v.violation = NaN \/ w.violation = NaN
  BY <1>1, <1>2, <1>3 DEF Prefer, TiePrefer, Greater, Violator
<1>4. CASE v.violation # NaN /\ w.violation # NaN
  <2>1. v.violation \in Int /\ w.violation \in Int
    BY <1>4 DEF Violator
  <2> QED
    BY <1>1, <1>2, <1>4, <2>1 DEF Prefer, TiePrefer, Greater, Violator
<1> QED
  BY <1>3, <1>4

\* prefer_lhs never prefers each of two violators to the other.
LEMMA PreferAsymmetric ==
  ASSUME NEW v \in Violator, NEW w \in Violator, Prefer(v, w)
  PROVE  ~Prefer(w, v)
<1>1. v.id \in Int /\ w.id \in Int
  BY IdsAreIntegers DEF Violator
<1>3. CASE v.violation = NaN \/ w.violation = NaN
  BY <1>1, <1>3 DEF Prefer, TiePrefer, Greater, Violator
<1>4. CASE v.violation # NaN /\ w.violation # NaN
  <2>1. v.violation \in Int /\ w.violation \in Int
    BY <1>4 DEF Violator
  <2> QED
    BY <1>1, <1>4, <2>1 DEF Prefer, TiePrefer, Greater, Violator
<1> QED
  BY <1>3, <1>4

\* prefer_lhs is transitive, NaN violations included.
LEMMA PreferTransitive ==
  ASSUME NEW u \in Violator, NEW v \in Violator, NEW w \in Violator,
         Prefer(u, v), Prefer(v, w)
  PROVE  Prefer(u, w)
<1>1. u.id \in Int /\ v.id \in Int /\ w.id \in Int
  BY IdsAreIntegers DEF Violator
<1>2. CASE w.violation = NaN
  BY <1>1, <1>2 DEF Prefer, TiePrefer, Greater, Violator
<1>3. CASE w.violation # NaN
  <2>1. v.violation # NaN /\ u.violation # NaN
    BY <1>3 DEF Prefer
  <2>2. u.violation \in Int /\ v.violation \in Int /\ w.violation \in Int
    BY <1>3, <2>1 DEF Violator
  <2> QED
    BY <1>1, <1>3, <2>1, <2>2 DEF Prefer, TiePrefer, Greater, Violator
<1> QED
  BY <1>2, <1>3

-----------------------------------------------------------------------------

\* A nonempty set of naturals has a least element.
LEMMA LeastNatural ==
  ASSUME NEW T, T \subseteq Nat, T # {}
  PROVE  \E n \in T : \A m \in T : n <= m
<1> DEFINE R == OpToRel(<, Nat)
<1>1. \A x, y \in Nat : <<y, x>> \in R <=> y < x
  BY DEF OpToRel
<1>2. IsWellFoundedOn(R, Nat)
  BY NatLessThanWellFounded
<1> HIDE DEF R
<1>3. \E x \in T : \A y \in T : ~ (<<y, x>> \in R)
  BY <1>2, WFMin, Zenon
<1>4. \E x \in T : \A y \in T : ~ (y < x)
  BY <1>1, <1>3, Zenon
<1> HIDE <1>1, <1>2, <1>3
<1> QED
  BY <1>4

\* Counting up from 0 reaches every number of a range.
LEMMA RangeInduction ==
  ASSUME NEW N \in Nat, NEW S, 0 \in S, \A k \in 1 .. N : k - 1 \in S => k \in S
  PROVE  0 .. N \subseteq S
<1> DEFINE Bad == {k \in 0 .. N : k \notin S}
<1>1. SUFFICES ASSUME Bad # {} PROVE FALSE
  OBVIOUS
<1>2. PICK k \in Bad : \A j \in Bad : k <= j
  <2>1. Bad \subseteq Nat
    OBVIOUS
  <2> HIDE DEF Bad
  <2> QED
    BY <1>1, <2>1, LeastNatural
<1>3. k \in 1 .. N /\ k - 1 \in 0 .. N /\ ~(k <= k - 1)
  BY <1>2
<1>4. k - 1 \in S
  BY <1>2, <1>3
<1> QED
  BY <1>2, <1>3, <1>4

\* A strict total order on a finite nonempty set has a least member: what a loop
\* that keeps the smaller of two members ends with, in whatever order it goes.
LEMMA FiniteLeast ==
  ASSUME NEW S, IsFiniteSet(S), S # {}, NEW R,
         \A u, v \in S : u # v => <<u, v>> \in R \/ <<v, u>> \in R,
         \A u, v, w \in S : <<u, v>> \in R /\ <<v, w>> \in R => <<u, w>> \in R
  PROVE  \E v \in S : \A w \in S \ {v} : <<v, w>> \in R
<1> DEFINE Least(v, T) == \A w \in T \ {v} : <<v, w>> \in R
           Bad   == {T \in SUBSET S : T # {} /\ \A v \in T : ~Least(v, T)}
           Sizes == {Cardinality(T) : T \in Bad}
<1>1. SUFFICES ASSUME Bad # {} PROVE FALSE
  OBVIOUS
<1>2. \A T \in SUBSET S : IsFiniteSet(T) /\ Cardinality(T) \in Nat
  BY FS_Subset, FS_CardinalityType
<1>3. Sizes \subseteq Nat /\ Sizes # {}
  BY <1>1, <1>2
<1>4. PICK n \in Sizes : \A m \in Sizes : n <= m
  BY <1>3, LeastNatural
<1>5. PICK T \in Bad : Cardinality(T) = n
  BY <1>4
<1>6. PICK x \in T : TRUE
  BY <1>5
<1> DEFINE U == T \ {x}
<1>7. U \notin Bad
  <2> HIDE DEF Bad, U
  <2>1. IsFiniteSet(T) /\ Cardinality(T) \in Nat
    BY <1>2 DEF Bad
  <2>2. Cardinality(U) = Cardinality(T) - 1
    BY <1>6, <2>1, FS_RemoveElement DEF U
  <2>3. U \in Bad => n <= Cardinality(U)
    BY <1>4
  <2> QED
    BY <1>5, <2>1, <2>2, <2>3
<1>8. U # {}
  BY <1>5, <1>6
<1>9. PICK b \in U : Least(b, U)
  BY <1>7, <1>8
<1>10. b \in T /\ x \in T /\ b # x /\ T \subseteq S
  BY <1>6, <1>9
<1>11. CASE <<b, x>> \in R
  <2>1. Least(b, T)
    BY <1>9, <1>11
  <2> QED
    BY <1>5, <1>10, <2>1
<1>12. CASE <<x, b>> \in R
  <2>1. \A w \in T \ {x} : <<x, w>> \in R
    BY <1>9, <1>10, <1>12
  <2> QED
    BY <1>5, <1>10, <2>1
<1> QED
  BY <1>10, <1>11, <1>12

\* v beats every other member of S.
Beats(v, S) == \A w \in S \ {v} : Prefer(v, w)

\* A finite nonempty set of violators has a member that beats the others.
LEMMA BestExists ==
  ASSUME NEW S, IsFiniteSet(S), S # {}, S \subseteq Violator
  PROVE  \E v \in S : Beats(v, S)
<1> DEFINE R == {p \in S \X S : Prefer(p[1], p[2])}
<1>1. \A v, w \in S : <<v, w>> \in R <=> Prefer(v, w)
  OBVIOUS
<1> HIDE DEF R
<1>2. \A v, w \in S : v # w => <<v, w>> \in R \/ <<w, v>> \in R
  BY <1>1, PreferTotal
<1>3. \A u, v, w \in S : <<u, v>> \in R /\ <<v, w>> \in R => <<u, w>> \in R
  BY <1>1, PreferTransitive
<1>4. \E v \in S : \A w \in S \ {v} : <<v, w>> \in R
  BY <1>2, <1>3, FiniteLeast
<1> QED
  BY <1>1, <1>4 DEF Beats

\* There is one such member at most.
LEMMA BestIs ==
  ASSUME NEW S, S \subseteq Violator, NEW v \in S, Beats(v, S)
  PROVE  Best(S) = v
<1>1. \A u \in S : Beats(u, S) => u = v
  BY PreferAsymmetric DEF Beats
<1> QED
  BY <1>1 DEF Best, Beats

\* Best finds it.
LEMMA BestBeats ==
  ASSUME NEW S, IsFiniteSet(S), S # {}, S \subseteq Violator
  PROVE  Best(S) \in S /\ Beats(Best(S), S)
  BY BestExists DEF Best, Beats

\* The best of a union is the best of the two bests, the tie-break included.
LEMMA BestOfUnion ==
  ASSUME NEW S, IsFiniteSet(S), S # {}, S \subseteq Violator,
         NEW T, IsFiniteSet(T), T # {}, T \subseteq Violator
  PROVE  Best(S \cup T) = IF Best(S) = Best(T) \/ Prefer(Best(S), Best(T))
                          THEN Best(S) ELSE Best(T)
<1> DEFINE s == Best(S)
           t == Best(T)
<1>1. s \in S /\ Beats(s, S) /\ t \in T /\ Beats(t, T)
  BY BestBeats
<1>2. s \in Violator /\ t \in Violator
  BY <1>1
<1> HIDE DEF s, t
<1>3. CASE s = t
  <2>1. Beats(s, S \cup T)
    BY <1>1, <1>3 DEF Beats
  <2> QED
    BY <1>1, <1>3, <2>1, BestIs DEF s, t
<1>4. CASE s # t /\ Prefer(s, t)
  <2>1. Beats(s, S \cup T)
    BY <1>1, <1>2, <1>4, PreferTransitive DEF Beats
  <2> QED
    BY <1>1, <1>4, <2>1, BestIs DEF s, t
<1>5. CASE s # t /\ ~Prefer(s, t)
  <2>1. Prefer(t, s)
    BY <1>2, <1>5, PreferTotal
  <2>2. Beats(t, S \cup T)
    BY <1>1, <1>2, <2>1, PreferTransitive DEF Beats
  <2> QED
    BY <1>1, <1>5, <2>2, BestIs DEF s, t
<1> QED
  BY <1>3, <1>4, <1>5

-----------------------------------------------------------------------------

\* There are finitely many blocks and ids.
LEMMA FiniteSystem == IsFiniteSet(Blocks) /\ Blocks # {} /\ IsFiniteSet(Ids)
<1>1. NumBlocks * MLocal \in Nat
  BY SystemAssumption
<1>2. NumBlocks * MLocal + MGlobal - 1 \in Int /\ NumBlocks * MLocal - 1 \in Int
  BY <1>1, SystemAssumption
<1>3. IsFiniteSet(LocalIds) /\ IsFiniteSet(GlobalIds)
  BY <1>1, <1>2, FS_Interval DEF LocalIds, GlobalIds
<1>4. IsFiniteSet(Ids)
  BY <1>3, FS_Union DEF Ids
<1>5. NumBlocks - 1 \in Int /\ 0 \in Blocks
  BY SystemAssumption DEF Blocks
<1>6. IsFiniteSet(Blocks)
  BY <1>5, FS_Interval DEF Blocks
<1> QED
  BY <1>4, <1>5, <1>6

\* The image of a finite set under a function is finite.
LEMMA FiniteImage ==
  ASSUME NEW S, IsFiniteSet(S), NEW f, f \in [S -> {f[x] : x \in S}]
  PROVE  IsFiniteSet({f[x] : x \in S})
<1>1. f \in Surjection(S, {f[x] : x \in S})
  BY DEF Surjection
<1> QED
  BY <1>1, FS_Surjection

\* A scan meets finitely many candidates.
LEMMA CandidatesFinite ==
  ASSUME NEW S \in SUBSET Ids, NEW q, NEW rhs
  PROVE  IsFiniteSet(Candidates(S, q, rhs))
<1> DEFINE f == [id \in S |-> Candidate(id, q, rhs)]
<1>1. IsFiniteSet(S)
  BY FiniteSystem, FS_Subset
<1>2. Candidates(S, q, rhs) = {f[x] : x \in S}
  BY DEF Candidates
<1>3. f \in [S -> {f[x] : x \in S}]
  OBVIOUS
<1> HIDE DEF f
<1> QED
  BY <1>1, <1>2, <1>3, FiniteImage

\* A local id belongs to a block.
LEMMA BlockOfLocal == \A id \in LocalIds : BlockOf(id) \in Blocks
<1> SUFFICES ASSUME NEW id \in LocalIds PROVE BlockOf(id) \in Blocks
  OBVIOUS
<1>1. NumBlocks \in Nat /\ MLocal \in Nat /\ MLocal > 0 /\ id \in Nat /\ id < NumBlocks * MLocal
  BY SystemAssumption DEF LocalIds
<1> DEFINE b == id \div MLocal
<1>2. b \in Int /\ b * MLocal <= id /\ id < b * MLocal + MLocal
  BY <1>1, Z3
<1>3. b >= 0 /\ b < NumBlocks
  BY <1>1, <1>2, Z3
<1> QED
  BY <1>1, <1>3 DEF BlockOf, Blocks
-----------------------------------------------------------------------------

\* The sentinels and the ids they carry are violators.
LEMMA SentinelsAreViolators ==
  NegativeInfinityLocal \in Violator /\ NegativeInfinityGlobal \in Violator
  BY SystemAssumption DEF NegativeInfinityLocal, NegativeInfinityGlobal, Violator

\* What a block's entry is, given that its rows evaluate to violators.
LEMMA BlockBestBeats ==
  ASSUME NEW b, NEW active, NEW q, NEW rhs,
         Candidates(LocalIds, q, rhs) \subseteq Violator
  PROVE  LET S == Candidates(RowsOf(b) \ active, q, rhs) \cup {NegativeInfinityLocal}
         IN  /\ BlockBest(b, active, q, rhs) \in S
             /\ BlockBest(b, active, q, rhs) \in Violator
             /\ Beats(BlockBest(b, active, q, rhs), S)
<1> DEFINE C == Candidates(RowsOf(b) \ active, q, rhs)
           S == C \cup {NegativeInfinityLocal}
<1>1. IsFiniteSet(C)
  BY CandidatesFinite DEF RowsOf, Ids
<1>2. IsFiniteSet(S)
  BY <1>1, FS_AddElement
<1>3. C \subseteq Violator
  BY DEF Candidates, RowsOf
<1>4. S \subseteq Violator /\ S # {}
  BY <1>3, SentinelsAreViolators
<1>5. BlockBest(b, active, q, rhs) = Best(S)
  BY DEF BlockBest
<1> HIDE DEF S
<1>6. Best(S) \in S /\ Beats(Best(S), S)
  BY <1>2, <1>4, BestBeats
<1> QED
  BY <1>4, <1>5, <1>6 DEF S

\* What the global entry is, given that the global rows evaluate to violators.
LEMMA GlobalBestBeats ==
  ASSUME NEW active, NEW q, NEW rhs,
         Candidates(GlobalIds, q, rhs) \subseteq Violator
  PROVE  LET S == Candidates(GlobalIds \ active, q, rhs) \cup {NegativeInfinityGlobal}
         IN  /\ GlobalBest(active, q, rhs) \in S
             /\ GlobalBest(active, q, rhs) \in Violator
             /\ Beats(GlobalBest(active, q, rhs), S)
<1> DEFINE C == Candidates(GlobalIds \ active, q, rhs)
           S == C \cup {NegativeInfinityGlobal}
<1>1. IsFiniteSet(C)
  BY CandidatesFinite DEF Ids
<1>2. IsFiniteSet(S)
  BY <1>1, FS_AddElement
<1>3. C \subseteq Violator
  BY DEF Candidates
<1>4. S \subseteq Violator /\ S # {}
  BY <1>3, SentinelsAreViolators
<1>5. GlobalBest(active, q, rhs) = Best(S)
  BY DEF GlobalBest
<1> HIDE DEF S
<1>6. Best(S) \in S /\ Beats(Best(S), S)
  BY <1>2, <1>4, BestBeats
<1> QED
  BY <1>4, <1>5, <1>6 DEF S

\* Merging the best of up-to-date block entries with the global entry gives the
\* worst row outside the mask that a scan of all rows would give.
LEMMA MergedIsWorst ==
  ASSUME NEW active, NEW q, NEW rhs,
         Candidates(Ids, q, rhs) \subseteq Violator,
         NEW best, best = [b \in Blocks |-> BlockBest(b, active, q, rhs)]
  PROVE  /\ Best({best[b] : b \in Blocks}) \in Violator
         /\ Merge(Best({best[b] : b \in Blocks}), GlobalBest(active, q, rhs))
              = WorstInactive(active, q, rhs)
<1> DEFINE E == {best[b] : b \in Blocks}
           L == Best(E)
           G == GlobalBest(active, q, rhs)
           M == Merge(L, G)
           W == Candidates(Ids \ active, q, rhs)
                  \cup {NegativeInfinityLocal, NegativeInfinityGlobal}
           R(b) == Candidates(RowsOf(b) \ active, q, rhs) \cup {NegativeInfinityLocal}
           H == Candidates(GlobalIds \ active, q, rhs) \cup {NegativeInfinityGlobal}
<1>1. /\ Candidates(LocalIds, q, rhs) \subseteq Violator
      /\ Candidates(GlobalIds, q, rhs) \subseteq Violator
  BY DEF Candidates, Ids
<1>2. \A b \in Blocks : best[b] \in R(b) /\ best[b] \in Violator /\ Beats(best[b], R(b))
  BY <1>1, BlockBestBeats
<1>3. G \in H /\ G \in Violator /\ Beats(G, H)
  BY <1>1, GlobalBestBeats
<1>4. IsFiniteSet(E) /\ E # {} /\ E \subseteq Violator
  <2>1. best \in [Blocks -> E]
    OBVIOUS
  <2>2. IsFiniteSet(E)
    BY <2>1, FiniteSystem, FiniteImage
  <2>3. \A b \in Blocks : best[b] \in Violator
    BY <1>2
  <2> QED
    BY <2>2, <2>3, FiniteSystem
<1>5. L \in E /\ Beats(L, E) /\ L \in Violator
  BY <1>4, BestBeats
<1>6. W \subseteq Violator
  BY SentinelsAreViolators DEF Candidates
<1>7. \A b \in Blocks : R(b) \subseteq W
  BY DEF Candidates, RowsOf, Ids
<1>8. H \subseteq W
  BY DEF Candidates, Ids
<1>9. W \subseteq H \cup UNION {R(b) : b \in Blocks}
  <2>1. ASSUME NEW id \in LocalIds \ active
        PROVE  Candidate(id, q, rhs) \in UNION {R(b) : b \in Blocks}
    <3>1. BlockOf(id) \in Blocks
      BY BlockOfLocal
    <3>2. id \in RowsOf(BlockOf(id)) \ active
      BY DEF RowsOf
    <3>3. Candidate(id, q, rhs) \in R(BlockOf(id))
      BY <3>2 DEF Candidates
    <3> QED
      BY <3>1, <3>3
  <2>2. NegativeInfinityLocal \in UNION {R(b) : b \in Blocks}
    BY FiniteSystem
  <2> QED
    BY <2>1, <2>2 DEF Candidates, Ids
<1>10. L \in W /\ G \in W /\ M \in {L, G}
  BY <1>2, <1>3, <1>5, <1>7, <1>8 DEF Merge
<1>11. M = L \/ Prefer(M, L)
  BY <1>3, <1>5, PreferTotal DEF Merge
<1>12. M = G \/ Prefer(M, G)
  BY DEF Merge
<1> HIDE DEF M
<1>13. \A w \in H : w = M \/ Prefer(M, w)
  <2> SUFFICES ASSUME NEW w \in H PROVE w = M \/ Prefer(M, w)
    OBVIOUS
  <2>1. w = G \/ Prefer(G, w)
    BY <1>3 DEF Beats
  <2>2. w \in Violator /\ G \in Violator /\ M \in Violator
    BY <1>6, <1>8, <1>10
  <2> QED
    BY <1>12, <2>1, <2>2, PreferTransitive
<1>14. ASSUME NEW b \in Blocks, NEW w \in R(b) PROVE w = M \/ Prefer(M, w)
  <2>1. w = best[b] \/ Prefer(best[b], w)
    BY <1>2 DEF Beats
  <2>2. best[b] = L \/ Prefer(L, best[b])
    BY <1>5 DEF Beats
  <2>3. w \in Violator /\ best[b] \in Violator /\ L \in Violator /\ M \in Violator
    BY <1>2, <1>5, <1>6, <1>7, <1>10
  <2>4. w = L \/ Prefer(L, w)
    BY <2>1, <2>2, <2>3, PreferTransitive
  <2> QED
    BY <1>11, <2>3, <2>4, PreferTransitive
<1>15. Beats(M, W)
  <2> HIDE DEF W, H, R
  <2>1. \A w \in W : w = M \/ Prefer(M, w)
    BY <1>9, <1>13, <1>14
  <2> QED
    BY <2>1 DEF Beats
<1>16. Best(W) = M
  BY <1>6, <1>10, <1>15, BestIs
<1> QED
  BY <1>5, <1>16 DEF WorstInactive, M
=============================================================================
