-------------------------- MODULE ProjectorProofs --------------------------
(***************************************************************************)
(* Proofs about Projector: types and capacity, the agreement of the mask   *)
(* with the projector's record of it, the coherence of the factor across   *)
(* calls, and the freshness of the incrementally updated oracle. Then what *)
(* project returns: an accepted output is certified in every row although  *)
(* finalize_with_safety looks at the active rows only, a fallback's output *)
(* is whenever the anchor is, what remains of this for a caller that keeps *)
(* its right-hand side, and that an accepted candidate is the solution of  *)
(* its active set.                                                         *)
(***************************************************************************)
EXTENDS Projector, ViolatorsProofs

-----------------------------------------------------------------------------
\* Lists of distinct ids.

\* What membership in IdLists says.
LEMMA IdListFacts ==
  ASSUME NEW s \in IdLists
  PROVE  /\ Len(s) \in 0 .. MaxActive
         /\ DOMAIN s = 1 .. Len(s)
         /\ s \in [1 .. Len(s) -> Ids]
         /\ s \in Seq(Ids)
         /\ \A i, j \in DOMAIN s : s[i] = s[j] => i = j
         /\ Elems(s) \subseteq Ids
<1>1. PICK k \in 0 .. MaxActive : s \in [1 .. k -> Ids]
  BY DEF IdLists
<1>2. Len(s) = k /\ s \in Seq(Ids)
  BY <1>1, ParameterAssumption
<1>3. \A i, j \in DOMAIN s : s[i] = s[j] => i = j
  BY DEF IdLists
<1> QED
  BY <1>1, <1>2, <1>3 DEF Elems

\* A list of distinct ids that fits is in IdLists.
LEMMA IdListIntro ==
  ASSUME NEW k \in 0 .. MaxActive, NEW s \in [1 .. k -> Ids],
         \A i, j \in 1 .. k : s[i] = s[j] => i = j
  PROVE  s \in IdLists
  BY DEF IdLists

\* The list without rows.
LEMMA EmptyIdList == <<>> \in IdLists /\ Elems(<<>>) = {} /\ Len(<<>>) = 0
<1>1. <<>> \in [1 .. 0 -> Ids]
  OBVIOUS
<1>2. 0 \in 0 .. MaxActive
  BY ParameterAssumption
<1>3. <<>> \in IdLists
  <2>1. <<>> \in UNION {[1 .. k -> Ids] : k \in 0 .. MaxActive}
    BY <1>1, <1>2
  <2>2. DOMAIN <<>> = {}
    OBVIOUS
  <2> QED
    BY <2>1, <2>2 DEF IdLists
<1>4. Elems(<<>>) = {}
  BY DEF Elems
<1> QED
  BY <1>3, <1>4

\* vector::erase keeps the ids distinct and loses exactly the erased one.
LEMMA RemoveAtList ==
  ASSUME NEW s \in IdLists, NEW i \in DOMAIN s
  PROVE  /\ RemoveAt(s, i) \in IdLists
         /\ Elems(RemoveAt(s, i)) = Elems(s) \ {s[i]}
         /\ Len(RemoveAt(s, i)) = Len(s) - 1
<1> DEFINE r == RemoveAt(s, i)
           n == Len(s)
<1>1. /\ n \in 0 .. MaxActive /\ i \in 1 .. n
      /\ s \in [1 .. n -> Ids]
      /\ \A j, k \in 1 .. n : s[j] = s[k] => j = k
  BY IdListFacts
<1>2. n - 1 \in 0 .. MaxActive
  BY <1>1, ParameterAssumption
<1>3. r = [j \in 1 .. n - 1 |-> IF j < i THEN s[j] ELSE s[j + 1]]
  BY DEF RemoveAt
<1>4. r \in [1 .. n - 1 -> Ids]
  BY <1>1, <1>3
<1>5. \A j, k \in 1 .. n - 1 : r[j] = r[k] => j = k
  BY <1>1, <1>3
<1>6. r \in IdLists
  BY <1>2, <1>4, <1>5, IdListIntro
<1>7. DOMAIN r = 1 .. n - 1 /\ Len(r) = n - 1
  BY <1>2, <1>4, <1>6, IdListFacts
<1>8. \A j \in 1 .. n - 1 : r[j] \in Elems(s) \ {s[i]}
  <2> SUFFICES ASSUME NEW j \in 1 .. n - 1 PROVE r[j] \in Elems(s) \ {s[i]}
    OBVIOUS
  <2>1. CASE j < i
    BY <1>1, <1>3, <2>1 DEF Elems
  <2>2. CASE ~(j < i)
    BY <1>1, <1>3, <2>2 DEF Elems
  <2> QED
    BY <2>1, <2>2
<1>9. \A x \in Elems(s) \ {s[i]} : \E j \in 1 .. n - 1 : x = r[j]
  <2> SUFFICES ASSUME NEW k \in 1 .. n, k # i
               PROVE  \E j \in 1 .. n - 1 : s[k] = r[j]
    BY <1>1 DEF Elems
  <2>1. CASE k < i
    BY <1>1, <1>3, <2>1
  <2>2. CASE k > i
    <3>1. k - 1 \in 1 .. n - 1 /\ ~(k - 1 < i) /\ (k - 1) + 1 = k
      BY <1>1, <2>2
    <3>2. r[k - 1] = s[k]
      BY <1>3, <3>1
    <3> QED
      BY <3>1, <3>2
  <2> QED
    BY <1>1, <2>1, <2>2
<1>10. Elems(r) = Elems(s) \ {s[i]}
  <2>1. Elems(r) = {r[j] : j \in 1 .. n - 1}
    BY ONLY <1>7 DEF Elems
  <2> HIDE DEF r, n
  <2> QED
    BY ONLY <1>8, <1>9, <2>1
<1> QED
  BY ONLY <1>6, <1>7, <1>10

\* push_back of an id that is not in the list.
LEMMA AppendList ==
  ASSUME NEW s \in IdLists, NEW id \in Ids, id \notin Elems(s), Len(s) < MaxActive
  PROVE  /\ Append(s, id) \in IdLists
         /\ Elems(Append(s, id)) = Elems(s) \cup {id}
         /\ Len(Append(s, id)) = Len(s) + 1
<1> DEFINE r == Append(s, id)
           n == Len(s)
<1>1. /\ n \in 0 .. MaxActive /\ s \in [1 .. n -> Ids] /\ s \in Seq(Ids)
      /\ DOMAIN s = 1 .. n
      /\ \A j, k \in 1 .. n : s[j] = s[k] => j = k
  BY IdListFacts
<1>2. n + 1 \in 0 .. MaxActive
  BY <1>1, ParameterAssumption
<1>3. /\ r \in [1 .. n + 1 -> Ids] /\ DOMAIN r = 1 .. n + 1 /\ Len(r) = n + 1
      /\ \A j \in 1 .. n : r[j] = s[j]
      /\ r[n + 1] = id
  <2>1. r \in Seq(Ids) /\ Len(r) = n + 1 /\ r[n + 1] = id
    BY <1>1
  <2>2. \A j \in 1 .. n : r[j] = s[j]
    BY <1>1
  <2> HIDE DEF r
  <2> QED
    BY <2>1, <2>2
<1>4. \A j \in 1 .. n : s[j] # id
  BY <1>1 DEF Elems
<1>5. \A j, k \in 1 .. n + 1 : r[j] = r[k] => j = k
  BY <1>1, <1>3, <1>4
<1>6. r \in IdLists
  BY <1>2, <1>3, <1>5, IdListIntro
<1>7. Elems(r) = Elems(s) \cup {id}
  BY <1>1, <1>3 DEF Elems
<1> QED
  BY <1>3, <1>6, <1>7
\* A list is its first rows with the last one pushed back.
LEMMA AppendBack ==
  ASSUME NEW p \in IdLists, NEW list \in IdLists, Len(p) + 1 = Len(list),
         \A i \in DOMAIN p : p[i] = list[i]
  PROVE  Append(p, list[Len(list)]) = list
<1> DEFINE n == Len(list)
           r == Append(p, list[n])
<1>1. /\ Len(p) \in Nat /\ p \in Seq(Ids) /\ DOMAIN p = 1 .. Len(p)
      /\ n \in Nat /\ list \in [1 .. n -> Ids]
  BY IdListFacts
<1>2. n \in 1 .. n /\ Len(p) = n - 1
  BY <1>1
<1>3. r \in Seq(Ids) /\ Len(r) = n /\ r[n] = list[n]
  <2>1. list[n] \in Ids /\ Len(p) + 1 = n
    BY <1>1, <1>2
  <2> DEFINE x == list[n]
  <2> HIDE DEF x, n
  <2>2. Append(p, x) \in Seq(Ids) /\ Len(Append(p, x)) = n
    BY <1>1, <2>1 DEF x
  <2>3. Append(p, x)[n] = x
    BY <1>1, <2>1 DEF x
  <2> QED
    BY <2>2, <2>3 DEF x
<1>4. \A j \in 1 .. n - 1 : r[j] = list[j]
  BY <1>1, <1>2
<1> HIDE DEF r
<1>5. \A j \in 1 .. n : r[j] = list[j]
  BY <1>1, <1>3, <1>4
<1>6. r \in [1 .. n -> Ids]
  BY <1>3
<1>7. r = list
  BY <1>1, <1>5, <1>6
<1> QED
  BY <1>7 DEF r

-----------------------------------------------------------------------------
\* The factor.

\* The factor's three lists agree and name rows whose Gram matrix factorizes.
Coherent(f) ==
    /\ f \in Factors
    /\ f.refs = f.ids
    /\ f.l = f.ids
    /\ f.ids = <<>> \/ Factorable(f.ids)

LEMMA EmptyFactorCoherent ==
  Coherent(EmptyFactor) /\ EmptyFactor.ids = <<>> /\ EmptyFactor.refs = <<>>
  BY EmptyIdList DEF Coherent, EmptyFactor, Factors

\* Whichever of keep, append, remove and rebuild succeeds, the factor it leaves is
\* coherent and is that of the requested list.
LEMMA RefactorOk ==
  ASSUME NEW f, Coherent(f), NEW list \in IdLists, list # <<>>, Refactor(f, list).ok
  PROVE  Coherent(Refactor(f, list).factor) /\ Refactor(f, list).factor.ids = list
<1> DEFINE Good(g) == Coherent(g) /\ g.ids = list
<1>1. /\ f.ids \in IdLists /\ f.refs = f.ids /\ f.l = f.ids /\ f.valid \in BOOLEAN
      /\ f = [ids |-> f.ids, refs |-> f.refs, l |-> f.l, valid |-> f.valid]
      /\ f.ids = <<>> \/ Factorable(f.ids)
  BY DEF Coherent, Factors
<1>2. ASSUME Rebuild(f, list).ok PROVE Good(Rebuild(f, list).factor)
  BY <1>2 DEF Rebuild, Ok, Failed, Coherent, Factors
<1>3. ASSUME f.ids = list PROVE Good(Ok(f).factor)
  BY <1>3 DEF Ok
<1>4. ASSUME NEW id, Append(f.ids, id) = list, AppendRow(f, id).ok
      PROVE  Good(AppendRow(f, id).factor)
  <2>1. Factorable(list)
    BY <1>1, <1>4 DEF AppendRow, Ok, Failed
  <2>2. AppendRow(f, id).factor = [f EXCEPT !.ids = list, !.refs = list, !.l = list]
    BY <1>1, <1>4, <2>1 DEF AppendRow, Ok
  <2> QED
    BY <1>1, <2>1, <2>2 DEF Coherent, Factors
<1>5. ASSUME NEW i, RemoveAt(f.ids, i) = list, DeleteRow(f, i).ok
      PROVE  Good(DeleteRow(f, i).factor)
  <2>1. Factorable(list)
    BY <1>1, <1>5 DEF DeleteRow, Ok, Failed
  <2>2. DeleteRow(f, i).factor = [f EXCEPT !.ids = list, !.refs = list, !.l = list]
    BY <1>1, <1>5, <2>1 DEF DeleteRow, Ok
  <2> QED
    BY <1>1, <2>1, <2>2 DEF Coherent, Factors
<1>6. ASSUME Len(f.ids) + 1 = Len(list), \A i \in DOMAIN f.ids : f.ids[i] = list[i]
      PROVE  Append(f.ids, list[Len(list)]) = list
  BY <1>1, <1>6, AppendBack
<1>7. RemovalPos(f.ids, list) # 0 => RemoveAt(f.ids, RemovalPos(f.ids, list)) = list
  BY DEF RemovalPos
<1> QED
  BY <1>1, <1>2, <1>3, <1>4, <1>5, <1>6, <1>7 DEF Refactor

\* solve_active_system: on success the factor is that of the list it was given.
LEMMA SolveOk ==
  ASSUME NEW f, Coherent(f), NEW list \in IdLists, Solve(f, list).ok
  PROVE  /\ Coherent(Solve(f, list).factor)
         /\ Solve(f, list).factor.ids = list
         /\ list = <<>> => Solve(f, list).factor = EmptyFactor
<1>1. CASE list = <<>>
  BY <1>1, EmptyFactorCoherent DEF Solve, Ok
<1>2. CASE list # <<>>
  <2>1. Solve(f, list) = Refactor(f, list)
    BY <1>2 DEF Solve, Failed
  <2> QED
    BY <1>2, <2>1, RefactorOk
<1> QED
  BY <1>1, <1>2
\* Among finitely many positions of a list of integers, one holds the least value,
\* and of several such the first.
LEMMA LeastPosition ==
  ASSUME NEW k \in Nat, NEW v \in [1 .. k -> Int], NEW N \in SUBSET (1 .. k), N # {}
  PROVE  \E i \in N : \A j \in N : v[i] < v[j] \/ (v[i] = v[j] /\ i <= j)
<1> DEFINE R == {p \in N \X N : v[p[1]] < v[p[2]] \/ (v[p[1]] = v[p[2]] /\ p[1] <= p[2])}
<1>1. IsFiniteSet(N)
  <2>1. 1 \in Int /\ k \in Int
    OBVIOUS
  <2>2. IsFiniteSet(1 .. k)
    BY <2>1, FS_Interval
  <2> QED
    BY <2>2, FS_Subset
<1>2. \A i, j \in N : <<i, j>> \in R <=> v[i] < v[j] \/ (v[i] = v[j] /\ i <= j)
  OBVIOUS
<1>3. \A i \in N : i \in Int /\ v[i] \in Int
  OBVIOUS
<1> HIDE DEF R
<1>4. \A i, j \in N : i # j => <<i, j>> \in R \/ <<j, i>> \in R
  BY <1>2, <1>3
<1>5. \A h, i, j \in N : <<h, i>> \in R /\ <<i, j>> \in R => <<h, j>> \in R
  <2> TAKE h, i, j \in N
  <2>1. h \in Int /\ i \in Int /\ j \in Int /\ v[h] \in Int /\ v[i] \in Int /\ v[j] \in Int
    BY <1>3
  <2> DEFINE Below(a, b) == v[a] < v[b] \/ (v[a] = v[b] /\ a <= b)
  <2>2. Below(h, i) /\ Below(i, j) => Below(h, j)
    BY ONLY <2>1
  <2>3. /\ <<h, i>> \in R <=> Below(h, i)
        /\ <<i, j>> \in R <=> Below(i, j)
        /\ <<h, j>> \in R <=> Below(h, j)
    BY ONLY <1>2, h \in N, i \in N, j \in N
  <2> QED
    BY ONLY <2>2, <2>3
<1>6. PICK i \in N : \A j \in N \ {i} : <<i, j>> \in R
  BY <1>1, <1>4, <1>5, FiniteLeast
<1>7. ASSUME NEW j \in N PROVE v[i] < v[j] \/ (v[i] = v[j] /\ i <= j)
  <2>1. CASE j = i
    BY <1>3, <2>1
  <2>2. CASE j # i
    BY <1>2, <1>6, <2>2
  <2> QED
    BY <2>1, <2>2
<1> QED
  BY <1>7

\* The most negative multiplier has a position.
LEMMA DropPosFound ==
  ASSUME NEW k \in Nat, NEW lambda \in [1 .. k -> Int], Negative(lambda) # {}
  PROVE  DropPos(lambda) \in 1 .. k
<1>1. Negative(lambda) \in SUBSET (1 .. k)
  BY DEF Negative
<1>2. \E i \in Negative(lambda) : \A j \in Negative(lambda) :
        lambda[i] < lambda[j] \/ (lambda[i] = lambda[j] /\ i <= j)
  BY <1>1, LeastPosition
<1>3. DropPos(lambda) \in Negative(lambda)
  BY <1>2 DEF DropPos
<1> QED
  BY <1>1, <1>3

-----------------------------------------------------------------------------
\* The oracle.

\* A violator that names a row, unless its violation is that of a sentinel.
Genuine == {v \in Violator : v.violation \in Int /\ (v.id = NoId => v.violation <= 0)}

LEMMA NoIdIsNone == NoId \notin Ids
<1>1. NumBlocks * MLocal \in Nat
  BY SystemAssumption
<1> QED
  BY <1>1, SystemAssumption DEF Ids, LocalIds, GlobalIds, NoId

\* The rows of a point evaluate to numbers, so every candidate names its row.
LEMMA CandidatesGenuine ==
  ASSUME NEW q \in Points, NEW r \in RightHandSides
  PROVE  Candidates(Ids, q, r) \subseteq Genuine
<1> SUFFICES ASSUME NEW id \in Ids PROVE Candidate(id, q, r) \in Genuine
  BY DEF Candidates
<1>1. RowViolation(id, q, r) \in Int
  <2>1. CASE id \in LocalIds
    <3>1. q[BlockOf(id)] \in Parts
      BY <2>1, BlockOfLocal DEF Points
    <3> QED
      BY <2>1, <3>1, NumericAssumption DEF RowViolation
  <2>2. CASE id \notin LocalIds
    BY <2>2, NumericAssumption DEF RowViolation, Ids
  <2> QED
    BY <2>1, <2>2
<1>2. Scope(id) \in {"LOCAL", "GLOBAL"}
  BY DEF Scope
<1> QED
  BY <1>1, <1>2, NoIdIsNone DEF Candidate, Genuine, Violator

LEMMA SentinelsGenuine == NegativeInfinityLocal \in Genuine /\ NegativeInfinityGlobal \in Genuine
  BY SentinelsAreViolators, SystemAssumption, ParameterAssumption
     DEF NegativeInfinityLocal, NegativeInfinityGlobal, Genuine

\* Every entry a scan produces is genuine.
LEMMA ScansGenuine ==
  ASSUME NEW q \in Points, NEW r \in RightHandSides, NEW active
  PROVE  /\ \A b \in Blocks : BlockBest(b, active, q, r) \in Genuine
         /\ GlobalBest(active, q, r) \in Genuine
<1>1. Candidates(Ids, q, r) \subseteq Genuine
  BY CandidatesGenuine
<1>2. /\ Candidates(LocalIds, q, r) \subseteq Genuine
      /\ Candidates(GlobalIds, q, r) \subseteq Genuine
  BY <1>1 DEF Candidates, Ids
<1>3. Genuine \subseteq Violator
  BY DEF Genuine
<1>4. ASSUME NEW b \in Blocks PROVE BlockBest(b, active, q, r) \in Genuine
  <2>1. BlockBest(b, active, q, r)
          \in Candidates(RowsOf(b) \ active, q, r) \cup {NegativeInfinityLocal}
    BY <1>2, <1>3, BlockBestBeats
  <2>2. Candidates(RowsOf(b) \ active, q, r) \subseteq Candidates(LocalIds, q, r)
    BY DEF Candidates, RowsOf
  <2> QED
    BY <1>2, <2>1, <2>2, SentinelsGenuine
<1>5. GlobalBest(active, q, r) \in Genuine
  <2>1. GlobalBest(active, q, r)
          \in Candidates(GlobalIds \ active, q, r) \cup {NegativeInfinityGlobal}
    BY <1>2, <1>3, GlobalBestBeats
  <2>2. Candidates(GlobalIds \ active, q, r) \subseteq Candidates(GlobalIds, q, r)
    BY DEF Candidates
  <2> QED
    BY <1>2, <2>1, <2>2, SentinelsGenuine
<1> QED
  BY <1>4, <1>5

\* The oracle's cached entries are genuine.
GenuineOracle(o) ==
    /\ o \in OracleStates
    /\ \A b \in Blocks : o.blockBest[b] \in Genuine
    /\ o.globalBest \in Genuine
    /\ o.last \in Genuine

\* init_tick and update_blocks keep the mask and leave genuine entries.
LEMMA RecomputeGenuine ==
  ASSUME rhs \in RightHandSides, NEW o, GenuineOracle(o), NEW touched, NEW q \in Points
  PROVE  GenuineOracle(Recompute(o, touched, q)) /\ Recompute(o, touched, q).active = o.active
<1> DEFINE best == [b \in Blocks |-> IF b \in touched THEN BlockBest(b, o.active, q, rhs)
                                     ELSE o.blockBest[b]]
           gbest == GlobalBest(o.active, q, rhs)
           E == {best[b] : b \in Blocks}
           n == Recompute(o, touched, q)
<1>1. n = [active |-> o.active, blockBest |-> best, globalBest |-> gbest,
           last |-> Merge(Best(E), gbest)]
  BY DEF Recompute
<1>2. gbest \in Genuine /\ \A b \in Blocks : best[b] \in Genuine
  BY ScansGenuine DEF GenuineOracle
<1>3. best \in [Blocks -> E] /\ E \subseteq Genuine /\ E # {}
  BY <1>2, FiniteSystem
<1>4. IsFiniteSet(E)
  <2> HIDE DEF best
  <2> QED
    BY <1>3, FiniteSystem, FiniteImage
<1> HIDE DEF best, gbest, E, n
<1>5. Genuine \subseteq Violator
  BY DEF Genuine
<1>6. Best(E) \in Genuine
  BY <1>3, <1>4, <1>5, BestBeats
<1>7. Merge(Best(E), gbest) \in Genuine
  BY <1>2, <1>6 DEF Merge
<1>8. o.active \in SUBSET Ids
  BY DEF GenuineOracle, OracleStates
<1>9. best \in [Blocks -> Violator]
  BY <1>3, <1>5
<1>10. n \in OracleStates
  BY <1>1, <1>2, <1>5, <1>7, <1>8, <1>9 DEF OracleStates
<1> QED
  BY <1>1, <1>2, <1>7, <1>10 DEF GenuineOracle, n
-----------------------------------------------------------------------------
\* The inductive invariant.

\* TypeOK alone does not bound the list that a solve extends; the mask's coherence
\* tells that an entering row is not in it, the factor's that a successful solve is
\* that of the list, and the genuine entries that the row to enter exists.
IInv ==
    /\ TypeOK
    /\ MaskCoherent
    /\ FactorCoherent
    /\ Coherent(factor)
    /\ GenuineOracle(oracle)

LEMMA InitIInv == Init => IInv
<1> SUFFICES ASSUME Init PROVE IInv
  OBVIOUS
<1>1. Coherent(factor) /\ FactorCoherent
  BY EmptyFactorCoherent DEF Init, Coherent, EmptyFactor, Factors, FactorCoherent
<1>2. GenuineOracle(oracle)
  BY SentinelsGenuine, SentinelsAreViolators DEF Init, GenuineOracle, OracleStates
<1>3. TypeOK
  BY <1>1, <1>2, EmptyIdList, ParameterAssumption
     DEF Init, TypeOK, Coherent, GenuineOracle, NoReturn
<1>4. MaskCoherent
  BY DEF Init, MaskCoherent
<1> QED
  BY <1>1, <1>2, <1>3, <1>4 DEF IInv

\* Any way into fallback_to_anchor with the mask and its record in agreement.
LEMMA FallbackIInv ==
  ASSUME IInv, NEW mask, FallbackToAnchor(mask, mask)
  PROVE  IInv'
<1>1. /\ warm' = <<>> /\ factor' = EmptyFactor /\ oracleIds' = {}
      /\ pc' = "idle" /\ prop' = Origin /\ qCurr' = Origin /\ ids' = <<>> /\ iter' = 0
      /\ UNCHANGED <<opts, rhs, rhsSet, kappaValid, qPrev, havePrev>>
  BY DEF FallbackToAnchor, LeaveLoop, settingVars
<1>2. oracle' = [oracle EXCEPT !.active = {}]
  BY DEF FallbackToAnchor
<1>3. ret'.kind = "fallback"
  BY DEF FallbackToAnchor, Return
<1>4. Coherent(factor)' /\ FactorCoherent'
  BY <1>1, EmptyFactorCoherent DEF Coherent, EmptyFactor, FactorCoherent, Factors
<1>5. GenuineOracle(oracle)'
  BY <1>2 DEF IInv, GenuineOracle, OracleStates
<1>6. TypeOK'
  BY <1>1, <1>3, <1>4, <1>5, EmptyIdList, ParameterAssumption
     DEF IInv, TypeOK, Coherent, GenuineOracle
<1>7. MaskCoherent'
  BY <1>1, <1>2, <1>5 DEF MaskCoherent, GenuineOracle, OracleStates
<1> QED
  BY <1>4, <1>5, <1>6, <1>7 DEF IInv

\* A turn that drops a row from a list whose rows are exactly the masked ones.
LEMMA DropIInv ==
  ASSUME IInv, pc = "loop", NEW list \in IdLists, NEW f, Coherent(f), NEW i \in DOMAIN list,
         NEW entered, Len(list) - 1 <= Larger(opts.aMax, Len(warm)),
         Drop(list, f, i, Elems(list), Elems(list), entered)
  PROVE  IInv'
<1> DEFINE o == [oracle EXCEPT !.active = Elems(list) \ {list[i]}]
           touched == MaskBlocks({list[i]} \cup entered)
<1>1. /\ ids' = RemoveAt(list, i)
      /\ factor' = IF ids' = <<>> THEN EmptyFactor ELSE f
      /\ oracle' = Recompute(o, touched, qCurr)
      /\ oracleIds' = Elems(list) \ {list[i]}
      /\ iter' = iter + 1
      /\ UNCHANGED <<opts, rhs, rhsSet, kappaValid, warm, qPrev, havePrev, pc, prop, qCurr, ret>>
  BY DEF Drop, settingVars
<1>2. /\ ids' \in IdLists
      /\ Elems(ids') = Elems(list) \ {list[i]}
      /\ Len(ids') = Len(list) - 1
  BY <1>1, RemoveAtList
<1>3. Coherent(factor)' /\ FactorCoherent'
  BY <1>1, EmptyFactorCoherent DEF Coherent, FactorCoherent
<1>4. GenuineOracle(o)
  BY IdListFacts DEF IInv, GenuineOracle, OracleStates
<1>5. rhs \in RightHandSides /\ qCurr \in Points
  BY DEF IInv, TypeOK
<1>6. GenuineOracle(oracle)' /\ oracle'.active = o.active
  BY <1>1, <1>4, <1>5, RecomputeGenuine
<1>7. o.active = Elems(list) \ {list[i]}
  BY DEF IInv, GenuineOracle, OracleStates
<1>8. MaskCoherent'
  BY <1>1, <1>2, <1>6, <1>7 DEF MaskCoherent
<1> HIDE DEF o, touched
<1>9. TypeOK'
  BY <1>1, <1>2, <1>3, <1>6, IdListFacts DEF IInv, TypeOK, Coherent, GenuineOracle, Larger
<1> QED
  BY <1>3, <1>6, <1>8, <1>9 DEF IInv
LEMMA SetOptionsIInv ==
  ASSUME IInv, NEW o \in OptionSets, SetOptions(o)
  PROVE  IInv'
<1>1. /\ pc = "idle" /\ opts' = o /\ havePrev' = FALSE
      /\ factor' = [factor EXCEPT !.valid = FALSE] /\ ret' = NoReturn
      /\ UNCHANGED <<rhs, rhsSet, kappaValid, warm, oracle, oracleIds, qPrev,
                     pc, prop, qCurr, ids, iter>>
  BY DEF SetOptions, tickVars
<1>2. Coherent(factor)' /\ FactorCoherent'
  BY <1>1 DEF IInv, Coherent, FactorCoherent, Factors
<1> QED
  BY <1>1, <1>2 DEF IInv, TypeOK, Coherent, MaskCoherent, GenuineOracle, OracleStates, NoReturn

LEMMA SetRhsIInv ==
  ASSUME IInv, NEW r \in RightHandSides, SetRhs(r)
  PROVE  IInv'
<1>1. /\ pc = "idle" /\ rhs' = r /\ rhsSet' = TRUE /\ havePrev' = FALSE /\ ret' = NoReturn
      /\ kappaValid' \in BOOLEAN
      /\ UNCHANGED <<opts, warm, factor, oracle, oracleIds, qPrev, pc, prop, qCurr, ids, iter>>
  BY DEF SetRhs, tickVars
<1> QED
  BY <1>1 DEF IInv, TypeOK, Coherent, FactorCoherent, MaskCoherent, GenuineOracle,
              OracleStates, NoReturn

\* The mask that sync_oracle_active_set leaves is the list it was given.
LEMMA SyncedMaskIsDesired ==
  ASSUME oracle.active = oracleIds, NEW desired
  PROVE  SyncedMask(desired) = desired
  BY DEF SyncedMask

LEMMA StartTickIInv ==
  ASSUME IInv, NEW p \in Proposals, StartTick(p)
  PROVE  IInv'
<1> DEFINE start == IF opts.warmStart THEN warm ELSE <<>>
           s     == Solve(factor, start)
           list  == IF s.ok THEN start ELSE <<>>
           q     == IF list = <<>> THEN p ELSE Combine(list, p, rhs)
           o     == [oracle EXCEPT !.active = SyncedMask(Elems(list))]
           full  == opts.forceFullRescan \/ ~havePrev
           touched == IF full THEN Blocks ELSE ChangedBlocks(qPrev, q)
<1>1. /\ factor' = IF list = <<>> THEN EmptyFactor ELSE s.factor
      /\ oracle' = Recompute(o, touched, q)
      /\ oracleIds' = Elems(list)
      /\ qPrev' = q /\ qCurr' = q /\ ids' = list
      /\ havePrev' = TRUE /\ pc' = "loop" /\ prop' = p /\ iter' = 0 /\ ret' = NoReturn
      /\ UNCHANGED <<opts, rhs, rhsSet, kappaValid, warm>>
  BY DEF StartTick, settingVars
<1>2. start \in IdLists /\ list \in IdLists /\ (list = <<>> \/ list = warm)
  BY EmptyIdList DEF IInv, TypeOK
<1>3. rhs \in RightHandSides /\ p \in Points /\ Coherent(factor)
  BY ParameterAssumption DEF IInv, TypeOK
<1>4. list # <<>> => s.ok /\ list = start
  OBVIOUS
<1>5. list # <<>> => Coherent(s.factor) /\ s.factor.ids = list /\ Factorable(list)
  <2> HIDE DEF list
  <2>1. ASSUME list # <<>> PROVE Coherent(s.factor) /\ s.factor.ids = list
    BY <1>2, <1>3, <1>4, <2>1, SolveOk
  <2> HIDE DEF s
  <2> QED
    BY <2>1 DEF Coherent
<1> HIDE DEF start, s
<1>6. q \in Points
  BY <1>2, <1>3, <1>5, NumericAssumption
<1>7. Coherent(factor)' /\ FactorCoherent'
  <2> HIDE DEF list
  <2>1. Coherent(factor')
    BY <1>1, <1>5, EmptyFactorCoherent
  <2>2. FactorCoherent'
    BY <1>1, <2>1 DEF FactorCoherent, Coherent
  <2> QED
    BY <2>1, <2>2 DEF Coherent
<1> HIDE DEF list, q
<1>8. SyncedMask(Elems(list)) = Elems(list)
  BY SyncedMaskIsDesired DEF IInv, MaskCoherent
<1>9. GenuineOracle(o) /\ o.active = Elems(list)
  BY <1>2, <1>8, IdListFacts DEF IInv, GenuineOracle, OracleStates
<1> HIDE DEF o, touched
<1>10. GenuineOracle(oracle)' /\ oracle'.active = o.active
  BY <1>1, <1>3, <1>6, <1>9, RecomputeGenuine
<1>11. MaskCoherent'
  BY <1>1, <1>9, <1>10 DEF MaskCoherent
<1>12. Len(list) <= Larger(opts.aMax, Len(warm))
  <2>1. Len(list) \in {0, Len(warm)} /\ Len(warm) \in Nat
    BY <1>2, EmptyIdList, IdListFacts DEF IInv, TypeOK
  <2>2. opts.aMax \in Nat
    BY ParameterAssumption DEF IInv, TypeOK, Options
  <2> QED
    BY <2>1, <2>2 DEF Larger
<1>13. TypeOK'
  <2>1. Elems(list) \subseteq Ids
    BY <1>2, IdListFacts
  <2> QED
    BY <1>1, <1>2, <1>3, <1>6, <1>7, <1>10, <1>12, <2>1
       DEF IInv, TypeOK, Coherent, GenuineOracle, NoReturn
<1> QED
  BY <1>7, <1>10, <1>11, <1>13 DEF IInv
-----------------------------------------------------------------------------
\* The turns of the loop.

\* The factor that finalize_with_safety or a drop at convergence works on.
LEMMA FinalSolveOk ==
  ASSUME IInv, pc = "loop", FinalSolve.ok
  PROVE  Coherent(FinalSolve.factor) /\ FinalSolve.factor.ids = ids
<1>1. CASE ids = <<>>
  BY <1>1, EmptyFactorCoherent DEF IInv, FactorCoherent, FinalSolve, Ok
<1>2. CASE ids # <<>>
  BY <1>2, SolveOk DEF IInv, TypeOK, FinalSolve
<1> QED
  BY <1>1, <1>2

\* A list that could be solved has one multiplier per row and leads to a point.
LEMMA SolvedNumerics ==
  ASSUME IInv, pc = "loop", NEW list \in IdLists, Factorable(list)
  PROVE  /\ Multipliers(list, prop, rhs) \in [DOMAIN list -> Int]
         /\ Combine(list, prop, rhs) \in Points
         /\ Negative(Multipliers(list, prop, rhs)) # {} =>
                DropPos(Multipliers(list, prop, rhs)) \in DOMAIN list
<1>1. /\ Multipliers(list, prop, rhs) \in [DOMAIN list -> Int]
      /\ Combine(list, prop, rhs) \in Points
  BY NumericAssumption DEF IInv, TypeOK
<1>2. Len(list) \in Nat /\ DOMAIN list = 1 .. Len(list)
  BY IdListFacts
<1> QED
  BY <1>1, <1>2, DropPosFound

LEMMA FinishIInv ==
  ASSUME IInv, Finish
  PROVE  IInv'
<1>1. pc = "loop" /\ FinalSolve.ok
  BY DEF Finish, Turn
<1> DEFINE f == FinalSolve.factor
<1>2. Coherent(f) /\ f.ids = ids
  BY <1>1, FinalSolveOk
<1>3. Accept(f) \/ RefuseSilently(f) \/ RefuseToFallback(f)
  BY DEF Finish
<1> HIDE DEF f
<1>4. ASSUME /\ warm' \in {warm, ids} /\ factor' = f
             /\ ret'.kind \in {"accepted", "refused"} /\ LeaveLoop
             /\ UNCHANGED <<settingVars, oracle, oracleIds, qPrev, havePrev>>
      PROVE  IInv'
  <2>1. /\ pc' = "idle" /\ prop' = Origin /\ qCurr' = Origin /\ ids' = <<>> /\ iter' = 0
        /\ UNCHANGED <<opts, rhs, rhsSet, kappaValid, oracle, oracleIds, qPrev, havePrev>>
    BY <1>4 DEF LeaveLoop, settingVars
  <2>2. Coherent(factor)' /\ FactorCoherent'
    BY <1>2, <1>4, <2>1 DEF Coherent, FactorCoherent
  <2>3. warm' \in IdLists
    BY <1>4 DEF IInv, TypeOK
  <2>4. TypeOK'
    BY <1>4, <2>1, <2>2, <2>3, EmptyIdList, ParameterAssumption DEF IInv, TypeOK, Coherent
  <2>5. MaskCoherent' /\ GenuineOracle(oracle)'
    BY <2>1 DEF IInv, MaskCoherent, GenuineOracle, OracleStates
  <2> QED
    BY <2>2, <2>4, <2>5 DEF IInv
<1>5. CASE Accept(f)
  BY <1>4, <1>5 DEF Accept, Return
<1>6. CASE RefuseSilently(f)
  <2>1. ret'.kind = "refused"
    BY <1>6 DEF RefuseSilently, Return
  <2> QED
    BY <1>4, <1>6, <2>1 DEF RefuseSilently
<1>7. CASE RefuseToFallback(f)
  <2>1. FallbackToAnchor(oracleIds, oracleIds)
    BY <1>7 DEF RefuseToFallback, IInv, MaskCoherent
  <2> QED
    BY <2>1, FallbackIInv
<1> QED
  BY <1>3, <1>5, <1>6, <1>7

LEMMA DropAtConvergenceIInv ==
  ASSUME IInv, DropAtConvergence
  PROVE  IInv'
<1> DEFINE lambda == Multipliers(ids, prop, rhs)
           f == FinalSolve.factor
<1>1. pc = "loop" /\ FinalSolve.ok /\ ids # <<>> /\ Negative(lambda) # {}
  BY DEF DropAtConvergence, Turn
<1>2. ids \in IdLists /\ oracle.active = Elems(ids) /\ oracleIds = Elems(ids)
  BY <1>1 DEF IInv, TypeOK, MaskCoherent
<1>3. Coherent(f) /\ Factorable(ids)
  BY <1>1, FinalSolveOk DEF Coherent
<1>4. DropPos(lambda) \in DOMAIN ids
  BY <1>1, <1>2, <1>3, SolvedNumerics
<1>5. Len(ids) - 1 <= Larger(opts.aMax, Len(warm))
  <2>1. Len(ids) \in Nat /\ Len(warm) \in Nat
    BY IdListFacts DEF IInv, TypeOK
  <2>2. opts.aMax \in Nat
    BY ParameterAssumption DEF IInv, TypeOK, Options
  <2> QED
    BY <1>1, <2>1, <2>2 DEF IInv, TypeOK, Larger
<1>6. Drop(ids, f, DropPos(lambda), Elems(ids), Elems(ids), {})
  BY <1>2 DEF DropAtConvergence
<1> QED
  BY <1>1, <1>2, <1>3, <1>4, <1>5, <1>6, DropIInv

\* A violated row is a row, not a sentinel.
LEMMA EnteringIsRow ==
  ASSUME IInv, ~Converged
  PROVE  Entering \in Ids
  BY DEF IInv, GenuineOracle, Genuine, Violator, Converged, Entering

\* The list with the entering row.
LEMMA EntersList ==
  ASSUME IInv, Enters
  PROVE  /\ pc = "loop" /\ Entering \in Ids
         /\ Append(ids, Entering) \in IdLists
         /\ Elems(Append(ids, Entering)) = Elems(ids) \cup {Entering}
         /\ Len(Append(ids, Entering)) <= opts.aMax
         /\ Len(Append(ids, Entering)) - 1 <= Larger(opts.aMax, Len(warm))
         /\ Append(ids, Entering) # <<>>
         /\ oracle.active = Elems(ids) /\ oracleIds = Elems(ids)
<1>1. pc = "loop" /\ Entering \in Ids /\ Entering \notin Elems(ids) /\ Len(ids) < opts.aMax
  BY EnteringIsRow DEF Enters, Turn
<1>2. ids \in IdLists /\ Len(ids) \in Nat /\ Len(warm) \in Nat
  BY IdListFacts DEF IInv, TypeOK
<1>3. opts.aMax \in 0 .. MaxActive
  BY ParameterAssumption DEF IInv, TypeOK, Options
<1>4. /\ Append(ids, Entering) \in IdLists
      /\ Elems(Append(ids, Entering)) = Elems(ids) \cup {Entering}
      /\ Len(Append(ids, Entering)) = Len(ids) + 1
  BY <1>1, <1>2, <1>3, ParameterAssumption, AppendList
<1>5. oracle.active = Elems(ids) /\ oracleIds = Elems(ids)
  BY <1>1 DEF IInv, MaskCoherent
<1>6. Len(ids) + 1 <= opts.aMax /\ Len(ids) + 1 - 1 <= Larger(opts.aMax, Len(warm))
  BY <1>1, <1>2, <1>3, ParameterAssumption DEF Larger
<1>7. Append(ids, Entering) # <<>>
  BY <1>2, <1>4, EmptyIdList
<1> QED
  BY <1>1, <1>4, <1>5, <1>6, <1>7
LEMMA EnterDropIInv ==
  ASSUME IInv, EnterDrop
  PROVE  IInv'
<1> DEFINE list == Append(ids, Entering)
           lambda == Multipliers(list, prop, rhs)
           s == Solve(factor, list)
<1>1. Enters /\ s.ok /\ Negative(lambda) # {}
  BY DEF EnterDrop
<1>2. /\ pc = "loop" /\ list \in IdLists /\ list # <<>>
      /\ Elems(list) = Elems(ids) \cup {Entering}
      /\ Len(list) - 1 <= Larger(opts.aMax, Len(warm))
      /\ oracle.active = Elems(ids) /\ oracleIds = Elems(ids)
  BY <1>1, EntersList
<1>3. Drop(list, s.factor, DropPos(lambda), Elems(list), Elems(list), {Entering})
  BY <1>2 DEF EnterDrop
<1> HIDE DEF list
<1>4. Coherent(s.factor) /\ s.factor.ids = list
  BY <1>1, <1>2, SolveOk DEF IInv
<1>5. Factorable(list)
  BY <1>2, <1>4 DEF Coherent
<1>6. DropPos(lambda) \in DOMAIN list
  BY <1>1, <1>2, <1>5, SolvedNumerics
<1> HIDE DEF s, lambda
<1> QED
  BY <1>2, <1>3, <1>4, <1>6, DropIInv

LEMMA EnterMoveIInv ==
  ASSUME IInv, EnterMove
  PROVE  IInv'
<1> DEFINE list == Append(ids, Entering)
           s == Solve(factor, list)
           q == Combine(list, prop, rhs)
           o == [oracle EXCEPT !.active = @ \cup {Entering}]
           touched == TouchedByMove(qCurr, q, Entering)
<1>1. /\ Enters /\ s.ok
      /\ ids' = list /\ factor' = s.factor /\ qCurr' = q
      /\ oracle' = Recompute(o, touched, q)
      /\ oracleIds' = oracleIds \cup {Entering}
      /\ iter' = iter + 1
      /\ UNCHANGED <<opts, rhs, rhsSet, kappaValid, warm, qPrev, havePrev, pc, prop, ret>>
  BY DEF EnterMove, settingVars
<1>2. /\ pc = "loop" /\ list \in IdLists /\ list # <<>> /\ Entering \in Ids
      /\ Elems(list) = Elems(ids) \cup {Entering}
      /\ Len(list) <= opts.aMax
      /\ oracle.active = Elems(ids) /\ oracleIds = Elems(ids)
  BY <1>1, EntersList
<1> HIDE DEF list
<1>3. Coherent(s.factor) /\ s.factor.ids = list
  BY <1>1, <1>2, SolveOk DEF IInv
<1> HIDE DEF s
<1>4. Factorable(list)
  BY <1>2, <1>3 DEF Coherent
<1>5. q \in Points
  BY <1>2, <1>4, SolvedNumerics
<1> HIDE DEF q
<1>6. Coherent(factor)' /\ FactorCoherent'
  BY <1>1, <1>2, <1>3 DEF Coherent, FactorCoherent
<1>7. GenuineOracle(o) /\ o.active = Elems(list)
  BY <1>2 DEF IInv, GenuineOracle, OracleStates
<1>8. rhs \in RightHandSides
  BY DEF IInv, TypeOK
<1> HIDE DEF o, touched
<1>9. GenuineOracle(oracle)' /\ oracle'.active = o.active
  BY <1>1, <1>5, <1>7, <1>8, RecomputeGenuine
<1>10. MaskCoherent'
  BY <1>1, <1>2, <1>7, <1>9 DEF MaskCoherent
<1>11. Len(list) <= Larger(opts.aMax, Len(warm))
  <2>1. Len(list) \in Nat /\ Len(warm) \in Nat
    BY <1>2, IdListFacts DEF IInv, TypeOK
  <2>2. opts.aMax \in Nat
    BY ParameterAssumption DEF IInv, TypeOK, Options
  <2> QED
    BY <1>2, <2>1, <2>2 DEF Larger
<1>12. TypeOK'
  <2>1. oracleIds' \subseteq Ids
    BY <1>1, <1>2 DEF IInv, TypeOK
  <2> QED
    BY <1>1, <1>2, <1>5, <1>6, <1>9, <1>11, <2>1 DEF IInv, TypeOK, Coherent, GenuineOracle
<1> QED
  BY <1>6, <1>9, <1>10, <1>12 DEF IInv

\* Every turn of the loop.
LEMMA LoopIInv ==
  ASSUME IInv, Loop
  PROVE  IInv'
<1>1. oracle.active = oracleIds
  BY DEF IInv, MaskCoherent
<1>2. CASE FinishSolveFails
  BY <1>1, <1>2, FallbackIInv DEF FinishSolveFails
<1>3. CASE EnterRejected
  BY <1>1, <1>3, FallbackIInv DEF EnterRejected
<1>4. CASE EnterSolveFails
  BY <1>1, <1>4, FallbackIInv DEF EnterSolveFails
<1>5. CASE BudgetExhausted
  BY <1>1, <1>5, FallbackIInv DEF BudgetExhausted
<1> QED
  BY <1>2, <1>3, <1>4, <1>5, FinishIInv, DropAtConvergenceIInv, EnterDropIInv, EnterMoveIInv
     DEF Loop

\* The invariant is inductive.
LEMMA NextIInv == IInv /\ [Next]_vars => IInv'
<1> SUFFICES ASSUME IInv, [Next]_vars PROVE IInv'
  OBVIOUS
<1>1. ASSUME NEW o \in OptionSets, SetOptions(o) PROVE IInv'
  BY <1>1, SetOptionsIInv
<1>2. ASSUME NEW r \in RightHandSides, SetRhs(r) PROVE IInv'
  BY <1>2, SetRhsIInv
<1>3. ASSUME NEW p \in Proposals, StartTick(p) PROVE IInv'
  BY <1>3, StartTickIInv
<1>4. CASE Loop
  BY <1>4, LoopIInv
<1>5. CASE UNCHANGED vars
  BY <1>5 DEF vars, IInv, TypeOK, MaskCoherent, FactorCoherent, Coherent, GenuineOracle,
              OracleStates
<1> QED
  BY <1>1, <1>2, <1>3, <1>4, <1>5 DEF Next

\* Every reachable state satisfies the inductive invariant.
THEOREM Invariance == Spec => []IInv
<1>1. Init => IInv
  BY InitIInv
<1>2. IInv /\ [Next]_vars => IInv'
  BY NextIInv
<1> QED
  BY <1>1, <1>2, PTL DEF Spec

\* Types and capacity: warm sets, active lists and factors stay within the reserved
\* sizes, over all sequences of calls, options and right-hand sides.
THEOREM TypeCorrect == Spec => []TypeOK
<1>1. IInv => TypeOK
  BY DEF IInv
<1> QED
  BY <1>1, Invariance, PTL

\* The oracle's mask, oracle_active_ids_ and the running call's active ids agree
\* after every set_options, set_rhs, tick and turn of the loop.
THEOREM MaskAgrees == Spec => []MaskCoherent
<1>1. IInv => MaskCoherent
  BY DEF IInv
<1> QED
  BY <1>1, Invariance, PTL

\* Multipliers are always solved from the triangle of the rows they are applied to,
\* whatever sequence of keep, append, remove and rebuild led to it.
THEOREM FactorAgrees == Spec => []FactorCoherent
<1>1. IInv => FactorCoherent
  BY DEF IInv
<1> QED
  BY <1>1, Invariance, PTL
-----------------------------------------------------------------------------
\* Freshness of the oracle.

\* Every cached block entry is what a scan at q finds, and the answer is merged from
\* the entries and a scan of the global rows.
FreshAt(o, q) ==
    /\ o.blockBest = [b \in Blocks |-> BlockBest(b, o.active, q, rhs)]
    /\ o.last = Merge(Best({o.blockBest[b] : b \in Blocks}), GlobalBest(o.active, q, rhs))

\* OracleFresh speaks of the answer only; a turn keeps the entries it does not name.
Fresh == Rescanned /\ pc = "loop" => FreshAt(oracle, qCurr)

\* A recomputation is complete if it names every block whose entry is out of date.
LEMMA RecomputeFresh ==
  ASSUME NEW o, NEW touched, NEW q,
         \A b \in Blocks \ touched : o.blockBest[b] = BlockBest(b, o.active, q, rhs)
  PROVE  FreshAt(Recompute(o, touched, q), q)
<1> DEFINE best == [b \in Blocks |-> IF b \in touched THEN BlockBest(b, o.active, q, rhs)
                                     ELSE o.blockBest[b]]
           n == Recompute(o, touched, q)
<1>1. /\ n.active = o.active
      /\ n.blockBest = best
      /\ n.last = Merge(Best({best[b] : b \in Blocks}), GlobalBest(o.active, q, rhs))
  BY DEF Recompute
<1>2. best = [b \in Blocks |-> BlockBest(b, o.active, q, rhs)]
  OBVIOUS
<1> QED
  BY <1>1, <1>2 DEF FreshAt

\* A block that neither moved nor changed its part of the mask keeps its worst row.
LEMMA UntouchedBlock ==
  ASSUME rhs \in RightHandSides, NEW b \in Blocks,
         NEW q1 \in Points, NEW q2 \in Points, q1 = q2 \/ ~Moved(q1[b], q2[b]),
         NEW m1, NEW m2, RowsOf(b) \ m1 = RowsOf(b) \ m2
  PROVE  BlockBest(b, m1, q1, rhs) = BlockBest(b, m2, q2, rhs)
<1>1. ASSUME NEW id \in RowsOf(b)
      PROVE  Candidate(id, q1, rhs) = Candidate(id, q2, rhs)
  <2>1. id \in LocalIds /\ BlockOf(id) = b
    BY DEF RowsOf
  <2>2. q1[b] \in Parts /\ q2[b] \in Parts
    BY DEF Points
  <2>3. LocalViolation(id, q1[b], rhs[id]) = LocalViolation(id, q2[b], rhs[id])
    BY <2>1, <2>2, UnmovedAssumption
  <2> QED
    BY <2>1, <2>3 DEF Candidate, RowViolation
<1>2. Candidates(RowsOf(b) \ m1, q1, rhs) = Candidates(RowsOf(b) \ m2, q2, rhs)
  BY <1>1 DEF Candidates
<1> QED
  BY <1>2 DEF BlockBest

\* A change of the mask in rows of S touches every block with a row of S.
LEMMA RowsOfOtherBlocks ==
  ASSUME NEW S, NEW b \in Blocks, b \notin MaskBlocks(S)
  PROVE  \A id \in RowsOf(b) : id \in Ids /\ id \notin S
BY DEF RowsOf, MaskBlocks, Ids

\* A tick that is rescanned sees every block at the point it starts from.
LEMMA StartTickFresh ==
  ASSUME IInv, NEW p \in Proposals, StartTick(p)
  PROVE  Fresh'
<1> SUFFICES ASSUME Rescanned' PROVE FreshAt(oracle, qCurr)'
  BY DEF Fresh
<1>1. opts.forceFullRescan \/ ~havePrev
  BY DEF StartTick, settingVars, Rescanned
<1>2. PICK o, q : oracle' = Recompute(o, Blocks, q) /\ qCurr' = q /\ rhs' = rhs
  BY <1>1 DEF StartTick, settingVars
<1>3. FreshAt(Recompute(o, Blocks, q), q)
  BY RecomputeFresh
<1> QED
  BY <1>2, <1>3 DEF FreshAt

\* A drop names the block of the row that goes and of the row that entered with it.
LEMMA DropFresh ==
  ASSUME IInv, Fresh, pc = "loop", NEW list, NEW f, NEW i, NEW mask, NEW synced, NEW entered,
         mask = oracle.active \cup entered, Drop(list, f, i, mask, synced, entered)
  PROVE  Fresh'
<1> SUFFICES ASSUME Rescanned PROVE FreshAt(oracle, qCurr)'
  BY DEF Fresh, Drop, settingVars, Rescanned
<1> DEFINE r == list[i]
           o == [oracle EXCEPT !.active = mask \ {r}]
           touched == MaskBlocks({r} \cup entered)
<1>1. oracle' = Recompute(o, touched, qCurr) /\ qCurr' = qCurr /\ rhs' = rhs
  BY DEF Drop, settingVars
<1>2. o.active = mask \ {r} /\ o.blockBest = oracle.blockBest
  BY DEF IInv, GenuineOracle, OracleStates
<1>3. \A id \in Ids \ ({r} \cup entered) : id \in oracle.active <=> id \in mask \ {r}
  OBVIOUS
<1>4. qCurr \in Points /\ rhs \in RightHandSides
  BY DEF IInv, TypeOK
<1> HIDE DEF r, o
<1>5. ASSUME NEW b \in Blocks \ touched
      PROVE  o.blockBest[b] = BlockBest(b, o.active, qCurr, rhs)
  <2>0. \A id \in RowsOf(b) : id \in Ids /\ id \notin {r} \cup entered
    BY RowsOfOtherBlocks
  <2>1. RowsOf(b) \ oracle.active = RowsOf(b) \ (mask \ {r})
    BY <1>3, <2>0
  <2>2. BlockBest(b, oracle.active, qCurr, rhs) = BlockBest(b, mask \ {r}, qCurr, rhs)
    BY <1>4, <2>1, UntouchedBlock
  <2> QED
    BY <1>2, <2>2 DEF Fresh, FreshAt
<1>6. FreshAt(Recompute(o, touched, qCurr), qCurr)
  BY <1>5, RecomputeFresh
<1> QED
  BY <1>1, <1>6 DEF FreshAt

\* A move names the blocks that moved and the block of the row that entered.
LEMMA EnterMoveFresh ==
  ASSUME IInv, Fresh, EnterMove
  PROVE  Fresh'
<1> SUFFICES ASSUME Rescanned PROVE FreshAt(oracle, qCurr)'
  BY DEF Fresh, EnterMove, settingVars, Rescanned
<1> DEFINE q == Combine(Append(ids, Entering), prop, rhs)
           mask == oracle.active \cup {Entering}
           o == [oracle EXCEPT !.active = @ \cup {Entering}]
           touched == TouchedByMove(qCurr, q, Entering)
<1>1. /\ pc = "loop" /\ oracle' = Recompute(o, touched, q) /\ qCurr' = q /\ rhs' = rhs
  BY DEF EnterMove, Enters, Turn, settingVars
<1>2. o.active = mask /\ o.blockBest = oracle.blockBest
  BY DEF IInv, GenuineOracle, OracleStates
<1>3. qCurr \in Points /\ rhs \in RightHandSides
  BY DEF IInv, TypeOK
<1>4. q \in Points
  BY <1>1, EnterMoveIInv DEF IInv, TypeOK
<1> HIDE DEF q, o
<1>5. ASSUME NEW b \in Blocks \ touched
      PROVE  o.blockBest[b] = BlockBest(b, o.active, q, rhs)
  <2>1. ~Moved(qCurr[b], q[b]) /\ b \in Blocks \ MaskBlocks({Entering})
    BY DEF TouchedByMove, ChangedBlocks
  <2>2. \A id \in RowsOf(b) : id \notin {Entering}
    BY <2>1, RowsOfOtherBlocks
  <2>3. RowsOf(b) \ oracle.active = RowsOf(b) \ mask
    BY <2>2
  <2>4. BlockBest(b, oracle.active, qCurr, rhs) = BlockBest(b, mask, q, rhs)
    BY <1>3, <1>4, <2>1, <2>3, UntouchedBlock
  <2> QED
    BY <1>1, <1>2, <2>4 DEF Fresh, FreshAt
<1>6. FreshAt(Recompute(o, touched, q), q)
  BY <1>5, RecomputeFresh
<1> QED
  BY <1>1, <1>6 DEF FreshAt

\* Freshness is inductive relative to IInv: a turn moves the point, edits the mask and
\* recomputes, or leaves the loop.
LEMMA NextFresh == IInv /\ Fresh /\ [Next]_vars => Fresh'
<1> SUFFICES ASSUME IInv, Fresh, [Next]_vars PROVE Fresh'
  OBVIOUS
<1>1. ASSUME NEW o \in OptionSets, SetOptions(o) PROVE Fresh'
  BY <1>1 DEF SetOptions, tickVars, Fresh
<1>2. ASSUME NEW r \in RightHandSides, SetRhs(r) PROVE Fresh'
  BY <1>2 DEF SetRhs, tickVars, Fresh
<1>3. ASSUME NEW p \in Proposals, StartTick(p) PROVE Fresh'
  BY <1>3, StartTickFresh
<1>4. ASSUME pc' = "idle" PROVE Fresh'
  BY <1>4 DEF Fresh
<1>5. CASE Finish
  BY <1>4, <1>5 DEF Finish, Accept, RefuseSilently, RefuseToFallback, FallbackToAnchor, LeaveLoop
<1>6. CASE FinishSolveFails \/ EnterRejected \/ EnterSolveFails \/ BudgetExhausted
  BY <1>4, <1>6 DEF FinishSolveFails, EnterRejected, EnterSolveFails, BudgetExhausted,
                    FallbackToAnchor, LeaveLoop
<1>7. CASE DropAtConvergence
  <2>1. pc = "loop" /\ oracle.active = oracle.active \cup {}
    BY <1>7 DEF DropAtConvergence, Turn
  <2>2. PICK f, i : Drop(ids, f, i, oracle.active, oracleIds, {})
    BY <1>7 DEF DropAtConvergence
  <2> QED
    BY <2>1, <2>2, DropFresh
<1>8. CASE EnterDrop
  <2>1. pc = "loop"
    BY <1>8 DEF EnterDrop, Enters, Turn
  <2>2. PICK list, f, i : Drop(list, f, i, oracle.active \cup {Entering},
                               oracleIds \cup {Entering}, {Entering})
    BY <1>8 DEF EnterDrop
  <2> QED
    BY <2>1, <2>2, DropFresh
<1>9. CASE EnterMove
  BY <1>9, EnterMoveFresh
<1>10. CASE UNCHANGED vars
  BY <1>10 DEF vars, Fresh, FreshAt, Rescanned
<1> QED
  BY <1>1, <1>2, <1>3, <1>5, <1>6, <1>7, <1>8, <1>9, <1>10 DEF Next, Loop

\* Fresh entries and a coherent mask make the answer the worst inactive row.
LEMMA FreshAnswer == IInv /\ Fresh => OracleFresh
<1> SUFFICES ASSUME IInv, Fresh, Rescanned, pc = "loop"
             PROVE  oracle.last = WorstInactive(Elems(ids), qCurr, rhs)
  BY DEF OracleFresh
<1>1. oracle.active = Elems(ids)
  BY DEF IInv, MaskCoherent
<1>2. qCurr \in Points /\ rhs \in RightHandSides
  BY DEF IInv, TypeOK
<1>3. Candidates(Ids, qCurr, rhs) \subseteq Violator
  BY <1>2, CandidatesGenuine DEF Genuine
<1>4. FreshAt(oracle, qCurr)
  BY DEF Fresh
<1> QED
  BY <1>1, <1>3, <1>4, MergedIsWorst DEF FreshAt

\* If every tick is rescanned, by option or by a right-hand side set before, the incremental
\* oracle answers at every head of the loop what a scan of all inactive rows would, for
\* any geometry in which a part that did not move keeps its rows' violations.
THEOREM OracleStaysFresh == Spec => []OracleFresh
<1>1. Init => Fresh
  BY DEF Init, Fresh
<1>2. IInv /\ Fresh /\ [Next]_vars => Fresh'
  BY NextFresh
<1>3. IInv /\ Fresh => OracleFresh
  BY FreshAnswer
<1> QED
  BY <1>1, <1>2, <1>3, Invariance, PTL DEF Spec

-----------------------------------------------------------------------------
\* What project returns.

\* Every row evaluates to a number at the point.
Numeric(q, r) == \A id \in Ids : RowViolation(id, q, r) \in Int

-----------------------------------------------------------------------------
\* What a maximum says of the rows it was taken over.

\* What a violator of a set beats has no larger violation.
LEMMA BeatenIsSmaller ==
  ASSUME NEW v \in Violator, NEW w \in Violator, v = w \/ Prefer(v, w),
         v.violation \in Int, w.violation \in Int
  PROVE  w.violation <= v.violation
  BY SystemAssumption DEF Prefer, Greater

\* certified_feasible looks at every row.
LEMMA FeasibleIsCertified ==
  ASSUME NEW q, NEW r, Numeric(q, r), CertifiedFeasible(q, r)
  PROVE  \A id \in Ids : RowViolation(id, q, r) <= 0
<1> DEFINE C == Candidates(Ids, q, r)
           S == C \cup {NegativeInfinityGlobal}
<1>1. \A v \in S : v \in Violator /\ v.violation \in Int
  BY SentinelsAreViolators, SystemAssumption
     DEF Numeric, Candidates, Candidate, Scope, Violator, NegativeInfinityGlobal
<1>2. IsFiniteSet(S)
  <2>1. IsFiniteSet(C)
    BY CandidatesFinite
  <2> QED
    BY <2>1, FS_AddElement
<1>3. Best(S) \in S /\ Beats(Best(S), S)
  BY <1>1, <1>2, BestBeats
<1>4. Best(S).violation <= 0
  BY DEF CertifiedFeasible, ScanWorst
<1> SUFFICES ASSUME NEW id \in Ids PROVE RowViolation(id, q, r) <= 0
  OBVIOUS
<1>5. Candidate(id, q, r) \in S /\ Candidate(id, q, r).violation = RowViolation(id, q, r)
  BY DEF Candidates, Candidate
<1>6. Candidate(id, q, r).violation <= Best(S).violation
  <2> HIDE DEF S
  <2> QED
    BY <1>1, <1>3, <1>5, BeatenIsSmaller DEF Beats
<1> QED
  BY <1>1, <1>3, <1>4, <1>5, <1>6

\* And the scan finds no violation at a point whose rows are all certified.
LEMMA CertifiedIsFeasible ==
  ASSUME NEW q, NEW r, Numeric(q, r), \A id \in Ids : RowViolation(id, q, r) <= 0
  PROVE  ~(ScanWorst(q, r).violation > 0)
<1> DEFINE C == Candidates(Ids, q, r)
           S == C \cup {NegativeInfinityGlobal}
<1>1. \A v \in S : v \in Violator /\ ~(v.violation > 0)
  BY SentinelsAreViolators, SystemAssumption, ParameterAssumption
     DEF Numeric, Candidates, Candidate, Scope, Violator, NegativeInfinityGlobal
<1>2. IsFiniteSet(S)
  <2>1. IsFiniteSet(C)
    BY CandidatesFinite
  <2> QED
    BY <2>1, FS_AddElement
<1>3. Best(S) \in S
  BY <1>1, <1>2, BestBeats
<1> QED
  BY <1>1, <1>3 DEF ScanWorst

\* The maximum that finalize_with_safety takes over the factor's rows.
LEMMA WorstActiveBounds ==
  ASSUME NEW refs \in IdLists, NEW out, Numeric(out, rhs)
  PROVE  /\ WorstActive(refs, out) \in Int
         /\ \A id \in Elems(refs) : RowViolation(id, out, rhs) <= WorstActive(refs, out)
<1> DEFINE f == [id \in Elems(refs) |-> RowViolation(id, out, rhs)]
           V == {f[id] : id \in Elems(refs)}
           W == V \cup {NegInf}
           R == {p \in W \X W : p[2] <= p[1]}
<1>1. Elems(refs) \subseteq Ids
  BY IdListFacts
<1>2. W \subseteq Int
  BY <1>1, SystemAssumption DEF Numeric
<1>3. IsFiniteSet(W)
  <2>1. IsFiniteSet(Elems(refs))
    BY <1>1, FiniteSystem, FS_Subset
  <2>2. f \in [Elems(refs) -> V]
    OBVIOUS
  <2> HIDE DEF f
  <2>3. IsFiniteSet(V)
    BY <2>1, <2>2, FiniteImage
  <2> QED
    BY <2>3, FS_AddElement
<1>4. {RowViolation(id, out, rhs) : id \in Elems(refs)} \cup {NegInf} = W
  OBVIOUS
<1>5. NegInf \in W
  OBVIOUS
<1> HIDE DEF V, W
<1>6. \A x, y \in W : <<x, y>> \in R <=> y <= x
  OBVIOUS
<1> HIDE DEF R
<1>7. \A x, y \in W : x # y => <<x, y>> \in R \/ <<y, x>> \in R
  BY <1>2, <1>6
<1>8. \A x, y, z \in W : <<x, y>> \in R /\ <<y, z>> \in R => <<x, z>> \in R
  BY <1>2, <1>6
<1>9. PICK x \in W : \A y \in W \ {x} : <<x, y>> \in R
  BY <1>3, <1>5, <1>7, <1>8, FiniteLeast
<1>10. \A y \in W : y <= x
  <2> SUFFICES ASSUME NEW y \in W PROVE y <= x
    OBVIOUS
  <2>1. CASE y = x
    BY <1>2, <2>1
  <2>2. CASE y # x
    BY <1>6, <1>9, <2>2
  <2> QED
    BY <2>1, <2>2
<1>11. WorstActive(refs, out) \in W /\ \A y \in W : y <= WorstActive(refs, out)
  BY <1>4, <1>10 DEF WorstActive
<1> QED
  BY <1>2, <1>4, <1>11

-----------------------------------------------------------------------------
\* What the loop knows when no inactive row is violated.

\* The verdict of set_rhs is that of some options in force when it was called.
KappaKept ==
    /\ kappaValid /\ rhsSet => KappaPassed(rhs)
    /\ pc = "loop" => rhsSet

\* Every recomputation rescans the global rows, whatever the caller's discipline, and
\* merges them with the blocks' entries, fresh or stale.
GlobalFresh ==
    pc = "loop" =>
        oracle.last = Merge(Best({oracle.blockBest[b] : b \in Blocks}),
                            GlobalBest(oracle.active, qCurr, rhs))

\* The winner of the blocks' entries is one of them and beats the others.
LEMMA BlockWinner ==
  ASSUME IInv, NEW E, E = {oracle.blockBest[b] : b \in Blocks}
  PROVE  Best(E) \in Genuine /\ Beats(Best(E), E) /\ E \subseteq Genuine
<1>1. oracle.blockBest \in [Blocks -> E] /\ E \subseteq Genuine /\ E # {}
  BY FiniteSystem DEF IInv, GenuineOracle, OracleStates
<1>2. IsFiniteSet(E)
  BY <1>1, FiniteSystem, FiniteImage
<1> QED
  BY <1>1, <1>2, BestBeats DEF Genuine

\* The merge loses neither side's violation.
LEMMA MergeBounds ==
  ASSUME NEW l \in Genuine, NEW g \in Genuine
  PROVE  /\ Merge(l, g) \in Genuine
         /\ l.violation <= Merge(l, g).violation
         /\ g.violation <= Merge(l, g).violation
<1>1. l = g \/ Prefer(l, g) \/ Prefer(g, l)
  BY PreferTotal DEF Genuine
<1> QED
  BY <1>1, BeatenIsSmaller DEF Merge, Genuine

\* Points evaluate to numbers.
LEMMA PointsNumeric ==
  ASSUME NEW q \in Points, NEW r \in RightHandSides
  PROVE  Numeric(q, r)
<1> SUFFICES ASSUME NEW id \in Ids PROVE RowViolation(id, q, r) \in Int
  BY DEF Numeric
<1>1. Candidate(id, q, r) \in Genuine
  BY CandidatesGenuine DEF Candidates
<1> QED
  BY <1>1 DEF Candidate, Genuine

\* With a fresh oracle, convergence certifies every inactive row.
LEMMA ConvergedRows ==
  ASSUME IInv, Fresh, Rescanned, pc = "loop", Converged, NEW id \in Ids \ Elems(ids)
  PROVE  RowViolation(id, qCurr, rhs) <= 0
<1> DEFINE C == Candidates(Ids \ Elems(ids), qCurr, rhs)
           S == C \cup {NegativeInfinityLocal, NegativeInfinityGlobal}
<1>1. qCurr \in Points /\ rhs \in RightHandSides
  BY DEF IInv, TypeOK
<1>2. S \subseteq Genuine
  BY <1>1, CandidatesGenuine, SentinelsGenuine DEF Candidates
<1>3. IsFiniteSet(S)
  <2>1. IsFiniteSet(C)
    BY CandidatesFinite
  <2>2. S = (C \cup {NegativeInfinityLocal}) \cup {NegativeInfinityGlobal}
    OBVIOUS
  <2> HIDE DEF C, S
  <2> QED
    BY <2>1, <2>2, FS_AddElement
<1>4. oracle.last = Best(S) /\ oracle.last.violation <= 0
  BY FreshAnswer DEF OracleFresh, WorstInactive, Converged
<1>5. Candidate(id, qCurr, rhs) \in S
  BY DEF Candidates
<1>6. Candidate(id, qCurr, rhs).violation = RowViolation(id, qCurr, rhs)
  BY DEF Candidate
<1> HIDE DEF S
<1>7. Best(S) \in S /\ Beats(Best(S), S)
  BY <1>2, <1>3, <1>5, BestBeats DEF Genuine
<1>8. Candidate(id, qCurr, rhs).violation <= Best(S).violation
  BY <1>2, <1>5, <1>7, BeatenIsSmaller DEF Beats, Genuine
<1>9. Best(S).violation \in Int /\ Candidate(id, qCurr, rhs).violation \in Int
  BY <1>2, <1>5, <1>7 DEF Genuine
<1> QED
  BY <1>4, <1>6, <1>8, <1>9

\* Whatever the oracle's block entries, convergence certifies the inactive global rows.
LEMMA ConvergedGlobalRows ==
  ASSUME IInv, GlobalFresh, pc = "loop", Converged, NEW id \in GlobalIds \ Elems(ids)
  PROVE  RowViolation(id, qCurr, rhs) <= 0
<1> DEFINE C == Candidates(GlobalIds \ Elems(ids), qCurr, rhs)
           S == C \cup {NegativeInfinityGlobal}
           c == Candidate(id, qCurr, rhs)
           g == GlobalBest(oracle.active, qCurr, rhs)
<1>1. qCurr \in Points /\ rhs \in RightHandSides /\ oracle.active = Elems(ids)
  BY DEF IInv, TypeOK, MaskCoherent
<1>2. Candidates(Ids, qCurr, rhs) \subseteq Genuine
  BY <1>1, CandidatesGenuine
<1>3. c \in Genuine /\ c \in S /\ c.violation = RowViolation(id, qCurr, rhs)
  BY <1>2 DEF Candidates, Candidate, Ids
<1>4. Candidates(GlobalIds, qCurr, rhs) \subseteq Violator
  BY <1>2 DEF Candidates, Ids, Genuine
<1>5. Beats(g, S)
  BY <1>1, <1>4, GlobalBestBeats
<1>6. g \in Genuine
  BY <1>1, ScansGenuine
<1> DEFINE v == Best({oracle.blockBest[b] : b \in Blocks})
<1>7. oracle.last = Merge(v, g) /\ v \in Genuine
  BY BlockWinner DEF GlobalFresh
<1> HIDE DEF S, c, g, v
<1>8. c.violation <= g.violation
  BY <1>3, <1>5, <1>6, BeatenIsSmaller DEF Beats, Genuine
<1>9. g.violation <= Merge(v, g).violation
  BY <1>6, <1>7, MergeBounds
<1>10. /\ c.violation \in Int /\ g.violation \in Int /\ Merge(v, g).violation \in Int
       /\ Merge(v, g).violation <= 0
  BY <1>3, <1>6, <1>7, MergeBounds DEF Genuine, Converged
<1> QED
  BY <1>3, <1>8, <1>9, <1>10

\* A block whose entry is fresh, in whatever state the others are, certifies its
\* inactive rows at convergence.
LEMMA ConvergedBlockRows ==
  ASSUME IInv, GlobalFresh, pc = "loop", Converged, NEW id \in LocalIds \ Elems(ids),
         oracle.blockBest[BlockOf(id)] = BlockBest(BlockOf(id), oracle.active, qCurr, rhs)
  PROVE  RowViolation(id, qCurr, rhs) <= 0
<1> DEFINE b == BlockOf(id)
           S == Candidates(RowsOf(b) \ oracle.active, qCurr, rhs) \cup {NegativeInfinityLocal}
           E == {oracle.blockBest[x] : x \in Blocks}
           c == Candidate(id, qCurr, rhs)
           e == oracle.blockBest[b]
           g == GlobalBest(oracle.active, qCurr, rhs)
<1>1. qCurr \in Points /\ rhs \in RightHandSides /\ oracle.active = Elems(ids)
  BY DEF IInv, TypeOK, MaskCoherent
<1>2. Candidates(Ids, qCurr, rhs) \subseteq Genuine
  BY <1>1, CandidatesGenuine
<1>3. c \in Genuine /\ c \in S /\ c.violation = RowViolation(id, qCurr, rhs)
  BY <1>1, <1>2 DEF Candidates, Candidate, Ids, RowsOf
<1>4. Candidates(LocalIds, qCurr, rhs) \subseteq Violator
  BY <1>2 DEF Candidates, Ids, Genuine
<1>5. Beats(e, S)
  BY <1>4, BlockBestBeats
<1>6. b \in Blocks
  BY BlockOfLocal
<1>7. e \in E /\ e \in Genuine
  BY <1>6 DEF IInv, GenuineOracle
<1>8. Best(E) \in Genuine /\ Beats(Best(E), E)
  BY BlockWinner
<1>9. oracle.last = Merge(Best(E), g) /\ g \in Genuine
  BY <1>1, ScansGenuine DEF GlobalFresh
<1> HIDE DEF S, E, c, e, g
<1>10. c.violation <= e.violation
  BY <1>3, <1>5, <1>7, BeatenIsSmaller DEF Beats, Genuine
<1>11. e.violation <= Best(E).violation
  BY <1>7, <1>8, BeatenIsSmaller DEF Beats, Genuine
<1>12. Best(E).violation <= Merge(Best(E), g).violation /\ Merge(Best(E), g).violation \in Int
  BY <1>8, <1>9, MergeBounds DEF Genuine
<1>13. c.violation \in Int /\ e.violation \in Int /\ Best(E).violation \in Int
  BY <1>3, <1>7, <1>8 DEF Genuine
<1> QED
  BY <1>3, <1>9, <1>10, <1>11, <1>12, <1>13 DEF Converged

-----------------------------------------------------------------------------
\* What the ways out of the loop return.

\* The rows evaluate to numbers at the shrunk candidate.
LEMMA ShrunkNumeric ==
  ASSUME IInv
  PROVE  Numeric(Shrink(qCurr, TauFor(opts, qCurr, rhs)), rhs)
<1>1. opts \in OptionSets /\ qCurr \in Points /\ rhs \in RightHandSides /\ opts.strictInterior \in BOOLEAN
  BY ParameterAssumption DEF IInv, TypeOK, Options
<1>2. CASE opts.strictInterior
  BY <1>1, <1>2, OutputAssumption DEF Numeric
<1>3. CASE ~opts.strictInterior
  <2>1. Shrink(qCurr, TauFor(opts, qCurr, rhs)) = qCurr
    BY <1>1, <1>3, OutputAssumption DEF TauFor
  <2> QED
    BY <1>1, <2>1, PointsNumeric
<1> QED
  BY <1>2, <1>3

\* They do at the fallback's point.
LEMMA FallbackNumeric ==
  ASSUME IInv, pc = "loop", NEW x \in RayPoints(prop, rhs)
  PROVE  Numeric(x, rhs) /\ Numeric(FallbackOutput(x), rhs)
<1>1. prop \in Proposals /\ rhs \in RightHandSides
  BY DEF IInv, TypeOK
<1>2. Numeric(x, rhs) /\ Numeric(Origin, rhs)
  BY <1>1, OutputAssumption, ParameterAssumption, PointsNumeric DEF Numeric
<1> QED
  BY <1>2 DEF FallbackOutput, SafeFallback

\* An accepted output certifies the rows that were certified at the candidate, and
\* the active ones, strictly so in strict mode.
LEMMA AcceptedRow ==
  ASSUME IInv, KappaKept, pc = "loop", NEW f, Coherent(f), f.ids = ids, Accept(f),
         NEW id \in Ids, id \notin Elems(ids) => RowViolation(id, qCurr, rhs) <= 0
  PROVE  /\ RowViolation(id, ret'.out, rhs) <= 0
         /\ opts.strictInterior => RowViolation(id, ret'.out, rhs) < 0
<1> DEFINE tau == TauFor(opts, qCurr, rhs)
           out == Shrink(qCurr, tau)
<1>1. ret'.out = out /\ f.refs = ids
  BY DEF Accept, Return, TauUse, Coherent
<1>2. /\ opts \in OptionSets /\ qCurr \in Points /\ rhs \in RightHandSides /\ ids \in IdLists
      /\ opts.strictInterior \in BOOLEAN /\ opts.kappaMin \in Int
  BY ParameterAssumption DEF IInv, TypeOK, Options
<1>3. ~opts.strictInterior => out = qCurr
  BY <1>2, OutputAssumption DEF TauFor
<1>4. Numeric(out, rhs)
  BY ShrunkNumeric
<1>5. ~KappaRefused /\ ~TauRefused(qCurr) /\ ~ActiveRefused(ids, out)
  BY <1>1 DEF Accept, Refused, TauUse
<1>6. RowViolation(id, out, rhs) \in Int
  BY <1>4 DEF Numeric
<1> HIDE DEF out
<1>7. CASE id \in Elems(ids)
  <2>1. /\ WorstActive(ids, out) \in Int
        /\ RowViolation(id, out, rhs) <= WorstActive(ids, out)
    BY <1>2, <1>4, <1>7, WorstActiveBounds
  <2>2. ids # <<>>
    BY <1>7, EmptyIdList
  <2>3. WorstActive(ids, out) <= 0 /\ (opts.strictInterior => -WorstActive(ids, out) > 0)
    BY <1>5, <2>1, <2>2 DEF ActiveRefused, MinActiveSlack
  <2> QED
    BY <1>1, <1>6, <2>1, <2>3
<1>8. CASE id \notin Elems(ids)
  <2>1. CASE ~opts.strictInterior
    BY <1>1, <1>3, <1>8, <2>1
  <2>2. CASE opts.strictInterior
    <3>1. KappaPassed(rhs)
      BY <2>2, <1>5 DEF KappaRefused, KappaKept
    <3>2. ~(TauRequired(qCurr, rhs, opts.kappaMin) > opts.tauShrinkMax) /\ ~(tau > opts.tauShrinkMax)
      BY <2>2, <1>5 DEF TauRefused, TauUse
    <3>3. RowViolation(id, qCurr, rhs) <= 0
      BY <1>8
    <3>4. RowViolation(id, out, rhs) < 0
      BY <1>2, <2>2, <3>1, <3>2, <3>3, OutputAssumption DEF out
    <3> QED
      BY <1>1, <1>6, <3>4
  <2> QED
    BY <2>1, <2>2
<1> QED
  BY <1>7, <1>8

\* The fallback certifies what it returns, or returns the anchor.
LEMMA FallbackRow ==
  ASSUME IInv, pc = "loop", NEW mask, NEW synced, FallbackToAnchor(mask, synced),
         Certified(Origin)
  PROVE  \A id \in Ids : RowViolation(id, ret'.out, rhs) <= 0
<1>1. PICK x \in RayPoints(prop, rhs) : ret'.out = FallbackOutput(x)
  BY DEF FallbackToAnchor, Return
<1>3. Numeric(x, rhs)
  BY FallbackNumeric
<1>4. CASE FallbackOutput(x) = Origin
  BY <1>1, <1>4 DEF Certified
<1>5. CASE FallbackOutput(x) # Origin
  <2>1. FallbackOutput(x) = x /\ CertifiedFeasible(x, rhs)
    BY <1>5 DEF FallbackOutput, SafeFallback
  <2> QED
    BY <1>1, <1>3, <2>1, FeasibleIsCertified
<1> QED
  BY <1>4, <1>5

\* How a turn can end the call: accepted, by falling back, or refused.
Ends ==
    \/ /\ Converged
       /\ ids = <<>> \/ Negative(Multipliers(ids, prop, rhs)) = {}
       /\ \E f : Coherent(f) /\ f.ids = ids /\ Accept(f)
    \/ \E mask, synced : FallbackToAnchor(mask, synced)
    \/ ret'.kind = "refused" /\ ~opts.fallbackEnabled

\* A step of a running call goes on, or returns in one of the ways finalize_with_safety
\* and the exhausted budget have.
LEMMA TurnEnds ==
  ASSUME IInv, Loop
  PROVE  /\ pc = "loop"
         /\ UNCHANGED settingVars
         /\ Ends \/ UNCHANGED <<pc, ret>>
<1>1. CASE Finish
  <2>1. /\ pc = "loop" /\ Converged /\ FinalSolve.ok
        /\ ids = <<>> \/ Negative(Multipliers(ids, prop, rhs)) = {}
    BY <1>1 DEF Finish, Turn
  <2>2. Coherent(FinalSolve.factor) /\ FinalSolve.factor.ids = ids
    BY <2>1, FinalSolveOk
  <2>3. CASE Accept(FinalSolve.factor)
    BY <2>1, <2>2, <2>3 DEF Ends, Accept
  <2>4. CASE RefuseSilently(FinalSolve.factor)
    <3>1. ret'.kind = "refused" /\ ~opts.fallbackEnabled /\ UNCHANGED settingVars
      BY <2>4 DEF RefuseSilently, Return
    <3> QED
      BY <2>1, <3>1 DEF Ends
  <2>5. CASE RefuseToFallback(FinalSolve.factor)
    BY <2>1, <2>5 DEF Ends, RefuseToFallback, FallbackToAnchor
  <2> QED
    BY <1>1, <2>3, <2>4, <2>5 DEF Finish
<1>2. CASE FinishSolveFails
  BY <1>2 DEF FinishSolveFails, Turn, Ends, FallbackToAnchor
<1>3. CASE EnterRejected
  BY <1>3 DEF EnterRejected, Turn, Ends, FallbackToAnchor
<1>4. CASE EnterSolveFails
  BY <1>4 DEF EnterSolveFails, Enters, Turn, Ends, FallbackToAnchor
<1>5. CASE BudgetExhausted
  BY <1>5 DEF BudgetExhausted, Ends, FallbackToAnchor
<1>6. CASE DropAtConvergence
  BY <1>6 DEF DropAtConvergence, Turn, Drop
<1>7. CASE EnterDrop
  BY <1>7 DEF EnterDrop, Enters, Turn, Drop
<1>8. CASE EnterMove
  BY <1>8 DEF EnterMove, Enters, Turn
<1> QED
  BY <1>1, <1>2, <1>3, <1>4, <1>5, <1>6, <1>7, <1>8 DEF Loop

-----------------------------------------------------------------------------
\* The theorems.

\* A cached kappa verdict stays that of the right-hand side under the options of its time.
LEMMA NextKappaKept == IInv /\ KappaKept /\ [Next]_vars => KappaKept'
<1> SUFFICES ASSUME IInv, KappaKept, [Next]_vars PROVE KappaKept'
  OBVIOUS
<1>1. ASSUME NEW o \in OptionSets, SetOptions(o) PROVE KappaKept'
  BY <1>1 DEF SetOptions, tickVars, KappaKept
<1>2. ASSUME NEW r \in RightHandSides, SetRhs(r) PROVE KappaKept'
  BY <1>2 DEF SetRhs, tickVars, KappaKept, KappaPassed, IInv, TypeOK
<1>3. ASSUME NEW p \in Proposals, StartTick(p) PROVE KappaKept'
  BY <1>3 DEF StartTick, settingVars, KappaKept
<1>4. CASE Loop
  BY <1>4, TurnEnds DEF settingVars, KappaKept
<1>5. CASE UNCHANGED vars
  BY <1>5 DEF vars, KappaKept
<1> QED
  BY <1>1, <1>2, <1>3, <1>4, <1>5 DEF Next

\* An answer is merged from the entries that the call leaves.
LEMMA RecomputeMerges ==
  ASSUME NEW o, NEW touched, NEW q, NEW n, n = Recompute(o, touched, q)
  PROVE  /\ n.active = o.active
         /\ n.last = Merge(Best({n.blockBest[b] : b \in Blocks}), GlobalBest(o.active, q, rhs))
<1> DEFINE best == [b \in Blocks |-> IF b \in touched THEN BlockBest(b, o.active, q, rhs)
                                     ELSE o.blockBest[b]]
<1>1. n.active = o.active /\ n.blockBest = best
  BY DEF Recompute
<1>2. n.last = Merge(Best({best[b] : b \in Blocks}), GlobalBest(o.active, q, rhs))
  BY DEF Recompute
<1> QED
  BY <1>1, <1>2

\* Every call of the oracle rescans the global rows, so that their entry is never stale.
LEMMA NextGlobalFresh == GlobalFresh /\ [Next]_vars => GlobalFresh'
<1> SUFFICES ASSUME GlobalFresh, [Next]_vars, pc' = "loop" PROVE GlobalFresh'
  BY DEF GlobalFresh
<1>1. ASSUME NEW o, NEW touched, NEW q, rhs' = rhs, qCurr' = q, oracle' = Recompute(o, touched, q)
      PROVE  GlobalFresh'
  <2>1. /\ oracle'.active = o.active
        /\ oracle'.last = Merge(Best({oracle'.blockBest[b] : b \in Blocks}),
                                GlobalBest(o.active, q, rhs))
    BY <1>1, RecomputeMerges
  <2> QED
    BY <1>1, <2>1 DEF GlobalFresh
<1>2. ASSUME NEW o \in OptionSets, SetOptions(o) PROVE GlobalFresh'
  BY <1>2 DEF SetOptions, tickVars
<1>3. ASSUME NEW r \in RightHandSides, SetRhs(r) PROVE GlobalFresh'
  BY <1>3 DEF SetRhs, tickVars
<1>4. ASSUME NEW p \in Proposals, StartTick(p) PROVE GlobalFresh'
  BY <1>1, <1>4 DEF StartTick, settingVars
<1>5. CASE DropAtConvergence
  BY <1>1, <1>5 DEF DropAtConvergence, Drop, settingVars
<1>6. CASE EnterDrop
  BY <1>1, <1>6 DEF EnterDrop, Drop, settingVars
<1>7. CASE EnterMove
  BY <1>1, <1>7 DEF EnterMove, settingVars
<1>8. CASE Loop /\ ~DropAtConvergence /\ ~EnterDrop /\ ~EnterMove
  BY <1>8 DEF Loop, Finish, Accept, RefuseSilently, RefuseToFallback, FinishSolveFails,
               EnterRejected, EnterSolveFails, BudgetExhausted, FallbackToAnchor, LeaveLoop
<1>9. CASE UNCHANGED vars
  BY <1>9 DEF vars, GlobalFresh
<1> QED
  BY <1>2, <1>3, <1>4, <1>5, <1>6, <1>7, <1>8, <1>9 DEF Next

\* What holds of the loop carries over to what it returns.
OutInv == IInv /\ Fresh /\ KappaKept /\ GlobalFresh

\* Each way of returning gives an output as promised.
LEMMA NextOutput ==
  OutInv /\ OutputCertified /\ StreamingOutput /\ [Next]_vars => (OutputCertified /\ StreamingOutput)'
<1> SUFFICES ASSUME OutInv, OutputCertified, StreamingOutput, [Next]_vars
             PROVE  (OutputCertified /\ StreamingOutput)'
  OBVIOUS
<1> USE DEF OutInv
<1>1. ASSUME ret'.kind \in {"none", "refused"} PROVE (OutputCertified /\ StreamingOutput)'
  BY <1>1 DEF OutputCertified, StreamingOutput
<1>2. ASSUME UNCHANGED <<opts, rhs, ret>> PROVE (OutputCertified /\ StreamingOutput)'
  BY <1>2 DEF OutputCertified, StreamingOutput, Certified, StrictlyCertified, Rescanned
<1>3. ASSUME pc = "loop", UNCHANGED settingVars, Converged,
             NEW f, Coherent(f), f.ids = ids, Accept(f)
      PROVE  (OutputCertified /\ StreamingOutput)'
  <2>1. ret'.kind = "accepted" /\ opts' = opts /\ rhs' = rhs
    BY <1>3 DEF Accept, Return, settingVars
  <2>2. ASSUME Rescanned, NEW id \in Ids
        PROVE  /\ RowViolation(id, ret'.out, rhs) <= 0
               /\ opts.strictInterior => RowViolation(id, ret'.out, rhs) < 0
    <3>1. id \notin Elems(ids) => RowViolation(id, qCurr, rhs) <= 0
      BY <1>3, <2>2, ConvergedRows
    <3> QED
      BY <1>3, <3>1, AcceptedRow
  <2>3. ASSUME NEW id \in GlobalIds PROVE RowViolation(id, ret'.out, rhs) <= 0
    <3>1. id \notin Elems(ids) => RowViolation(id, qCurr, rhs) <= 0
      BY <1>3, ConvergedGlobalRows
    <3>2. id \in Ids
      BY DEF Ids
    <3> QED
      BY <1>3, <3>1, <3>2, AcceptedRow
  <2> QED
    BY <2>1, <2>2, <2>3 DEF OutputCertified, StreamingOutput, Certified, StrictlyCertified, Rescanned
<1>4. ASSUME pc = "loop", UNCHANGED settingVars, NEW mask, NEW synced, FallbackToAnchor(mask, synced)
      PROVE  (OutputCertified /\ StreamingOutput)'
  <2>1. ret'.kind = "fallback" /\ rhs' = rhs
    BY <1>4 DEF FallbackToAnchor, Return, settingVars
  <2>2. Certified(Origin) => \A id \in Ids : RowViolation(id, ret'.out, rhs) <= 0
    BY <1>4, FallbackRow
  <2> QED
    BY <2>1, <2>2 DEF OutputCertified, StreamingOutput, Certified
<1>5. CASE Loop
  <2>1. pc = "loop" /\ UNCHANGED settingVars /\ (Ends \/ UNCHANGED ret)
    BY <1>5, TurnEnds
  <2>2. CASE UNCHANGED ret
    BY <1>2, <2>1, <2>2 DEF settingVars
  <2>3. CASE Ends
    BY <1>1, <1>3, <1>4, <2>1, <2>3 DEF Ends
  <2> QED
    BY <2>1, <2>2, <2>3
<1>6. CASE ret' = NoReturn
  BY <1>1, <1>6 DEF NoReturn
<1>7. CASE UNCHANGED vars
  BY <1>2, <1>7 DEF vars
<1> QED
  BY <1>5, <1>6, <1>7 DEF Next, SetOptions, SetRhs, StartTick

\* The invariant and the outputs together.
LEMMA OutputInvariance == Spec => [](OutputCertified /\ StreamingOutput)
<1>1. Init => KappaKept /\ GlobalFresh /\ OutputCertified /\ StreamingOutput /\ Fresh
  BY DEF Init, KappaKept, GlobalFresh, OutputCertified, StreamingOutput, NoReturn, Fresh
<1>2. /\ OutInv /\ OutputCertified /\ StreamingOutput /\ [Next]_vars
      => (OutputCertified /\ StreamingOutput)'
  BY NextOutput
<1>3. OutInv /\ [Next]_vars => Fresh' /\ KappaKept' /\ GlobalFresh'
  BY NextFresh, NextKappaKept, NextGlobalFresh DEF OutInv
<1>4. IInv /\ Fresh /\ KappaKept /\ GlobalFresh => OutInv
  BY DEF OutInv
<1> QED
  BY <1>1, <1>2, <1>3, <1>4, Invariance, PTL DEF Spec

\* A caller whose ticks are all rescanned, by option or by a new right-hand side, gets no
\* accepted point with a violated row, active or not, and none on a bound in strict
\* mode; a fallback's point is certified whenever the anchor is.
THEOREM OutputsAreCertified == Spec => []OutputCertified
  BY OutputInvariance, PTL

\* Any caller gets accepted points whose global rows are certified, and fallbacks that
\* are certified whenever the anchor is.
THEOREM StreamingOutputsHold == Spec => []StreamingOutput
  BY OutputInvariance, PTL
\* What is returned is a point whose rows are numbers, and with fallbacks on there is one.
Answered ==
    /\ ret.kind \in {"accepted", "fallback"} => Numeric(ret.out, rhs)
    /\ ret.kind = "refused" => ~opts.fallbackEnabled

LEMMA NextAnswered == IInv /\ Answered /\ [Next]_vars => Answered'
<1> SUFFICES ASSUME IInv, Answered, [Next]_vars PROVE Answered'
  OBVIOUS
<1>1. CASE Loop
  <2>1. pc = "loop" /\ rhs' = rhs /\ opts' = opts /\ (Ends \/ UNCHANGED ret)
    BY <1>1, TurnEnds DEF settingVars
  <2>2. ASSUME NEW f, Accept(f) PROVE Answered'
    <3>1. ret'.kind = "accepted" /\ ret'.out = Shrink(qCurr, TauFor(opts, qCurr, rhs))
      BY <2>2 DEF Accept, Return, TauUse
    <3> QED
      BY <2>1, <3>1, ShrunkNumeric DEF Answered, Numeric
  <2>3. ASSUME NEW mask, NEW synced, FallbackToAnchor(mask, synced) PROVE Answered'
    <3>1. PICK x \in RayPoints(prop, rhs) : ret'.out = FallbackOutput(x)
      BY <2>3 DEF FallbackToAnchor, Return
    <3>2. ret'.kind = "fallback"
      BY <2>3 DEF FallbackToAnchor, Return
    <3> QED
      BY <2>1, <3>1, <3>2, FallbackNumeric DEF Answered, Numeric
  <2>4. CASE ret'.kind = "refused" /\ ~opts.fallbackEnabled
    BY <2>1, <2>4 DEF Answered
  <2>5. CASE UNCHANGED ret
    BY <2>1, <2>5 DEF Answered, Numeric
  <2> QED
    BY <2>1, <2>2, <2>3, <2>4, <2>5 DEF Ends
<1>2. CASE ret' = NoReturn
  BY <1>2 DEF NoReturn, Answered
<1>3. CASE UNCHANGED vars
  BY <1>3 DEF vars, Answered, Numeric
<1> QED
  BY <1>1, <1>2, <1>3 DEF Next, SetOptions, SetRhs, StartTick

LEMMA AnswerInvariance == Spec => []Answered
<1>1. Init => Answered
  BY DEF Init, Answered, NoReturn
<1> QED
  BY <1>1, NextAnswered, Invariance, PTL DEF Spec

-----------------------------------------------------------------------------
\* The accepted candidate is the solution of its active set.

\* The point is the solution of some list, the base: that of the latest move or of the
\* tick's start.  Drops shorten the ids below it and leave the point alone, but they name
\* the block of every row that leaves, so the base's inactive rows are not stale.
SolvedFrom(base) ==
    /\ Len(ids) <= Len(base)
    /\ base = <<>> => qCurr = prop
    /\ base # <<>> => Factorable(base) /\ qCurr = Combine(base, prop, rhs)
    /\ \A id \in (Elems(base) \ Elems(ids)) \cap LocalIds :
          oracle.blockBest[BlockOf(id)] = BlockBest(BlockOf(id), oracle.active, qCurr, rhs)

Solved == pc = "loop" => \E base \in IdLists : SolvedFrom(base)

\* A list names as many rows as it is long.
LEMMA ListCardinality ==
  ASSUME NEW s \in IdLists
  PROVE  IsFiniteSet(Elems(s)) /\ Cardinality(Elems(s)) = Len(s) /\ Len(s) \in Nat
<1>1. /\ Len(s) \in Nat /\ DOMAIN s = 1 .. Len(s) /\ s \in [1 .. Len(s) -> Ids]
      /\ \A i, j \in DOMAIN s : s[i] = s[j] => i = j
  BY IdListFacts
<1>2. IsFiniteSet(1 .. Len(s)) /\ Cardinality(1 .. Len(s)) = Len(s)
  BY <1>1, FS_Interval
<1>3. s \in Bijection(1 .. Len(s), Elems(s))
  BY <1>1 DEF Elems, Bijection, Injection, Surjection, IsInjective
<1> QED
  BY <1>1, <1>2, <1>3, FS_Bijection DEF ExistsBijection

\* A list that holds all rows of a list that is not shorter holds just these.
LEMMA SameRows ==
  ASSUME NEW s \in IdLists, NEW t \in IdLists, Elems(s) \subseteq Elems(t), Len(t) <= Len(s)
  PROVE  Elems(s) = Elems(t)
<1>1. Cardinality(Elems(s)) <= Cardinality(Elems(t))
  BY ListCardinality, FS_Subset
<1>2. Cardinality(Elems(t)) = Cardinality(Elems(s))
  BY <1>1, ListCardinality
<1> QED
  BY <1>2, ListCardinality, FS_Subset

\* A list without rows is empty.
LEMMA NoRowsNoList ==
  ASSUME NEW s \in IdLists
  PROVE  Elems(s) = {} <=> s = <<>>
<1>1. DOMAIN s = 1 .. Len(s) /\ Len(s) \in Nat /\ s \in Seq(Ids)
  BY IdListFacts
<1>2. ASSUME Elems(s) = {} PROVE s = <<>>
  <2>1. Len(s) = 0
    BY <1>1, <1>2, ListCardinality, FS_EmptySet
  <2> QED
    BY <1>1, <2>1
<1> QED
  BY <1>2, EmptyIdList

\* At convergence no row of the base is inactive: on its bound it would count as violated.
LEMMA BaseIsActive ==
  ASSUME BoundRowsViolated, IInv, GlobalFresh, pc = "loop", Converged,
         NEW base \in IdLists, SolvedFrom(base)
  PROVE  Elems(base) = Elems(ids)
<1>1. /\ ids \in IdLists /\ prop \in Proposals /\ rhs \in RightHandSides /\ qCurr \in Points
  BY DEF IInv, TypeOK
<1>2. Len(ids) <= Len(base)
  BY DEF SolvedFrom
<1>3. ASSUME NEW id \in Elems(base) \ Elems(ids) PROVE FALSE
  <2>1. PICK i \in DOMAIN base : id = base[i]
    BY <1>3 DEF Elems
  <2>2. base # <<>> /\ Factorable(base) /\ qCurr = Combine(base, prop, rhs)
    BY <1>3, EmptyIdList DEF SolvedFrom
  <2>3. RowViolation(id, qCurr, rhs) > 0
    BY <1>1, <2>1, <2>2 DEF BoundRowsViolated
  <2>4. id \in Ids
    BY IdListFacts
  <2>5. RowViolation(id, qCurr, rhs) <= 0
    <3>1. CASE id \in LocalIds
      <4>1. oracle.blockBest[BlockOf(id)] = BlockBest(BlockOf(id), oracle.active, qCurr, rhs)
        BY <3>1 DEF SolvedFrom
      <4> QED
        BY <3>1, <4>1, ConvergedBlockRows
    <3>2. CASE id \in GlobalIds
      BY <3>2, ConvergedGlobalRows
    <3> QED
      BY <2>4, <3>1, <3>2 DEF Ids
  <2>6. RowViolation(id, qCurr, rhs) \in Int
    BY <1>1, <2>4, PointsNumeric DEF Numeric
  <2> QED
    BY <2>3, <2>5, <2>6
<1>4. Elems(base) \subseteq Elems(ids)
  BY <1>3
<1> QED
  BY <1>1, <1>2, <1>4, SameRows

\* A tick starts from the list it solved.
LEMMA StartTickSolved ==
  ASSUME IInv, NEW p \in Proposals, StartTick(p)
  PROVE  Solved'
<1> DEFINE start == IF opts.warmStart THEN warm ELSE <<>>
           s     == Solve(factor, start)
           list  == IF s.ok THEN start ELSE <<>>
<1>1. /\ ids' = list /\ prop' = p /\ rhs' = rhs
      /\ qCurr' = IF list = <<>> THEN p ELSE Combine(list, p, rhs)
  BY DEF StartTick, settingVars
<1>2. start \in IdLists /\ list \in IdLists
  BY EmptyIdList DEF IInv, TypeOK
<1>3. list # <<>> => s.ok /\ list = start
  OBVIOUS
<1>4. Coherent(factor)
  BY DEF IInv
<1>5. list # <<>> => Factorable(list)
  <2> HIDE DEF list
  <2> SUFFICES ASSUME list # <<>> PROVE Factorable(list)
    OBVIOUS
  <2>1. Coherent(s.factor) /\ s.factor.ids = list
    BY <1>2, <1>3, <1>4, SolveOk
  <2> QED
    BY <2>1 DEF Coherent
<1>6. Len(list) <= Len(list)
  <2> HIDE DEF list
  <2> QED
    BY <1>2, IdListFacts
<1> HIDE DEF list
<1>7. PICK base \in IdLists : base = list
  BY <1>2
<1>8. SolvedFrom(base)'
  BY <1>1, <1>5, <1>6, <1>7 DEF SolvedFrom
<1> QED
  BY <1>8 DEF Solved

\* A drop keeps the base and names the block of each row of it that leaves.
LEMMA DropSolved ==
  ASSUME IInv, pc = "loop", Solved, NEW list \in IdLists, NEW f, NEW i \in DOMAIN list,
         NEW entered, NEW synced, Elems(ids) \subseteq Elems(list), Len(list) - 1 <= Len(ids),
         Elems(list) = Elems(ids) \cup entered,
         Drop(list, f, i, Elems(list), synced, entered)
  PROVE  Solved'
<1>1. PICK base \in IdLists : SolvedFrom(base)
  BY DEF Solved
<1> DEFINE r == list[i]
           o == [oracle EXCEPT !.active = Elems(list) \ {r}]
           touched == MaskBlocks({r} \cup entered)
<1>2. /\ ids' = RemoveAt(list, i) /\ oracle' = Recompute(o, touched, qCurr)
      /\ qCurr' = qCurr /\ prop' = prop /\ rhs' = rhs
  BY DEF Drop, settingVars
<1>3. Elems(ids') = Elems(list) \ {r} /\ Len(ids') = Len(list) - 1
  BY <1>2, RemoveAtList
<1>4. o.active = Elems(list) \ {r} /\ o.blockBest = oracle.blockBest
  BY DEF IInv, GenuineOracle, OracleStates
<1>5. /\ oracle'.active = o.active
      /\ oracle'.blockBest = [b \in Blocks |-> IF b \in touched
                                               THEN BlockBest(b, o.active, qCurr, rhs)
                                               ELSE o.blockBest[b]]
  BY <1>2 DEF Recompute
<1>6. ids \in IdLists /\ qCurr \in Points /\ rhs \in RightHandSides /\ oracle.active = Elems(ids)
  BY DEF IInv, TypeOK, MaskCoherent
<1>7. Len(ids') <= Len(base)
  BY <1>1, <1>3, <1>6, IdListFacts DEF SolvedFrom
<1> HIDE DEF r, o
<1>8. ASSUME NEW id \in (Elems(base) \ Elems(ids')) \cap LocalIds
      PROVE  oracle'.blockBest[BlockOf(id)] = BlockBest(BlockOf(id), oracle'.active, qCurr, rhs)
  <2> DEFINE b == BlockOf(id)
  <2>1. b \in Blocks /\ id \in RowsOf(b)
    BY BlockOfLocal DEF RowsOf
  <2>2. CASE b \in touched
    BY <1>5, <2>1, <2>2
  <2>3. CASE b \notin touched
    <3>1. \A x \in RowsOf(b) : x \in Ids /\ x \notin {r} \cup entered
      BY <2>1, <2>3, RowsOfOtherBlocks
    <3>2. id \notin Elems(ids)
      BY <1>3, <1>8, <2>1, <3>1
    <3>3. oracle.blockBest[b] = BlockBest(b, oracle.active, qCurr, rhs)
      BY <1>1, <1>8, <3>2 DEF SolvedFrom
    <3>4. RowsOf(b) \ oracle.active = RowsOf(b) \ oracle'.active
      BY <1>3, <1>4, <1>5, <1>6, <3>1
    <3>5. BlockBest(b, oracle.active, qCurr, rhs) = BlockBest(b, oracle'.active, qCurr, rhs)
      BY <1>6, <2>1, <3>4, UntouchedBlock
    <3> QED
      BY <1>4, <1>5, <2>1, <2>3, <3>3, <3>5
  <2> QED
    BY <2>2, <2>3
<1>9. SolvedFrom(base)'
  BY <1>1, <1>2, <1>7, <1>8 DEF SolvedFrom
<1> QED
  BY <1>9 DEF Solved

\* A move makes the list it solved the base.
LEMMA EnterMoveSolved ==
  ASSUME IInv, EnterMove
  PROVE  Solved'
<1> DEFINE list == Append(ids, Entering)
           s == Solve(factor, list)
<1>1. /\ Enters /\ s.ok /\ ids' = list /\ qCurr' = Combine(list, prop, rhs)
      /\ prop' = prop /\ rhs' = rhs
  BY DEF EnterMove, settingVars
<1>2. list \in IdLists /\ list # <<>>
  BY <1>1, EntersList
<1>3. Coherent(factor)
  BY DEF IInv
<1> HIDE DEF list
<1>4. Coherent(s.factor) /\ s.factor.ids = list
  BY <1>1, <1>2, <1>3, SolveOk
<1>5. Factorable(list) /\ Len(list) <= Len(list)
  BY <1>2, <1>4, IdListFacts DEF Coherent
<1>6. PICK base \in IdLists : base = list
  BY <1>2
<1>7. SolvedFrom(base)'
  BY <1>1, <1>2, <1>5, <1>6 DEF SolvedFrom
<1> QED
  BY <1>7 DEF Solved

LEMMA NextSolved == IInv /\ Solved /\ [Next]_vars => Solved'
<1> SUFFICES ASSUME IInv, Solved, [Next]_vars PROVE Solved'
  OBVIOUS
<1>1. ASSUME pc' = "idle" PROVE Solved'
  BY <1>1 DEF Solved
<1>2. ASSUME NEW o \in OptionSets, SetOptions(o) PROVE Solved'
  BY <1>1, <1>2 DEF SetOptions, tickVars
<1>3. ASSUME NEW r \in RightHandSides, SetRhs(r) PROVE Solved'
  BY <1>1, <1>3 DEF SetRhs, tickVars
<1>4. ASSUME NEW p \in Proposals, StartTick(p) PROVE Solved'
  BY <1>4, StartTickSolved
<1>5. CASE Finish
  BY <1>1, <1>5 DEF Finish, Accept, RefuseSilently, RefuseToFallback, FallbackToAnchor, LeaveLoop
<1>6. CASE FinishSolveFails \/ EnterRejected \/ EnterSolveFails \/ BudgetExhausted
  BY <1>1, <1>6 DEF FinishSolveFails, EnterRejected, EnterSolveFails, BudgetExhausted,
                    FallbackToAnchor, LeaveLoop
<1>7. CASE DropAtConvergence
  <2> DEFINE lambda == Multipliers(ids, prop, rhs)
             f == FinalSolve.factor
  <2>1. /\ pc = "loop" /\ FinalSolve.ok /\ ids # <<>> /\ Negative(lambda) # {}
        /\ Drop(ids, f, DropPos(lambda), oracle.active, oracleIds, {})
    BY <1>7 DEF DropAtConvergence, Turn
  <2>2. ids \in IdLists /\ oracle.active = Elems(ids)
    BY <2>1 DEF IInv, TypeOK, MaskCoherent
  <2>3. Coherent(f) /\ f.ids = ids
    BY <2>1, FinalSolveOk
  <2>4. Factorable(ids)
    BY <2>1, <2>3 DEF Coherent
  <2>5. DropPos(lambda) \in DOMAIN ids
    BY <2>1, <2>2, <2>4, SolvedNumerics
  <2>6. Len(ids) - 1 <= Len(ids) /\ Elems(ids) = Elems(ids) \cup {}
    BY <2>2, IdListFacts
  <2> HIDE DEF lambda, f
  <2> QED
    BY <2>1, <2>2, <2>5, <2>6, DropSolved
<1>8. CASE EnterDrop
  <2> DEFINE list == Append(ids, Entering)
             lambda == Multipliers(list, prop, rhs)
             s == Solve(factor, list)
  <2>1. /\ Enters /\ s.ok /\ Negative(lambda) # {}
        /\ Drop(list, s.factor, DropPos(lambda), oracle.active \cup {Entering},
                oracleIds \cup {Entering}, {Entering})
    BY <1>8 DEF EnterDrop
  <2>2. /\ pc = "loop" /\ list \in IdLists /\ list # <<>>
        /\ Elems(list) = Elems(ids) \cup {Entering}
    BY <2>1, EntersList
  <2>3. /\ ids \in IdLists /\ oracle.active \cup {Entering} = Elems(list) /\ Coherent(factor)
    BY <2>2 DEF IInv, TypeOK, MaskCoherent
  <2>4. Len(list) - 1 <= Len(ids)
    BY <2>3, IdListFacts
  <2> HIDE DEF list
  <2>5. Coherent(s.factor) /\ s.factor.ids = list
    BY <2>1, <2>2, <2>3, SolveOk
  <2>6. Factorable(list)
    BY <2>2, <2>5 DEF Coherent
  <2>7. DropPos(lambda) \in DOMAIN list
    BY <2>1, <2>2, <2>6, SolvedNumerics
  <2> HIDE DEF lambda, s
  <2> QED
    BY <2>1, <2>2, <2>3, <2>4, <2>7, DropSolved
<1>9. CASE EnterMove
  BY <1>9, EnterMoveSolved
<1>10. CASE UNCHANGED vars
  BY <1>10 DEF vars, Solved, SolvedFrom
<1> QED
  BY <1>2, <1>3, <1>4, <1>5, <1>6, <1>7, <1>8, <1>9, <1>10 DEF Next, Loop

\* What a call that is accepted returns, before the rows of the base are known to be
\* solved in the order of the ids.
AcceptedFrom(f) ==
    /\ pc = "loop" /\ Converged
    /\ ids = <<>> \/ Negative(Multipliers(ids, prop, rhs)) = {}
    /\ Coherent(f) /\ f.ids = ids
    /\ Accept(f)

\* An accepted call has solved its own active ids.
LEMMA AcceptSolved ==
  ASSUME BoundRowsViolated, OrderFree, IInv, GlobalFresh, Solved, NEW f, AcceptedFrom(f)
  PROVE  AcceptedIsSolved'
<1>1. /\ ids \in IdLists /\ prop \in Proposals /\ rhs \in RightHandSides
  BY DEF IInv, TypeOK, AcceptedFrom
<1>2. ret'.ids = ids /\ ret'.cand = qCurr /\ ret'.prop = prop /\ rhs' = rhs
  BY DEF AcceptedFrom, Accept, Return, settingVars
<1>3. PICK base \in IdLists : SolvedFrom(base)
  BY DEF Solved, AcceptedFrom
<1>4. Elems(base) = Elems(ids)
  BY <1>3, BaseIsActive DEF AcceptedFrom
<1>5. CASE ids = <<>>
  <2>1. base = <<>>
    BY <1>4, <1>5, NoRowsNoList, EmptyIdList
  <2> QED
    BY <1>2, <1>3, <1>5, <2>1 DEF SolvedFrom, AcceptedIsSolved
<1>6. CASE ids # <<>>
  <2>1. base # <<>>
    BY <1>1, <1>4, <1>6, NoRowsNoList, EmptyIdList
  <2>2. Factorable(base) /\ Factorable(ids)
    BY <1>3, <1>6, <2>1 DEF SolvedFrom, AcceptedFrom, Coherent
  <2>3. qCurr = Combine(ids, prop, rhs)
    BY <1>1, <1>3, <1>4, <2>1, <2>2 DEF SolvedFrom, OrderFree, Elems
  <2>4. ASSUME NEW i \in DOMAIN ids PROVE Multipliers(ids, prop, rhs)[i] >= -LambdaNegativeTol
    <3>1. Multipliers(ids, prop, rhs) \in [DOMAIN ids -> Int]
      BY <1>1, <2>2, NumericAssumption
    <3>2. i \notin Negative(Multipliers(ids, prop, rhs))
      BY <1>6 DEF AcceptedFrom
    <3> QED
      BY <2>4, <3>1, <3>2, ParameterAssumption DEF Negative
  <2> QED
    BY <1>2, <1>6, <2>3, <2>4 DEF AcceptedIsSolved
<1> QED
  BY <1>5, <1>6

\* Out of strict mode an accepted call had no active row to certify.
LEMMA AcceptProposal ==
  ASSUME BoundRowsViolated, IInv, KappaKept, GlobalFresh, Solved, NEW f, AcceptedFrom(f)
  PROVE  NonStrictOutputIsProposal'
<1>1. /\ ids \in IdLists /\ prop \in Proposals /\ rhs \in RightHandSides /\ qCurr \in Points
      /\ opts \in OptionSets
  BY DEF IInv, TypeOK, AcceptedFrom
<1>2. /\ ret'.ids = ids /\ ret'.prop = prop /\ rhs' = rhs /\ opts' = opts
      /\ ret'.out = Shrink(qCurr, TauUse(qCurr))
  BY DEF AcceptedFrom, Accept, Return, settingVars
<1> SUFFICES ASSUME ~opts.strictInterior PROVE ret'.ids = <<>> /\ ret'.out = ret'.prop
  BY <1>2 DEF NonStrictOutputIsProposal
<1>3. ret'.out = qCurr
  BY <1>1, <1>2, OutputAssumption DEF TauUse, TauFor
<1>4. PICK base \in IdLists : SolvedFrom(base)
  BY DEF Solved, AcceptedFrom
<1>5. Elems(base) = Elems(ids)
  BY <1>4, BaseIsActive DEF AcceptedFrom
<1>6. ASSUME base # <<>> PROVE FALSE
  <2>1. PICK i \in DOMAIN base : TRUE
    BY <1>6, NoRowsNoList DEF Elems
  <2>2. base[i] \in Elems(ids) /\ base[i] \in Ids
    BY <1>1, <1>5, IdListFacts DEF Elems
  <2>3. RowViolation(base[i], qCurr, rhs) > 0
    BY <1>1, <1>4, <1>6 DEF SolvedFrom, BoundRowsViolated
  <2>4. RowViolation(base[i], ret'.out, rhs) <= 0
    BY <2>2, AcceptedRow DEF AcceptedFrom
  <2>5. RowViolation(base[i], qCurr, rhs) \in Int
    BY <1>1, <2>2, PointsNumeric DEF Numeric
  <2> QED
    BY <1>3, <2>3, <2>4, <2>5
<1>7. ids = <<>>
  BY <1>1, <1>5, <1>6, NoRowsNoList, EmptyIdList
<1> QED
  BY <1>2, <1>3, <1>4, <1>6, <1>7 DEF SolvedFrom

\* A step that keeps the options, the right-hand side and the answer, or that answers
\* otherwise than by accepting, keeps both properties.
LEMMA NextAccepted ==
  ASSUME IInv, [Next]_vars
  PROVE  \/ ret'.kind # "accepted"
         \/ UNCHANGED <<opts, rhs, ret>>
         \/ \E f : AcceptedFrom(f)
<1>1. CASE Loop
  BY <1>1, TurnEnds DEF Ends, AcceptedFrom, FallbackToAnchor, Return, settingVars
<1>2. CASE ret' = NoReturn
  BY <1>2 DEF NoReturn
<1>3. CASE UNCHANGED vars
  BY <1>3 DEF vars
<1> QED
  BY <1>1, <1>2, <1>3 DEF Next, SetOptions, SetRhs, StartTick

LEMMA SolvedInvariance == Spec => [](IInv /\ KappaKept /\ GlobalFresh /\ Solved)
<1>1. Init => KappaKept /\ GlobalFresh /\ Solved
  BY DEF Init, KappaKept, GlobalFresh, Solved
<1>2. IInv /\ KappaKept /\ GlobalFresh /\ Solved /\ [Next]_vars => (KappaKept /\ GlobalFresh /\ Solved)'
  BY NextKappaKept, NextGlobalFresh, NextSolved
<1> QED
  BY <1>1, <1>2, Invariance, PTL DEF Spec

\* With exact numerics every accepted candidate, whatever the caller's discipline, is the
\* solution of the active ids returned with it and none of its multipliers is negative:
\* a drop, which leaves the point where the larger set put it, never is the last move.
THEOREM AcceptedAreSolved ==
  ASSUME BoundRowsViolated, OrderFree
  PROVE  Spec => []AcceptedIsSolved
<1>1. Init => AcceptedIsSolved
  BY DEF Init, AcceptedIsSolved, NoReturn
<1>2. IInv /\ KappaKept /\ GlobalFresh /\ Solved /\ AcceptedIsSolved /\ [Next]_vars
      => AcceptedIsSolved'
  <2> SUFFICES ASSUME IInv, GlobalFresh, Solved, AcceptedIsSolved, [Next]_vars
               PROVE  AcceptedIsSolved'
    OBVIOUS
  <2>1. CASE ret'.kind # "accepted" \/ UNCHANGED <<opts, rhs, ret>>
    BY <2>1 DEF AcceptedIsSolved
  <2>2. ASSUME NEW f, AcceptedFrom(f) PROVE AcceptedIsSolved'
    BY <2>2, AcceptSolved
  <2> QED
    BY <2>1, <2>2, NextAccepted
<1> QED
  BY <1>1, <1>2, SolvedInvariance, PTL DEF Spec

\* Where a solved row counts as violated, a call out of strict mode accepts nothing but a
\* proposal that needs no active row: every other call falls back or is refused.
THEOREM NonStrictOutputsAreProposals ==
  ASSUME BoundRowsViolated
  PROVE  Spec => []NonStrictOutputIsProposal
<1>1. Init => NonStrictOutputIsProposal
  BY DEF Init, NonStrictOutputIsProposal, NoReturn
<1>2. IInv /\ KappaKept /\ GlobalFresh /\ Solved /\ NonStrictOutputIsProposal /\ [Next]_vars
      => NonStrictOutputIsProposal'
  <2> SUFFICES ASSUME IInv, KappaKept, GlobalFresh, Solved, NonStrictOutputIsProposal,
                      [Next]_vars
               PROVE  NonStrictOutputIsProposal'
    OBVIOUS
  <2>1. CASE ret'.kind # "accepted" \/ UNCHANGED <<opts, rhs, ret>>
    BY <2>1 DEF NonStrictOutputIsProposal
  <2>2. ASSUME NEW f, AcceptedFrom(f) PROVE NonStrictOutputIsProposal'
    BY <2>2, AcceptProposal
  <2> QED
    BY <2>1, <2>2, NextAccepted
<1> QED
  BY <1>1, <1>2, SolvedInvariance, PTL DEF Spec
=============================================================================
