---------------------------- MODULE OracleProofs ----------------------------
(***************************************************************************)
(* Proofs about Oracle.  First the shape of the tournament tree and what   *)
(* rebuilding and replaying it do; then an inductive invariant: the        *)
(* entries of the blocks that are not dirty are up to date, every inner    *)
(* node names the winner of its children, and a node only ever names a     *)
(* block whose leaf is below it.  From it follow the invariants of the     *)
(* runs and the refinement of OracleSpec.                                  *)
(***************************************************************************)
EXTENDS Oracle, ViolatorsProofs

\* The numbers of the nodes.
LEMMA NodeNumbers ==
  /\ TreeLeafCount \in Nat /\ TreeLeafCount >= 1 /\ NumBlocks \in Nat
  /\ Nodes \subseteq Nat /\ 1 \in Nodes
  /\ NumBlocks <= TreeLeafCount
  /\ \A b \in Blocks : b \in Nat /\ Leaf(b) \in Nodes /\ Leaf(b) >= TreeLeafCount
  /\ \A n \in Nodes : n < TreeLeafCount =>
        2 * n \in Nodes /\ 2 * n + 1 \in Nodes /\ 2 * n > n /\ 2 * n + 1 > n
  /\ \A n \in Nodes : n > 1 =>
        n \div 2 \in Nodes /\ n \div 2 < TreeLeafCount /\ n \div 2 < n
        /\ (n = 2 * (n \div 2) \/ n = 2 * (n \div 2) + 1)
  /\ \A n \in Nodes : n < TreeLeafCount => (2 * n) \div 2 = n /\ (2 * n + 1) \div 2 = n
<1>1. TreeLeafCount \in Nat /\ TreeLeafCount >= 1 /\ NumBlocks \in Nat /\ NumBlocks <= TreeLeafCount
  BY TreeAssumption, SystemAssumption
<1>2. Nodes \subseteq Nat /\ 1 \in Nodes
  BY <1>1 DEF Nodes
<1>3. \A b \in Blocks : b \in Nat /\ Leaf(b) \in Nodes /\ Leaf(b) >= TreeLeafCount
  BY <1>1 DEF Blocks, Nodes, Leaf
<1>4. \A n \in Nodes : n < TreeLeafCount =>
        2 * n \in Nodes /\ 2 * n + 1 \in Nodes /\ 2 * n > n /\ 2 * n + 1 > n
  BY <1>1 DEF Nodes
<1>5. \A n \in Nodes : n > 1 =>
        n \div 2 \in Nodes /\ n \div 2 < TreeLeafCount /\ n \div 2 < n
        /\ (n = 2 * (n \div 2) \/ n = 2 * (n \div 2) + 1)
  BY <1>1, Z3 DEF Nodes
<1>6. \A n \in Nodes : n < TreeLeafCount => (2 * n) \div 2 = n /\ (2 * n + 1) \div 2 = n
  BY <1>2, Z3
<1> QED
  BY <1>1, <1>2, <1>3, <1>4, <1>5, <1>6

\* The replayed nodes of a block form a path from its leaf to the root: parents of nodes
\* on it are on it, an inner node on it has a child on it, and its only leaf is the block's.
LEMMA PathShape ==
  ASSUME NEW b \in Blocks
  PROVE  /\ Path[b] \subseteq Nodes
         /\ Leaf(b) \in Path[b]
         /\ 1 \in Path[b]
         /\ \A m \in Path[b] : m > 1 => m \div 2 \in Path[b]
         /\ \A n \in Nodes : n < TreeLeafCount =>
               (n \in Path[b] <=> 2 * n \in Path[b] \/ 2 * n + 1 \in Path[b])
         /\ \A n \in Path[b] : n >= TreeLeafCount => n = Leaf(b)
<1> DEFINE P == Path[b]
<1>1. P = {n \in Nodes : \A S \in SUBSET Nodes : Climbs(S, b) => n \in S}
  BY DEF Path
<1>2. Leaf(b) \in P
  BY <1>1, NodeNumbers DEF Climbs
<1>3. ASSUME NEW m \in P, m > 1 PROVE m \div 2 \in P
  <2>1. m \div 2 \in Nodes
    BY <1>1, <1>3, NodeNumbers
  <2>2. ASSUME NEW S \in SUBSET Nodes, Climbs(S, b) PROVE m \div 2 \in S
    BY <1>1, <1>3, <2>2 DEF Climbs
  <2> QED
    BY <1>1, <2>1, <2>2
<1>4. \A n \in P : n # Leaf(b) => \E m \in P : m > 1 /\ m \div 2 = n
  <2> SUFFICES ASSUME NEW n \in P, n # Leaf(b), \A m \in P : m > 1 => m \div 2 # n
               PROVE  FALSE
    OBVIOUS
  <2> DEFINE S == P \ {n}
  <2>1. S \in SUBSET Nodes
    BY <1>1
  <2>2. Climbs(S, b)
    BY <1>2, <1>3 DEF Climbs
  <2> HIDE DEF S
  <2>3. n \in S
    BY <1>1, <2>1, <2>2
  <2> QED
    BY <2>3 DEF S
<1> HIDE DEF P
<1>5. 1 \in P
  <2>1. P \subseteq Nat /\ P # {}
    BY <1>1, <1>2, NodeNumbers
  <2>2. PICK k \in P : \A m \in P : k <= m
    BY <2>1, LeastNatural
  <2>3. k \in Nodes /\ k >= 1 /\ k \in Nat
    BY <1>1, <2>1 DEF Nodes
  <2>4. CASE k > 1
    <3>1. k \div 2 \in P
      BY <1>3, <2>4
    <3>2. k <= k \div 2
      BY <2>2, <3>1
    <3>3. k \div 2 < k /\ k \div 2 \in Nat
      BY <2>3, <2>4, NodeNumbers
    <3> QED
      BY <2>3, <3>2, <3>3
  <2> QED
    BY <2>3, <2>4
<1>6. ASSUME NEW n \in Nodes, n < TreeLeafCount
      PROVE  n \in P <=> 2 * n \in P \/ 2 * n + 1 \in P
  <2>1. n \in Nat /\ n >= 1 /\ 2 * n > 1 /\ 2 * n + 1 > 1
    BY DEF Nodes
  <2>2. (2 * n) \div 2 = n /\ (2 * n + 1) \div 2 = n
    BY <1>6, NodeNumbers
  <2>3. 2 * n \in P \/ 2 * n + 1 \in P => n \in P
    BY <1>3, <2>1, <2>2
  <2>4. ASSUME n \in P PROVE 2 * n \in P \/ 2 * n + 1 \in P
    <3>1. n # Leaf(b)
      BY <1>6, NodeNumbers
    <3>2. PICK m \in P : m > 1 /\ m \div 2 = n
      BY <1>4, <2>4, <3>1
    <3>3. m = 2 * (m \div 2) \/ m = 2 * (m \div 2) + 1
      BY <1>1, <3>2, NodeNumbers
    <3> QED
      BY <3>2, <3>3
  <2> QED
    BY <2>3, <2>4
<1>7. ASSUME NEW n \in P, n >= TreeLeafCount PROVE n = Leaf(b)
  <2>1. CASE n # Leaf(b)
    <3>1. PICK m \in P : m > 1 /\ m \div 2 = n
      BY <1>4, <2>1
    <3>2. n < TreeLeafCount
      BY <1>1, <3>1, NodeNumbers
    <3> QED
      BY <1>1, <1>7, <3>2, NodeNumbers
  <2> QED
    BY <2>1
<1> QED
  BY <1>1, <1>2, <1>3, <1>5, <1>6, <1>7 DEF P

-----------------------------------------------------------------------------

BlockOrNone == Blocks \cup {NoBlock}
Trees       == [Nodes -> BlockOrNone]

\* G gives a node's value from the values of the larger nodes.
FromLarger(G) ==
    /\ G \in [Trees \X Nodes -> BlockOrNone]
    /\ \A t, u \in Trees, n \in Nodes :
            (\A m \in Nodes : m > n => t[m] = u[m]) => G[<<t, n>>] = G[<<u, n>>]

\* A tree may be defined at each node from its values at larger nodes.
LEMMA NodeRecursion ==
  ASSUME NEW G, FromLarger(G)
  PROVE  \E t \in Trees : \A n \in Nodes : t[n] = G[<<t, n>>]
<1> DEFINE V == BlockOrNone
<1>0. /\ G \in [[Nodes -> V] \X Nodes -> V] /\ NoBlock \in V /\ Trees = [Nodes -> V]
      /\ \A t, u \in [Nodes -> V], n \in Nodes :
            (\A m \in Nodes : m > n => t[m] = u[m]) => G[<<t, n>>] = G[<<u, n>>]
  BY DEF FromLarger, Trees, BlockOrNone
<1> HIDE DEF V
<1> DEFINE From(t, k) == \A n \in Nodes : n >= k => t[n] = G[<<t, n>>]
           K == {k \in Nat : \E t \in [Nodes -> V] : From(t, k)}
<1>1. 2 * TreeLeafCount \in K
  <2>1. [n \in Nodes |-> NoBlock] \in [Nodes -> V]
    BY <1>0
  <2>2. \A n \in Nodes : ~(n >= 2 * TreeLeafCount)
    BY NodeNumbers DEF Nodes
  <2>3. 2 * TreeLeafCount \in Nat
    BY NodeNumbers
  <2> QED
    BY <2>1, <2>2, <2>3
<1>2. PICK k \in K : \A j \in K : k <= j
  <2>1. K \subseteq Nat /\ K # {}
    BY <1>1
  <2> HIDE DEF K
  <2> QED
    BY <2>1, LeastNatural
<1>3. PICK t \in [Nodes -> V] : From(t, k)
  BY <1>2
<1>4. k \in Nat /\ k <= 2 * TreeLeafCount
  BY <1>1, <1>2
<1>5. CASE k <= 1
  <2>1. \A n \in Nodes : n >= k
    BY <1>4, <1>5 DEF Nodes
  <2> QED
    BY <1>0, <1>3, <2>1
<1>6. CASE k > 1
  <2> DEFINE j == k - 1
             u == [t EXCEPT ![j] = G[<<t, j>>]]
  <2>1. j \in Nodes /\ j \in Nat /\ j < k
    BY <1>4, <1>6, NodeNumbers DEF Nodes
  <2>2. u \in [Nodes -> V]
    BY <1>0, <2>1
  <2>3. \A m \in Nodes : m > j => u[m] = t[m]
    BY <2>1, NodeNumbers
  <2>4. ASSUME NEW n \in Nodes, n >= j PROVE u[n] = G[<<u, n>>]
    <3>1. n \in Nat
      BY NodeNumbers
    <3>2. \A m \in Nodes : m > n => t[m] = u[m]
      BY <2>1, <2>3, <2>4, <3>1, NodeNumbers
    <3>3. G[<<t, n>>] = G[<<u, n>>]
      BY <1>0, <2>2, <3>2
    <3>4. u[n] = G[<<t, n>>]
      <4>1. CASE n = j
        BY <2>1, <4>1
      <4>2. CASE n # j
        <5>1. n > j /\ n >= k
          BY <1>4, <2>1, <2>4, <3>1, <4>2
        <5> QED
          BY <1>3, <2>3, <5>1
      <4> QED
        BY <4>1, <4>2
    <3> QED
      BY <3>3, <3>4
  <2> HIDE DEF u
  <2>5. From(u, j)
    BY <2>4
  <2>6. j \in K
    BY <2>1, <2>2, <2>5
  <2>7. k <= j
    BY <1>2, <2>6
  <2> QED
    BY <1>4, <2>1, <2>7
<1>7. k <= 1 \/ k > 1
  BY <1>4
<1> QED
  BY <1>5, <1>6, <1>7, Zenon

\* What holds at a node whenever it holds at all larger nodes holds at every node.
LEMMA NodeInduction ==
  ASSUME NEW S, \A n \in Nodes : (\A m \in Nodes : m > n => m \in S) => n \in S
  PROVE  Nodes \subseteq S
<1> DEFINE Bad == {k \in Nat : \E n \in Nodes : n \notin S /\ k = 2 * TreeLeafCount - n}
<1>1. SUFFICES ASSUME NEW x \in Nodes, x \notin S PROVE FALSE
  OBVIOUS
<1>2. \A n \in Nodes : 2 * TreeLeafCount - n \in Nat /\ n \in Nat
  BY NodeNumbers DEF Nodes
<1>3. 2 * TreeLeafCount - x \in Bad
  BY <1>1, <1>2
<1>4. PICK k \in Bad : \A j \in Bad : k <= j
  <2>1. Bad \subseteq Nat /\ Bad # {}
    BY <1>3
  <2> HIDE DEF Bad
  <2> QED
    BY <2>1, LeastNatural
<1>5. PICK n \in Nodes : n \notin S /\ k = 2 * TreeLeafCount - n
  BY <1>4
<1>6. PICK m \in Nodes : m > n /\ m \notin S
  BY <1>5
<1>7. 2 * TreeLeafCount - m \in Bad
  BY <1>2, <1>6
<1>8. k <= 2 * TreeLeafCount - m
  BY <1>4, <1>7
<1> QED
  BY <1>2, <1>5, <1>6, <1>8, NodeNumbers

\* A match between two nodes is won by one of them.
LEMMA WinnerIsOne ==
  ASSUME NEW best, NEW l, NEW r
  PROVE  Winner(best, l, r) \in {l, r}
  BY DEF Winner

\* rebuild_tree: every node gets the value its loops give it.
LEMMA Rebuilt ==
  ASSUME NEW best
  PROVE  LET t == RebuiltTree(best)
         IN  /\ t \in Trees
             /\ \A n \in Nodes :
                   t[n] = IF n >= TreeLeafCount
                          THEN IF n - TreeLeafCount < NumBlocks THEN n - TreeLeafCount ELSE NoBlock
                          ELSE Winner(best, t[2 * n], t[2 * n + 1])
<1> DEFINE Leaves(n) == IF n - TreeLeafCount < NumBlocks THEN n - TreeLeafCount ELSE NoBlock
           Step(t, n) == IF n >= TreeLeafCount THEN Leaves(n)
                         ELSE Winner(best, t[2 * n], t[2 * n + 1])
           G == [p \in Trees \X Nodes |-> Step(p[1], p[2])]
<1>1. \A t \in Trees, n \in Nodes : Step(t, n) \in BlockOrNone
  <2> SUFFICES ASSUME NEW t \in Trees, NEW n \in Nodes PROVE Step(t, n) \in BlockOrNone
    OBVIOUS
  <2>1. CASE n >= TreeLeafCount
    BY <2>1, NodeNumbers DEF BlockOrNone, Blocks
  <2>2. CASE n < TreeLeafCount
    <3>1. 2 * n \in Nodes /\ 2 * n + 1 \in Nodes
      BY <2>2, NodeNumbers
    <3>2. Winner(best, t[2 * n], t[2 * n + 1]) \in BlockOrNone
      BY <3>1, WinnerIsOne DEF Trees
    <3>3. ~(n >= TreeLeafCount)
      BY <2>2, NodeNumbers
    <3> QED
      BY <3>2, <3>3
  <2> QED
    BY <2>1, <2>2, NodeNumbers
<1>2. G \in [Trees \X Nodes -> BlockOrNone]
  BY <1>1
<1>3. \A t \in Trees, n \in Nodes : G[<<t, n>>] = Step(t, n)
  OBVIOUS
<1>4. ASSUME NEW t \in Trees, NEW u \in Trees, NEW n \in Nodes,
             \A m \in Nodes : m > n => t[m] = u[m]
      PROVE  Step(t, n) = Step(u, n)
  <2>1. CASE n < TreeLeafCount
    BY <1>4, <2>1, NodeNumbers
  <2>2. CASE n >= TreeLeafCount
    BY <2>2
  <2> QED
    BY <2>1, <2>2, NodeNumbers
<1> HIDE DEF G
<1>5. \E t \in Trees : \A n \in Nodes : t[n] = Step(t, n)
  <2>1. FromLarger(G)
    <3> HIDE DEF Step
    <3> QED
      BY <1>2, <1>3, <1>4 DEF FromLarger
  <2>2. \E t \in Trees : \A n \in Nodes : t[n] = G[<<t, n>>]
    <3> HIDE DEF Step, Leaves
    <3> QED
      BY <2>1, NodeRecursion
  <2> HIDE DEF Step
  <2> QED
    BY <1>3, <2>2
<1>6. PICK t \in Trees : \A n \in Nodes : t[n] = Step(t, n)
  BY <1>5
<1>7. t = [n \in Nodes |-> Step(t, n)]
  BY <1>6 DEF Trees
<1>8. RebuiltTree(best) = CHOOSE x : x = [n \in Nodes |-> Step(x, n)]
  BY DEF RebuiltTree
<1>9. RebuiltTree(best) = [n \in Nodes |-> Step(RebuiltTree(best), n)]
  <2> HIDE DEF Step
  <2> QED
    BY <1>7, <1>8
<1> DEFINE r == RebuiltTree(best)
<1>10. \A n \in Nodes : r[n] = Step(r, n)
  <2> HIDE DEF Step
  <2> QED
    BY <1>9
<1>11. r \in Trees
  <2> DEFINE S == {n \in Nodes : r[n] \in BlockOrNone}
  <2>1. ASSUME NEW n \in Nodes, \A m \in Nodes : m > n => m \in S PROVE n \in S
    <3>1. CASE n >= TreeLeafCount
      BY <1>10, <3>1, NodeNumbers DEF BlockOrNone, Blocks
    <3>2. CASE n < TreeLeafCount
      <4>1. r[2 * n] \in BlockOrNone /\ r[2 * n + 1] \in BlockOrNone
        BY <2>1, <3>2, NodeNumbers
      <4>2. r[n] = Winner(best, r[2 * n], r[2 * n + 1])
        BY <1>10, <3>2, NodeNumbers
      <4> QED
        BY <4>1, <4>2, WinnerIsOne
    <3> QED
      BY <3>1, <3>2, NodeNumbers
  <2> HIDE DEF S
  <2>2. Nodes \subseteq S
    BY <2>1, NodeInduction
  <2>3. \A n \in Nodes : r[n] \in BlockOrNone
    BY <2>2 DEF S
  <2> HIDE DEF r, Step
  <2>4. r = [n \in Nodes |-> Step(r, n)]
    BY <1>9 DEF r
  <2>5. r = [n \in Nodes |-> r[n]]
    BY <2>4
  <2> QED
    BY <2>3, <2>5 DEF Trees
<1> QED
  BY <1>10, <1>11

\* update_tree_leaf: the nodes of the block's path get the value its loop gives them, the
\* others keep theirs.
LEMMA Replayed ==
  ASSUME NEW t0 \in Trees, NEW best, NEW b \in Blocks
  PROVE  LET u == ReplayedPath(t0, best, b)
         IN  /\ u \in Trees
             /\ u[Leaf(b)] = b
             /\ \A n \in Nodes : n \notin Path[b] => u[n] = t0[n]
             /\ \A n \in Path[b] : n # Leaf(b) => u[n] = Winner(best, u[2 * n], u[2 * n + 1])
<1> DEFINE Step(t, n) == IF n \notin Path[b] THEN t0[n]
                         ELSE IF n = Leaf(b) THEN b
                         ELSE Winner(best, t[2 * n], t[2 * n + 1])
           G == [p \in Trees \X Nodes |-> Step(p[1], p[2])]
<1>0. \A n \in Nodes : n \in Path[b] /\ n # Leaf(b) =>
          2 * n \in Nodes /\ 2 * n + 1 \in Nodes /\ 2 * n > n /\ 2 * n + 1 > n
  BY PathShape, NodeNumbers
<1>1. \A t \in Trees, n \in Nodes : Step(t, n) \in BlockOrNone
  BY <1>0, WinnerIsOne DEF Trees, BlockOrNone
<1>2. G \in [Trees \X Nodes -> BlockOrNone]
  BY <1>1
<1>3. \A t \in Trees, n \in Nodes : G[<<t, n>>] = Step(t, n)
  OBVIOUS
<1>4. ASSUME NEW t \in Trees, NEW u \in Trees, NEW n \in Nodes,
             \A m \in Nodes : m > n => t[m] = u[m]
      PROVE  Step(t, n) = Step(u, n)
  BY <1>0, <1>4
<1> HIDE DEF G
<1>5. \E t \in Trees : \A n \in Nodes : t[n] = Step(t, n)
  <2>1. FromLarger(G)
    <3> HIDE DEF Step
    <3> QED
      BY <1>2, <1>3, <1>4 DEF FromLarger
  <2>2. \E t \in Trees : \A n \in Nodes : t[n] = G[<<t, n>>]
    <3> HIDE DEF Step
    <3> QED
      BY <2>1, NodeRecursion
  <2> HIDE DEF Step
  <2> QED
    BY <1>3, <2>2
<1>6. PICK t \in Trees : \A n \in Nodes : t[n] = Step(t, n)
  BY <1>5
<1>7. t = [n \in Nodes |-> Step(t, n)]
  BY <1>6 DEF Trees
<1>8. ReplayedPath(t0, best, b) = CHOOSE x : x = [n \in Nodes |-> Step(x, n)]
  BY DEF ReplayedPath
<1>9. ReplayedPath(t0, best, b) = [n \in Nodes |-> Step(ReplayedPath(t0, best, b), n)]
  <2> HIDE DEF Step
  <2> QED
    BY <1>7, <1>8
<1> DEFINE r == ReplayedPath(t0, best, b)
<1>10. \A n \in Nodes : r[n] = Step(r, n)
  <2> HIDE DEF Step
  <2> QED
    BY <1>9
<1>11. r \in Trees
  <2> DEFINE S == {n \in Nodes : r[n] \in BlockOrNone}
  <2>1. ASSUME NEW n \in Nodes, \A m \in Nodes : m > n => m \in S PROVE n \in S
    <3>1. CASE n \notin Path[b] \/ n = Leaf(b)
      BY <1>10, <3>1 DEF BlockOrNone, Trees
    <3>2. CASE n \in Path[b] /\ n # Leaf(b)
      <4>1. r[2 * n] \in BlockOrNone /\ r[2 * n + 1] \in BlockOrNone
        BY <1>0, <2>1, <3>2
      <4>2. r[n] = Winner(best, r[2 * n], r[2 * n + 1])
        BY <1>10, <3>2
      <4> QED
        BY <4>1, <4>2, WinnerIsOne
    <3> QED
      BY <3>1, <3>2
  <2> HIDE DEF S
  <2>2. Nodes \subseteq S
    BY <2>1, NodeInduction
  <2>3. \A n \in Nodes : r[n] \in BlockOrNone
    BY <2>2 DEF S
  <2> HIDE DEF r, Step
  <2>4. r = [n \in Nodes |-> Step(r, n)]
    BY <1>9 DEF r
  <2>5. r = [n \in Nodes |-> r[n]]
    BY <2>4
  <2> QED
    BY <2>3, <2>5 DEF Trees
<1> HIDE DEF r
<1>12. \A n \in Path[b] : n # Leaf(b) => r[n] = Winner(best, r[2 * n], r[2 * n + 1])
  BY <1>10, PathShape
<1>13. r[Leaf(b)] = b /\ \A n \in Nodes : n \notin Path[b] => r[n] = t0[n]
  BY <1>10, PathShape
<1> QED
  BY <1>11, <1>12, <1>13 DEF r

-----------------------------------------------------------------------------

\* Every inner node names the winner of its children.
Tournament(t, best) ==
    \A n \in 1 .. TreeLeafCount - 1 : t[n] = Winner(best, t[2 * n], t[2 * n + 1])

\* A node names blocks below it only.
NamesBelow(t) == \A n \in Nodes : t[n] # NoBlock => n \in Path[t[n]]

\* The leaves of these blocks name them.
LeavesNamed(t, ids) == \A b \in ids : t[Leaf(b)] = b

\* The inner nodes.
LEMMA InnerNodes == \A n : n \in 1 .. TreeLeafCount - 1 <=> n \in Nodes /\ n < TreeLeafCount
  BY NodeNumbers DEF Nodes

\* NoBlock is no block.
LEMMA NoBlockIsNone == NoBlock \notin Blocks
  BY NodeNumbers DEF NoBlock, Blocks

\* rebuild_tree leaves a tournament over all blocks.
LEMMA RebuiltIsTournament ==
  ASSUME NEW best
  PROVE  /\ RebuiltTree(best) \in Trees
         /\ Tournament(RebuiltTree(best), best)
         /\ NamesBelow(RebuiltTree(best))
         /\ LeavesNamed(RebuiltTree(best), Blocks)
<1> DEFINE t == RebuiltTree(best)
<1>1. /\ t \in Trees
      /\ \A n \in Nodes :
            t[n] = IF n >= TreeLeafCount
                   THEN IF n - TreeLeafCount < NumBlocks THEN n - TreeLeafCount ELSE NoBlock
                   ELSE Winner(best, t[2 * n], t[2 * n + 1])
  BY Rebuilt
<1> HIDE DEF t
<1>2. \A n \in Nodes : n < TreeLeafCount => t[n] = Winner(best, t[2 * n], t[2 * n + 1])
  BY <1>1, NodeNumbers
<1>3. Tournament(t, best)
  BY <1>2, InnerNodes DEF Tournament
<1>4. LeavesNamed(t, Blocks)
  <2> SUFFICES ASSUME NEW b \in Blocks PROVE t[Leaf(b)] = b
    BY DEF LeavesNamed
  <2>1. Leaf(b) \in Nodes /\ Leaf(b) >= TreeLeafCount
    BY NodeNumbers
  <2>2. TreeLeafCount \in Int /\ NumBlocks \in Int /\ b \in Int
    BY NodeNumbers
  <2>3. Leaf(b) - TreeLeafCount = b /\ b < NumBlocks
    BY <2>2 DEF Leaf, Blocks
  <2> QED
    BY <1>1, <2>1, <2>3
<1>5. NamesBelow(t)
  <2> DEFINE S == {n \in Nodes : t[n] # NoBlock => n \in Path[t[n]]}
  <2>1. ASSUME NEW n \in Nodes, \A m \in Nodes : m > n => m \in S, t[n] # NoBlock
        PROVE  n \in Path[t[n]]
    <3>0. t[n] \in Blocks
      BY <1>1, <2>1 DEF Trees, BlockOrNone
    <3>1. CASE n >= TreeLeafCount
      <4>1. t[n] = n - TreeLeafCount
        BY <1>1, <2>1, <3>1
      <4>2. n = Leaf(t[n])
        BY <4>1, NodeNumbers DEF Leaf
      <4> QED
        BY <3>0, <4>2, PathShape
    <3>2. CASE n < TreeLeafCount
      <4>1. 2 * n \in S /\ 2 * n + 1 \in S
        BY <2>1, <3>2, NodeNumbers
      <4>2. t[n] = t[2 * n] \/ t[n] = t[2 * n + 1]
        BY <1>2, <3>2, WinnerIsOne
      <4>3. 2 * n \in Path[t[n]] \/ 2 * n + 1 \in Path[t[n]]
        BY <2>1, <4>1, <4>2
      <4> QED
        BY <3>0, <3>2, <4>3, PathShape
    <3> QED
      BY <3>1, <3>2, NodeNumbers
  <2> HIDE DEF S
  <2>2. Nodes \subseteq S
    <3> SUFFICES ASSUME NEW n \in Nodes, \A m \in Nodes : m > n => m \in S PROVE n \in S
      BY NodeInduction
    <3> QED
      BY <2>1 DEF S
  <2> QED
    BY <2>2 DEF S, NamesBelow
<1> QED
  BY <1>1, <1>3, <1>4, <1>5 DEF t

\* Replaying the path of the block whose entry changed leaves a tournament, and the
\* other leaves as they were: off the path no match had the block in it.
LEMMA ReplayedIsTournament ==
  ASSUME NEW t \in Trees, NEW best0, NEW best, NEW b \in Blocks,
         Tournament(t, best0), NamesBelow(t),
         \A c \in Blocks \ {b} : best[c] = best0[c]
  PROVE  LET u == ReplayedPath(t, best, b)
         IN  /\ u \in Trees /\ Tournament(u, best) /\ NamesBelow(u)
             /\ u[Leaf(b)] = b
             /\ \A c \in Blocks \ {b} : u[Leaf(c)] = t[Leaf(c)]
<1> DEFINE u == ReplayedPath(t, best, b)
<1>1. /\ u \in Trees
      /\ u[Leaf(b)] = b
      /\ \A n \in Nodes : n \notin Path[b] => u[n] = t[n]
      /\ \A n \in Path[b] : n # Leaf(b) => u[n] = Winner(best, u[2 * n], u[2 * n + 1])
  BY Replayed
<1> HIDE DEF u
<1>2. \A c \in Blocks \ {b} : u[Leaf(c)] = t[Leaf(c)]
  <2> SUFFICES ASSUME NEW c \in Blocks \ {b} PROVE Leaf(c) \notin Path[b]
    BY <1>1, NodeNumbers
  <2>1. Leaf(c) # Leaf(b)
    BY NodeNumbers DEF Leaf
  <2> QED
    BY <2>1, PathShape, NodeNumbers
<1>3. ASSUME NEW n \in Nodes, n < TreeLeafCount
      PROVE  u[n] = Winner(best, u[2 * n], u[2 * n + 1])
  <2>1. CASE n \in Path[b]
    <3>1. n # Leaf(b)
      BY <1>3, NodeNumbers
    <3> QED
      BY <1>1, <2>1, <3>1
  <2>2. CASE n \notin Path[b]
    <3>1. 2 * n \in Nodes /\ 2 * n + 1 \in Nodes
      BY <1>3, NodeNumbers
    <3>2. 2 * n \notin Path[b] /\ 2 * n + 1 \notin Path[b]
      BY <1>3, <2>2, PathShape
    <3>3. u[n] = t[n] /\ u[2 * n] = t[2 * n] /\ u[2 * n + 1] = t[2 * n + 1]
      BY <1>1, <2>2, <3>1, <3>2
    <3>4. t[n] = Winner(best0, t[2 * n], t[2 * n + 1])
      BY <1>3, InnerNodes DEF Tournament
    <3>5. t[2 * n] # b /\ t[2 * n + 1] # b
      BY <3>1, <3>2, NoBlockIsNone DEF NamesBelow
    <3>6. t[2 * n] \in Blocks \cup {NoBlock} /\ t[2 * n + 1] \in Blocks \cup {NoBlock}
      BY <3>1 DEF Trees, BlockOrNone
    <3>7. Winner(best, t[2 * n], t[2 * n + 1]) = Winner(best0, t[2 * n], t[2 * n + 1])
      BY <3>5, <3>6 DEF Winner
    <3> QED
      BY <3>3, <3>4, <3>7
  <2> QED
    BY <2>1, <2>2
<1>4. Tournament(u, best)
  BY <1>3, InnerNodes DEF Tournament
<1>5. NamesBelow(u)
  <2> DEFINE S == {n \in Nodes : u[n] # NoBlock => n \in Path[u[n]]}
  <2>1. ASSUME NEW n \in Nodes, \A m \in Nodes : m > n => m \in S, u[n] # NoBlock
        PROVE  n \in Path[u[n]]
    <3>0. u[n] \in Blocks
      BY <1>1, <2>1 DEF Trees, BlockOrNone
    <3>1. CASE n = Leaf(b)
      BY <1>1, <3>1, PathShape
    <3>2. CASE n \notin Path[b]
      BY <1>1, <2>1, <3>2 DEF NamesBelow
    <3>3. CASE n \in Path[b] /\ n # Leaf(b)
      <4>0. n < TreeLeafCount
        BY <3>3, PathShape, NodeNumbers
      <4>1. 2 * n \in S /\ 2 * n + 1 \in S
        BY <2>1, <4>0, NodeNumbers
      <4>2. u[n] = u[2 * n] \/ u[n] = u[2 * n + 1]
        BY <1>1, <3>3, WinnerIsOne
      <4>3. 2 * n \in Path[u[n]] \/ 2 * n + 1 \in Path[u[n]]
        BY <2>1, <4>1, <4>2
      <4> QED
        BY <3>0, <4>0, <4>3, PathShape
    <3> QED
      BY <3>1, <3>2, <3>3
  <2> HIDE DEF S
  <2>2. Nodes \subseteq S
    <3> SUFFICES ASSUME NEW n \in Nodes, \A m \in Nodes : m > n => m \in S PROVE n \in S
      BY NodeInduction
    <3> QED
      BY <2>1 DEF S
  <2> QED
    BY <2>2 DEF S, NamesBelow
<1> QED
  BY <1>1, <1>2, <1>4, <1>5 DEF u

\* The root of a tournament over all blocks names the best entry.
LEMMA RootIsBest ==
  ASSUME NEW t \in Trees, NEW best \in [Blocks -> Violator],
         Tournament(t, best), LeavesNamed(t, Blocks)
  PROVE  BestLocal(t, best) = Best({best[b] : b \in Blocks})
<1> DEFINE AtLeast(a, c) == best[a] = best[c] \/ Prefer(best[a], best[c])
           Wins(n) == \A c \in Blocks : n \in Path[c] => t[n] \in Blocks /\ AtLeast(t[n], c)
           S == {n \in Nodes : Wins(n)}
<1>1. \A a, c, d \in Blocks : AtLeast(a, c) /\ AtLeast(c, d) => AtLeast(a, d)
  <2> SUFFICES ASSUME NEW a \in Blocks, NEW c \in Blocks, NEW d \in Blocks,
                      AtLeast(a, c), AtLeast(c, d)
               PROVE  AtLeast(a, d)
    OBVIOUS
  <2>1. best[a] \in Violator /\ best[c] \in Violator /\ best[d] \in Violator
    OBVIOUS
  <2> QED
    BY <2>1, PreferTransitive
<1>2. ASSUME NEW l \in Blocks, NEW r \in Blocks
      PROVE  LET w == Winner(best, l, r)
             IN  w \in Blocks /\ AtLeast(w, l) /\ AtLeast(w, r)
  <2>1. best[l] \in Violator /\ best[r] \in Violator
    OBVIOUS
  <2>2. l # NoBlock /\ r # NoBlock
    BY NoBlockIsNone
  <2>3. CASE Prefer(best[l], best[r])
    BY <2>2, <2>3 DEF Winner
  <2>4. CASE ~Prefer(best[l], best[r])
    <3>1. Winner(best, l, r) = r
      BY <2>2, <2>4 DEF Winner
    <3>2. AtLeast(r, l)
      BY <2>1, <2>4, PreferTotal
    <3> QED
      BY <3>1, <3>2
  <2> QED
    BY <2>3, <2>4
<1>3. ASSUME NEW n \in Nodes, \A m \in Nodes : m > n => m \in S, NEW c \in Blocks, n \in Path[c]
      PROVE  t[n] \in Blocks /\ AtLeast(t[n], c)
  <2>1. CASE n >= TreeLeafCount
    <3>1. n = Leaf(c)
      BY <1>3, <2>1, PathShape
    <3>2. t[n] = c
      BY <3>1 DEF LeavesNamed
    <3> QED
      BY <3>2
  <2>2. CASE n < TreeLeafCount
    <3> DEFINE l == t[2 * n]
               r == t[2 * n + 1]
    <3>1. Wins(2 * n) /\ Wins(2 * n + 1)
      BY <1>3, <2>2, NodeNumbers
    <3>2. t[n] = Winner(best, l, r)
      BY <2>2, InnerNodes DEF Tournament
    <3>3. 2 * n \in Path[c] \/ 2 * n + 1 \in Path[c]
      BY <1>3, <2>2, PathShape
    <3>4. l \in Blocks \cup {NoBlock} /\ r \in Blocks \cup {NoBlock}
      BY <2>2, NodeNumbers DEF Trees, BlockOrNone
    <3>5. (l \in Blocks /\ AtLeast(l, c)) \/ (r \in Blocks /\ AtLeast(r, c))
      BY <3>1, <3>3
    <3> HIDE DEF l, r, AtLeast
    <3>6. CASE l \in Blocks /\ r \in Blocks
      <4>1. t[n] \in Blocks /\ AtLeast(t[n], l) /\ AtLeast(t[n], r)
        BY <1>2, <3>2, <3>6
      <4> QED
        BY <1>1, <3>5, <3>6, <4>1
    <3>7. CASE l = NoBlock
      <4>1. t[n] = r
        BY <3>2, <3>7 DEF Winner
      <4> QED
        BY <3>5, <3>7, <4>1, NoBlockIsNone
    <3>8. CASE r = NoBlock /\ l # NoBlock
      <4>1. t[n] = l
        BY <3>2, <3>8 DEF Winner
      <4> QED
        BY <3>5, <3>8, <4>1, NoBlockIsNone
    <3> QED
      BY <3>4, <3>6, <3>7, <3>8
  <2> QED
    BY <2>1, <2>2, NodeNumbers
<1>4. Wins(1)
  <2> HIDE DEF S
  <2>1. Nodes \subseteq S
    <3> SUFFICES ASSUME NEW n \in Nodes, \A m \in Nodes : m > n => m \in S PROVE n \in S
      BY NodeInduction
    <3> QED
      BY <1>3 DEF S
  <2> QED
    BY <2>1, NodeNumbers DEF S
<1>5. t[1] \in Blocks /\ \A c \in Blocks : AtLeast(t[1], c)
  BY <1>4, PathShape, FiniteSystem
<1>6. BestLocal(t, best) = best[t[1]]
  BY <1>5, NoBlockIsNone DEF BestLocal
<1> DEFINE E == {best[b] : b \in Blocks}
<1>7. E \subseteq Violator /\ best[t[1]] \in E /\ Beats(best[t[1]], E)
  BY <1>5 DEF Beats
<1> HIDE DEF E
<1>8. Best(E) = best[t[1]]
  BY <1>7, BestIs
<1> QED
  BY <1>6, <1>8 DEF E

-----------------------------------------------------------------------------

Turns == -1 .. NumBlocks - 1

\* Induction over the turns of a loop over the blocks.
LEMMA TurnInduction ==
  ASSUME NEW S, -1 \in S, \A b \in Blocks : b - 1 \in S => b \in S
  PROVE  Turns \subseteq S
<1> DEFINE Bad == {k \in Nat : k - 1 \in Turns /\ k - 1 \notin S}
<1>1. SUFFICES ASSUME NEW x \in Turns, x \notin S PROVE FALSE
  OBVIOUS
<1>2. x + 1 \in Bad
  BY <1>1, NodeNumbers DEF Turns
<1>3. PICK k \in Bad : \A j \in Bad : k <= j
  <2>1. Bad \subseteq Nat /\ Bad # {}
    BY <1>2
  <2> HIDE DEF Bad
  <2> QED
    BY <2>1, LeastNatural
<1>4. k \in Nat /\ k # 0
  BY <1>3
<1>5. k - 1 \in Blocks /\ k - 1 \notin S
  BY <1>3, <1>4, NodeNumbers DEF Turns, Blocks
<1>6. k - 2 \in Turns /\ k - 2 \notin S
  BY <1>4, <1>5, NodeNumbers DEF Turns, Blocks
<1>7. k - 1 \in Bad
  BY <1>4, <1>6
<1> QED
  BY <1>3, <1>4, <1>7

States == [best : [Blocks -> Violator], tree : Trees]

\* G makes a state of a block and a state.
Turning(G) == G \in [Blocks \X States -> States]

\* A loop over the blocks runs through a sequence of states.
LEMMA TurnRecursion ==
  ASSUME NEW s \in States, NEW G, Turning(G)
  PROVE  \E f \in [Turns -> States] : f[-1] = s /\ \A b \in Blocks : f[b] = G[<<b, f[b - 1]>>]
<1> DEFINE Upto(f, k) == f[-1] = s /\ \A b \in Blocks : b <= k => f[b] = G[<<b, f[b - 1]>>]
           K == {k \in Turns : \E f \in [Turns -> States] : Upto(f, k)}
<1>0. /\ -1 \in Turns /\ NumBlocks - 1 \in Turns
      /\ \A b \in Blocks : b \in Int /\ b \in Turns /\ b - 1 \in Turns /\ 0 <= b /\ b <= NumBlocks - 1
  BY NodeNumbers DEF Turns, Blocks
<1>1. -1 \in K
  <2>1. [b \in Turns |-> s] \in [Turns -> States]
    OBVIOUS
  <2>2. \A b \in Blocks : ~(b <= -1)
    BY <1>0
  <2>3. Upto([b \in Turns |-> s], -1)
    BY <1>0, <2>2
  <2> QED
    BY <1>0, <2>1, <2>3
<1>2. ASSUME NEW k \in Blocks, k - 1 \in K PROVE k \in K
  <2>1. PICK f \in [Turns -> States] : Upto(f, k - 1)
    BY <1>2
  <2> DEFINE g == [f EXCEPT ![k] = G[<<k, f[k - 1]>>]]
  <2>2. G[<<k, f[k - 1]>>] \in States
    BY <1>0 DEF Turning
  <2>3. g \in [Turns -> States]
    BY <1>0, <2>2
  <2>4. \A m \in Turns : m # k => g[m] = f[m]
    OBVIOUS
  <2>5. g[k] = G[<<k, f[k - 1]>>]
    BY <1>0
  <2> HIDE DEF g
  <2>6. g[-1] = s
    BY <1>0, <2>1, <2>4
  <2>7. ASSUME NEW b \in Blocks, b <= k PROVE g[b] = G[<<b, g[b - 1]>>]
    <3>1. b - 1 # k /\ b - 1 \in Turns /\ b \in Turns /\ (b # k => b <= k - 1)
      BY <1>0, <2>7
    <3>2. g[b - 1] = f[b - 1]
      BY <2>4, <3>1
    <3>3. CASE b = k
      BY <2>5, <3>2, <3>3
    <3>4. CASE b # k
      BY <2>1, <2>4, <3>1, <3>2, <3>4
    <3> QED
      BY <3>3, <3>4
  <2>8. Upto(g, k)
    BY <2>6, <2>7
  <2> QED
    BY <1>0, <2>3, <2>8
<1>3. NumBlocks - 1 \in K
  <2> HIDE DEF K
  <2>1. Turns \subseteq K
    BY <1>1, <1>2, TurnInduction
  <2> QED
    BY <1>0, <2>1
<1>4. PICK f \in [Turns -> States] : Upto(f, NumBlocks - 1)
  BY <1>3
<1> QED
  BY <1>0, <1>4

\* A state between two turns of the loop of update_blocks.
Consistent(s) == s \in States /\ Tournament(s.tree, s.best) /\ NamesBelow(s.tree)

\* A turn recomputes one entry and names one leaf.
LEMMA RecomputedOne ==
  ASSUME NEW s \in States, NEW b \in Blocks, BlockBest(b, active, q, rhs) \in Violator
  PROVE  LET r == RecomputeOne(s, b)
         IN  /\ r \in States
             /\ Consistent(s) =>
                  /\ Consistent(r)
                  /\ \A c \in Blocks :
                        r.best[c] = IF c = b THEN BlockBest(c, active, q, rhs) ELSE s.best[c]
                  /\ \A c \in Blocks : r.tree[Leaf(c)] = IF c = b THEN c ELSE s.tree[Leaf(c)]
<1> DEFINE best == [s.best EXCEPT ![b] = BlockBest(b, active, q, rhs)]
           u == ReplayedPath(s.tree, best, b)
           r == RecomputeOne(s, b)
<1>1. s.best \in [Blocks -> Violator] /\ s.tree \in Trees
  BY DEF States
<1>2. best \in [Blocks -> Violator]
  BY <1>1
<1>3. u \in Trees
  BY <1>1, Replayed
<1>4. r = [best |-> best, tree |-> u]
  BY DEF RecomputeOne
<1>5. /\ \A c \in Blocks \ {b} : best[c] = s.best[c]
      /\ best[b] = BlockBest(b, active, q, rhs)
  BY <1>1
<1> HIDE DEF best, u, r
<1>6. r \in States /\ r.best = best /\ r.tree = u
  BY <1>2, <1>3, <1>4 DEF States
<1>7. ASSUME Consistent(s)
      PROVE  /\ Tournament(u, best) /\ NamesBelow(u) /\ u[Leaf(b)] = b
             /\ \A c \in Blocks \ {b} : u[Leaf(c)] = s.tree[Leaf(c)]
  BY <1>1, <1>5, <1>7, ReplayedIsTournament DEF Consistent, u
<1> QED
  BY <1>5, <1>6, <1>7 DEF Consistent, r

\* update_blocks recomputes the named entries, names their leaves and keeps the tournament.
LEMMA RecomputedBlocks ==
  ASSUME NEW s, Consistent(s), NEW ids \in SUBSET Blocks,
         \A b \in Blocks : BlockBest(b, active, q, rhs) \in Violator
  PROVE  LET r == RecomputeBlocks(s, ids)
         IN  /\ Consistent(r)
             /\ \A c \in Blocks :
                   r.best[c] = IF c \in ids THEN BlockBest(c, active, q, rhs) ELSE s.best[c]
             /\ \A c \in Blocks : r.tree[Leaf(c)] = IF c \in ids THEN c ELSE s.tree[Leaf(c)]
<1> DEFINE Step(x, b) == IF b = -1 THEN s
                         ELSE IF b \in ids THEN RecomputeOne(x[b - 1], b) ELSE x[b - 1]
           G == [p \in Blocks \X States |->
                    IF p[1] \in ids THEN RecomputeOne(p[2], p[1]) ELSE p[2]]
           upto == CHOOSE x : x = [b \in Turns |-> Step(x, b)]
           After(x, k) ==
               /\ Consistent(x)
               /\ \A c \in Blocks :
                     x.best[c] = IF c \in ids /\ c <= k THEN BlockBest(c, active, q, rhs)
                                 ELSE s.best[c]
               /\ \A c \in Blocks :
                     x.tree[Leaf(c)] = IF c \in ids /\ c <= k THEN c ELSE s.tree[Leaf(c)]
<1>0. /\ -1 \in Turns /\ NumBlocks - 1 \in Turns
      /\ \A b \in Blocks : b \in Int /\ b \in Turns /\ b - 1 \in Turns /\ 0 <= b /\ b <= NumBlocks - 1
      /\ \A b \in Turns : b = -1 \/ b \in Blocks
  BY NodeNumbers DEF Turns, Blocks
<1>1. RecomputeBlocks(s, ids) = upto[NumBlocks - 1]
  BY DEF RecomputeBlocks, Turns
<1>2. \E x : x = [b \in Turns |-> Step(x, b)]
  <2>1. \A x \in States, b \in Blocks : RecomputeOne(x, b) \in States
    BY RecomputedOne
  <2>2. Turning(G)
    BY <2>1 DEF Turning
  <2>3. \A x \in States, b \in Blocks :
            G[<<b, x>>] = IF b \in ids THEN RecomputeOne(x, b) ELSE x
    OBVIOUS
  <2>4. s \in States
    BY DEF Consistent
  <2> HIDE DEF G
  <2>5. PICK f \in [Turns -> States] : f[-1] = s /\ \A b \in Blocks : f[b] = G[<<b, f[b - 1]>>]
    BY <2>2, <2>4, TurnRecursion
  <2>6. \A b \in Blocks : b # -1 /\ f[b] = IF b \in ids THEN RecomputeOne(f[b - 1], b) ELSE f[b - 1]
    <3> SUFFICES ASSUME NEW b \in Blocks
                 PROVE  b # -1 /\ f[b] = IF b \in ids THEN RecomputeOne(f[b - 1], b) ELSE f[b - 1]
      OBVIOUS
    <3>1. b # -1 /\ f[b - 1] \in States
      BY <1>0
    <3> HIDE DEF upto
    <3>2. f[b] = G[<<b, f[b - 1]>>]
      BY <2>5
    <3>3. G[<<b, f[b - 1]>>] = IF b \in ids THEN RecomputeOne(f[b - 1], b) ELSE f[b - 1]
      BY <2>3, <3>1
    <3> QED
      BY <3>1, <3>2, <3>3
  <2>7. \A b \in Turns : f[b] = Step(f, b)
    BY <1>0, <2>5, <2>6
  <2> QED
    BY <2>5, <2>7
<1>3. upto = [b \in Turns |-> Step(upto, b)]
  <2> HIDE DEF Step
  <2> QED
    BY <1>2
<1> HIDE DEF upto
<1>4. upto[-1] = s /\ \A b \in Blocks : upto[b] = IF b \in ids THEN RecomputeOne(upto[b - 1], b)
                                                  ELSE upto[b - 1]
  <2>1. \A b \in Turns : upto[b] = Step(upto, b)
    <3> HIDE DEF Step
    <3> QED
      BY <1>3
  <2> QED
    BY <1>0, <2>1
<1> DEFINE S == {k \in Turns : After(upto[k], k)}
<1>5. -1 \in S
  <2>1. \A c \in Blocks : ~(c <= -1)
    BY <1>0
  <2> QED
    BY <1>0, <1>4, <2>1
<1>6. ASSUME NEW b \in Blocks, b - 1 \in S PROVE b \in S
  <2> DEFINE x == upto[b - 1]
  <2>1. After(x, b - 1)
    BY <1>6
  <2>2. \A c \in Blocks : (c <= b <=> c = b \/ c <= b - 1) /\ ~(b <= b - 1)
    BY <1>0
  <2> HIDE DEF x
  <2>3. CASE b \in ids
    <3>1. upto[b] = RecomputeOne(x, b)
      BY <1>4, <2>3 DEF x
    <3>2. /\ Consistent(upto[b])
          /\ \A c \in Blocks :
                upto[b].best[c] = IF c = b THEN BlockBest(c, active, q, rhs) ELSE x.best[c]
          /\ \A c \in Blocks : upto[b].tree[Leaf(c)] = IF c = b THEN c ELSE x.tree[Leaf(c)]
      BY <2>1, <3>1, RecomputedOne DEF Consistent
    <3>3. After(upto[b], b)
      BY <2>1, <2>2, <2>3, <3>2
    <3> QED
      BY <1>0, <3>3
  <2>4. CASE b \notin ids
    <3>1. upto[b] = x
      BY <1>4, <2>4 DEF x
    <3>2. \A c \in Blocks : c \in ids /\ c <= b <=> c \in ids /\ c <= b - 1
      BY <2>2, <2>4
    <3>3. After(upto[b], b)
      BY <2>1, <3>1, <3>2
    <3> QED
      BY <1>0, <3>3
  <2> QED
    BY <2>3, <2>4
<1>7. After(upto[NumBlocks - 1], NumBlocks - 1)
  <2> HIDE DEF S
  <2>1. Turns \subseteq S
    BY <1>5, <1>6, TurnInduction
  <2> QED
    BY <1>0, <2>1 DEF S
<1>8. \A c \in Blocks : c <= NumBlocks - 1
  BY <1>0
<1> QED
  BY <1>1, <1>7, <1>8

-----------------------------------------------------------------------------

\* Every row evaluates to a violator.
LEMMA RowsAreViolators ==
  ASSUME NEW p \in Points, NEW r \in RightHandSides
  PROVE  Candidates(Ids, p, r) \subseteq Violator
  BY RowAssumption DEF Candidates, Candidate, Violator, Scope

\* So do the entries of the caches.
LEMMA EntriesAreViolators ==
  ASSUME NEW p \in Points, NEW r \in RightHandSides, NEW mask
  PROVE  /\ \A b \in Blocks : BlockBest(b, mask, p, r) \in Violator
         /\ GlobalBest(mask, p, r) \in Violator
<1>1. Candidates(LocalIds, p, r) \subseteq Violator /\ Candidates(GlobalIds, p, r) \subseteq Violator
  BY RowsAreViolators DEF Candidates, Ids
<1> QED
  BY <1>1, BlockBestBeats, GlobalBestBeats

\* A block's entry reads the block's part of the point and of the mask only.
LEMMA EntryOfPart ==
  ASSUME NEW b, NEW m1, NEW m2, NEW p1, NEW p2, NEW r,
         p1[b] = p2[b], RowsOf(b) \ m1 = RowsOf(b) \ m2
  PROVE  BlockBest(b, m1, p1, r) = BlockBest(b, m2, p2, r)
<1>1. \A id \in RowsOf(b) : Candidate(id, p1, r) = Candidate(id, p2, r)
  BY DEF RowsOf, Candidate, RowViolation
<1>2. Candidates(RowsOf(b) \ m1, p1, r) = Candidates(RowsOf(b) \ m2, p2, r)
  BY <1>1 DEF Candidates
<1> QED
  BY <1>2 DEF BlockBest

\* The rows of a block that a change of the mask does not concern keep their marks.
LEMMA MaskOfOtherBlocks ==
  ASSUME NEW b \in Blocks, NEW S, b \notin MaskBlocks(S)
  PROVE  RowsOf(b) \cap S = {}
  BY DEF MaskBlocks, RowsOf

\* The marks concern blocks.
LEMMA MaskBlocksAreBlocks == \A S : MaskBlocks(S) \subseteq Blocks
  BY BlockOfLocal DEF MaskBlocks

\* The inductive invariant.  Of the properties, AnswerIsWorst is not inductive: that an
\* update of the dirty blocks suffices needs the other entries to be up to date and the
\* rest of the tree to be a tournament in which a node names a block below it, so that
\* the matches off the replayed paths cannot change.
IInv ==
    /\ TypeOK
    /\ Tournament(tree, blockBest)
    /\ NamesBelow(tree)
    /\ ~initialized => dirty = Blocks
    /\ initialized => LeavesNamed(tree, Blocks)
    /\ \A b \in Blocks \ dirty : blockBest[b] = BlockBest(b, active, q, rhs)
    /\ AnswerIsWorst

\* A fresh oracle satisfies it.
LEMMA InitInv == Init => IInv
<1> SUFFICES ASSUME Init PROVE IInv
  OBVIOUS
<1>1. TypeOK
  BY SentinelsAreViolators DEF Init, TypeOK
<1>2. Tournament(tree, blockBest)
  BY InnerNodes, NodeNumbers DEF Init, Tournament, Winner
<1>3. NamesBelow(tree)
  BY DEF Init, NamesBelow
<1> QED
  BY <1>1, <1>2, <1>3 DEF Init, IInv, AnswerIsWorst

\* When all entries are up to date and the tree is a tournament over them, the merged
\* answer is the worst row.
LEMMA MergedAnswer ==
  ASSUME q \in Points, rhs \in RightHandSides, NEW t \in Trees, NEW best,
         best = [b \in Blocks |-> BlockBest(b, active, q, rhs)],
         Tournament(t, best), LeavesNamed(t, Blocks)
  PROVE  Merge(BestLocal(t, best), GlobalBest(active, q, rhs)) = WorstInactive(active, q, rhs)
<1>1. best \in [Blocks -> Violator]
  BY EntriesAreViolators
<1>2. BestLocal(t, best) = Best({best[b] : b \in Blocks})
  BY <1>1, RootIsBest
<1>3. Candidates(Ids, q, rhs) \subseteq Violator
  BY RowsAreViolators
<1> QED
  BY <1>2, <1>3, MergedIsWorst

\* The tree's answer is a violator, and so is the merged one.
LEMMA LocalIsViolator ==
  ASSUME NEW t \in Trees, NEW best \in [Blocks -> Violator]
  PROVE  BestLocal(t, best) \in Violator
<1>1. t[1] \in Blocks \cup {NoBlock}
  BY NodeNumbers DEF Trees, BlockOrNone
<1> QED
  BY <1>1, SentinelsAreViolators DEF BestLocal

\* The caller's own steps: they leave the caches alone, and every block whose rows, part
\* or marks they change becomes dirty.
LEMMA CallerStepInv ==
  ASSUME IInv, UNCHANGED cacheVars, answered' = FALSE,
         q' \in Points, rhs' \in RightHandSides, active' \subseteq Ids,
         dirty \subseteq dirty', dirty' \subseteq Blocks,
         \A b \in Blocks \ dirty' :
            rhs' = rhs /\ q'[b] = q[b] /\ RowsOf(b) \ active' = RowsOf(b) \ active
  PROVE  IInv'
<1>1. TypeOK'
  BY DEF IInv, TypeOK, cacheVars
<1>2. Tournament(tree, blockBest)' /\ NamesBelow(tree)' /\ (initialized => LeavesNamed(tree, Blocks))'
  BY DEF IInv, cacheVars, Tournament, NamesBelow, LeavesNamed
<1>3. (~initialized => dirty = Blocks)'
  BY DEF IInv, cacheVars
<1>4. \A b \in Blocks \ dirty' : blockBest'[b] = BlockBest(b, active', q', rhs')
  <2> SUFFICES ASSUME NEW b \in Blocks \ dirty'
               PROVE  blockBest'[b] = BlockBest(b, active', q', rhs')
    OBVIOUS
  <2>1. b \in Blocks \ dirty /\ blockBest'[b] = BlockBest(b, active, q, rhs)
    BY DEF IInv, cacheVars
  <2>2. BlockBest(b, active, q, rhs) = BlockBest(b, active', q', rhs)
    BY EntryOfPart
  <2> QED
    BY <2>1, <2>2
<1> QED
  BY <1>1, <1>2, <1>3, <1>4 DEF IInv, AnswerIsWorst

\* init_tick establishes it anew.
LEMMA InitTickInv ==
  ASSUME IInv, InitTick
  PROVE  IInv'
<1>1. q \in Points /\ rhs \in RightHandSides /\ active \subseteq Ids
  BY DEF IInv, TypeOK
<1>2. blockBest' \in [Blocks -> Violator] /\ globalBest' \in Violator
  BY <1>1, EntriesAreViolators DEF InitTick
<1>3. /\ tree' \in Trees /\ Tournament(tree', blockBest') /\ NamesBelow(tree')
      /\ LeavesNamed(tree', Blocks)
  BY RebuiltIsTournament DEF InitTick
<1>4. last' = WorstInactive(active, q, rhs)
  BY <1>1, <1>3, MergedAnswer DEF InitTick
<1>5. last' \in Violator
  <2>1. BestLocal(tree', blockBest') \in Violator
    BY <1>2, <1>3, LocalIsViolator
  <2> QED
    BY <1>2, <2>1 DEF InitTick, Merge
<1>6. TypeOK'
  BY <1>1, <1>2, <1>3, <1>5 DEF InitTick, TypeOK, callerVars, Trees, BlockOrNone
<1>7. AnswerIsWorst'
  BY <1>4 DEF AnswerIsWorst, InitTick, callerVars
<1>8. \A b \in Blocks : blockBest'[b] = BlockBest(b, active', q', rhs')
  BY DEF InitTick, callerVars
<1> QED
  BY <1>3, <1>6, <1>7, <1>8 DEF IInv, InitTick

\* update_blocks establishes it as well when every dirty block is named.
LEMMA UpdateBlocksInv ==
  ASSUME IInv, NEW ids \in SUBSET Blocks, UpdateBlocks(ids)
  PROVE  IInv'
<1> DEFINE s == [best |-> blockBest, tree |-> tree]
           r == RecomputeBlocks(s, ids)
<1>1. q \in Points /\ rhs \in RightHandSides /\ active \subseteq Ids /\ dirty \subseteq ids
  BY DEF IInv, TypeOK, UpdateBlocks
<1>2. Consistent(s)
  BY DEF IInv, TypeOK, Consistent, States, Trees, BlockOrNone
<1>3. /\ Consistent(r)
      /\ \A c \in Blocks :
            r.best[c] = IF c \in ids THEN BlockBest(c, active, q, rhs) ELSE s.best[c]
      /\ \A c \in Blocks : r.tree[Leaf(c)] = IF c \in ids THEN c ELSE s.tree[Leaf(c)]
  <2> HIDE DEF s
  <2> QED
    BY <1>1, <1>2, EntriesAreViolators, RecomputedBlocks
<1>4. /\ blockBest' = r.best /\ tree' = r.tree
      /\ globalBest' = GlobalBest(active, q, rhs)
      /\ last' = Merge(BestLocal(r.tree, r.best), globalBest')
      /\ dirty' = dirty \ ids /\ initialized' /\ answered' /\ UNCHANGED callerVars
      /\ initialized' \in BOOLEAN /\ answered' \in BOOLEAN
  BY DEF UpdateBlocks
<1> HIDE DEF r
<1>5. r.best \in [Blocks -> Violator] /\ r.tree \in Trees
  BY <1>3 DEF Consistent, States
<1>6. \A c \in Blocks : r.best[c] = BlockBest(c, active, q, rhs)
  <2> SUFFICES ASSUME NEW c \in Blocks, c \notin ids
               PROVE  blockBest[c] = BlockBest(c, active, q, rhs)
    BY <1>3
  <2> QED
    BY <1>1 DEF IInv
<1>7. r.best = [c \in Blocks |-> BlockBest(c, active, q, rhs)]
  BY <1>5, <1>6
<1>8. LeavesNamed(r.tree, Blocks)
  <2> SUFFICES ASSUME NEW c \in Blocks, c \notin ids PROVE tree[Leaf(c)] = c
    BY <1>3 DEF LeavesNamed
  <2>1. initialized
    BY <1>1 DEF IInv
  <2> QED
    BY <2>1 DEF IInv, LeavesNamed
<1>9. last' = WorstInactive(active, q, rhs)
  BY <1>1, <1>3, <1>4, <1>5, <1>7, <1>8, MergedAnswer DEF Consistent
<1>10. globalBest' \in Violator /\ last' \in Violator
  <2>1. globalBest' \in Violator
    BY <1>1, <1>4, EntriesAreViolators
  <2> QED
    BY <1>4, <1>5, <2>1, LocalIsViolator DEF Merge
<1>11. TypeOK'
  BY <1>1, <1>4, <1>5, <1>10 DEF TypeOK, IInv, callerVars, Trees, BlockOrNone
<1>12. AnswerIsWorst'
  BY <1>4, <1>9 DEF AnswerIsWorst, callerVars
<1>13. Tournament(tree', blockBest') /\ NamesBelow(tree') /\ LeavesNamed(tree', Blocks)
  BY <1>3, <1>4, <1>8 DEF Consistent
<1>14. \A c \in Blocks : blockBest'[c] = BlockBest(c, active', q', rhs')
  BY <1>4, <1>6 DEF callerVars
<1> QED
  BY <1>4, <1>11, <1>12, <1>13, <1>14 DEF IInv

\* Every step preserves the invariant.
LEMMA NextInv == IInv /\ [Next]_vars => IInv'
<1> SUFFICES ASSUME IInv, [Next]_vars PROVE IInv'
  OBVIOUS
<1>0. /\ q \in Points /\ rhs \in RightHandSides /\ active \subseteq Ids /\ dirty \subseteq Blocks
  BY DEF IInv, TypeOK
<1>1. CASE MovePoint
  <2>1. dirty' \subseteq Blocks /\ \A b \in Blocks \ dirty' : q'[b] = q[b]
    BY <1>0, <1>1 DEF MovePoint
  <2> QED
    BY <1>0, <1>1, <2>1, CallerStepInv DEF MovePoint
<1>2. CASE ReplaceRhs
  BY <1>0, <1>2, CallerStepInv DEF ReplaceRhs
<1>3. ASSUME NEW id \in Ids \cup {NoId}, ActivateConstraintId(id) PROVE IInv'
  <2>1. dirty' \subseteq Blocks
    BY <1>0, <1>3, MaskBlocksAreBlocks DEF ActivateConstraintId
  <2>2. \A b \in Blocks \ dirty' : RowsOf(b) \ active' = RowsOf(b) \ active
    BY <1>3, MaskOfOtherBlocks DEF ActivateConstraintId
  <2> QED
    BY <1>0, <1>3, <2>1, <2>2, CallerStepInv DEF ActivateConstraintId
<1>4. ASSUME NEW id \in Ids \cup {NoId}, DeactivateConstraintId(id) PROVE IInv'
  <2>1. dirty' \subseteq Blocks
    BY <1>0, <1>4, MaskBlocksAreBlocks DEF DeactivateConstraintId
  <2>2. \A b \in Blocks \ dirty' : RowsOf(b) \ active' = RowsOf(b) \ active
    BY <1>4, MaskOfOtherBlocks DEF DeactivateConstraintId
  <2> QED
    BY <1>0, <1>4, <2>1, <2>2, CallerStepInv DEF DeactivateConstraintId
<1>5. ASSUME NEW S \in SUBSET Ids, SetActiveIds(S) PROVE IInv'
  <2>1. dirty' \subseteq Blocks
    BY <1>0, <1>5, MaskBlocksAreBlocks DEF SetActiveIds
  <2>2. \A b \in Blocks \ dirty' : RowsOf(b) \cap (active \cup S) = {}
    BY <1>5, MaskOfOtherBlocks DEF SetActiveIds
  <2>3. \A b \in Blocks \ dirty' : RowsOf(b) \ active' = RowsOf(b) \ active
    BY <1>5, <2>2 DEF SetActiveIds
  <2> QED
    BY <1>0, <1>5, <2>1, <2>3, CallerStepInv DEF SetActiveIds
<1>6. CASE InitTick
  BY <1>6, InitTickInv
<1>7. ASSUME NEW ids \in SUBSET Blocks, UpdateBlocks(ids) PROVE IInv'
  BY <1>7, UpdateBlocksInv
<1>8. CASE UNCHANGED vars
  BY <1>8 DEF IInv, vars, TypeOK, Tournament, NamesBelow, LeavesNamed, AnswerIsWorst
<1> QED
  BY <1>1, <1>2, <1>3, <1>4, <1>5, <1>6, <1>7, <1>8 DEF Next

\* The invariant holds of every behaviour of the oracle.
LEMMA AlwaysIInv == Spec => []IInv
<1>1. Init => IInv
  BY InitInv
<1>2. IInv /\ [Next]_vars => IInv'
  BY NextInv
<1> QED
  BY <1>1, <1>2, PTL DEF Spec

-----------------------------------------------------------------------------

\* The oracle's variables keep their types (violator_oracle.hpp).
THEOREM OracleTypes == Spec => []TypeOK
<1>1. IInv => TypeOK
  BY DEF IInv
<1> QED
  BY <1>1, AlwaysIInv, PTL

\* Replaying paths (update_tree_leaf) keeps the tournament that rebuild_tree builds,
\* for every number of blocks.
THEOREM TreeStaysTournament == Spec => []TreeIsTournament
<1>1. IInv => TreeIsTournament
  BY DEF IInv, Tournament, TreeIsTournament
<1> QED
  BY <1>1, AlwaysIInv, PTL

\* Incremental answers are those of a scan of all rows outside the mask, for every
\* system, every sequence of calls and every way the rows may evaluate.
THEOREM AnswersAreWorst == Spec => []AnswerIsWorst
<1>1. IInv => AnswerIsWorst
  BY DEF IInv
<1> QED
  BY <1>1, AlwaysIInv, PTL

\* A NaN row never hides a violated one.
THEOREM NaNNeverHides == Spec => []NaNHidesNoViolation
<1>1. ASSUME IInv PROVE NaNHidesNoViolation
  <2> SUFFICES ASSUME answered, NEW id \in Ids \ active, Greater(RowViolation(id, q, rhs), 0)
               PROVE  last.violation # NaN /\ last.violation >= RowViolation(id, q, rhs)
    BY DEF NaNHidesNoViolation
  <2> DEFINE C == Candidates(Ids \ active, q, rhs)
             N == {NegativeInfinityLocal, NegativeInfinityGlobal}
             W == C \cup N
             c == Candidate(id, q, rhs)
  <2>1. q \in Points /\ rhs \in RightHandSides
    BY <1>1 DEF IInv, TypeOK
  <2>2. C \subseteq Violator /\ c \in C
    BY <2>1, RowsAreViolators DEF Candidates
  <2>3. IsFiniteSet(W)
    <3>1. IsFiniteSet(C)
      BY CandidatesFinite
    <3>2. IsFiniteSet(C \cup {NegativeInfinityLocal})
      BY <3>1, FS_AddElement
    <3>3. IsFiniteSet((C \cup {NegativeInfinityLocal}) \cup {NegativeInfinityGlobal})
      BY <3>2, FS_AddElement
    <3>4. W = (C \cup {NegativeInfinityLocal}) \cup {NegativeInfinityGlobal}
      OBVIOUS
    <3> QED
      BY <3>3, <3>4
  <2>4. W \subseteq Violator /\ W # {}
    BY <2>2, SentinelsAreViolators
  <2>5. last = Best(W)
    BY <1>1 DEF IInv, AnswerIsWorst, WorstInactive
  <2>6. c.violation = RowViolation(id, q, rhs) /\ c \in W
    BY <2>2 DEF Candidate
  <2> HIDE DEF W, c
  <2>7. last \in W /\ Beats(last, W)
    BY <2>3, <2>4, <2>5, BestBeats
  <2>8. c = last \/ Prefer(last, c)
    BY <2>6, <2>7 DEF Beats
  <2>9. last \in Violator /\ c \in Violator
    BY <2>4, <2>6, <2>7
  <2>10. c.violation # NaN /\ c.violation \in Int
    BY <2>6, <2>9 DEF Greater, Violator
  <2>11. last.violation # NaN /\ last.violation >= c.violation
    <3>1. last.violation \in Int \cup {NaN}
      BY <2>9 DEF Violator
    <3> QED
      BY <2>8, <2>10, <3>1 DEF Prefer, Greater
  <2> QED
    BY <2>6, <2>11
<1> QED
  BY <1>1, AlwaysIInv, PTL

\* The specification's rows, order and sentinels are the oracle's.
LEMMA SameSystem ==
  /\ Promise!NegativeInfinityGlobal = NegativeInfinityGlobal
  /\ Promise!Ids = Ids
  /\ Promise!WorstInactive(active, q, rhs) = WorstInactive(active, q, rhs)
<1>1. Promise!NegativeInfinityGlobal = NegativeInfinityGlobal
      /\ Promise!NegativeInfinityLocal = NegativeInfinityLocal
  BY DEF Promise!NegativeInfinityGlobal, Promise!NegativeInfinityLocal, Promise!NoId,
         NegativeInfinityGlobal, NegativeInfinityLocal, NoId
<1>2. Promise!LocalIds = LocalIds /\ Promise!GlobalIds = GlobalIds
  BY DEF Promise!LocalIds, Promise!GlobalIds, LocalIds, GlobalIds
<1>3. Promise!Ids = Ids
  BY <1>2 DEF Promise!Ids, Ids
<1>4. \A id : Promise!Candidate(id, q, rhs) = Candidate(id, q, rhs)
  BY <1>2 DEF Promise!Candidate, Promise!Scope, Promise!RowViolation, Promise!BlockOf,
              Candidate, Scope, RowViolation, BlockOf
<1>5. \A S : Promise!Candidates(S, q, rhs) = Candidates(S, q, rhs)
  BY <1>4 DEF Promise!Candidates, Candidates
<1>6. \A S : Promise!Best(S) = Best(S)
  BY DEF Promise!Best, Promise!Prefer, Promise!Greater, Promise!TiePrefer,
         Best, Prefer, Greater, TiePrefer
<1> QED
  BY <1>1, <1>3, <1>5, <1>6 DEF Promise!WorstInactive, WorstInactive

\* The cached oracle implements the oracle without caches.
THEOREM OracleImplementsSpec == Spec => ImplementsOracleSpec
<1>1. Init => Promise!Init
  BY SameSystem DEF Init, Promise!Init
<1>2. ASSUME IInv, IInv', [Next]_vars PROVE [Promise!Next]_Promise!vars
  <2>1. /\ q' \in Points /\ rhs' \in RightHandSides /\ active' \in SUBSET Ids
        /\ AnswerIsWorst'
    BY <1>2 DEF IInv, TypeOK
  <2>2. CASE UNCHANGED cacheVars /\ answered' = FALSE
    BY <2>1, <2>2, SameSystem DEF cacheVars, Promise!Next, Promise!Disturb
  <2>3. CASE UNCHANGED callerVars /\ answered' = TRUE
    <3>1. last' = WorstInactive(active, q, rhs)
      BY <2>1, <2>3 DEF AnswerIsWorst, callerVars
    <3>2. Promise!Answer
      BY <2>3, <3>1, SameSystem DEF Promise!Answer, callerVars
    <3> QED
      BY <3>2 DEF Promise!Next
  <2>4. CASE UNCHANGED vars
    BY <2>4 DEF vars, Promise!vars
  <2>5. \/ UNCHANGED cacheVars /\ answered' = FALSE
        \/ UNCHANGED callerVars /\ answered' = TRUE
        \/ UNCHANGED vars
    BY <1>2 DEF Next, MovePoint, ReplaceRhs, ActivateConstraintId, DeactivateConstraintId,
                SetActiveIds, InitTick, UpdateBlocks
  <2> QED
    BY <2>2, <2>3, <2>4, <2>5
<1> QED
  BY <1>1, <1>2, AlwaysIInv, PTL DEF Spec, ImplementsOracleSpec, Promise!Spec
=============================================================================
