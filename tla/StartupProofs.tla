--------------------------- MODULE StartupProofs ---------------------------
(***************************************************************************)
(* Proofs about Startup, for every set of configurations and launches: a   *)
(* structure that the validator passes is laid out and runs, and only one  *)
(* without variables is not; a layout partitions the variables; a start    *)
(* that gets as far as running satisfies the structure contract, its       *)
(* constraint ids decode, and a run that makes a claim is structured.      *)
(***************************************************************************)
EXTENDS Startup, WellFoundedInduction, TLAPS

\* The block sizes a start lays out.
Sizes == IF valid THEN cfg.sizes ELSE <<cfg.n>>

\* What the steps behind the current one have established.
StartInv ==
    /\ cfg \in Configs /\ cli \in Launches
    /\ valid \in BOOLEAN
    /\ pc = "load" => ~valid
    /\ pc # "load" => (valid <=> StructureValid(cfg))
    /\ pc \notin {"load", "exit8"} => ~ClaimRefused(cli, cfg, valid)
    /\ pc \in {"load", "layout"} => layout = <<>>
    /\ layout # <<>> => LaysOut(cfg.n, Sizes) /\ layout = LayoutOf(cfg.n, Sizes)
    /\ pc \in {"local", "global", "rhs", "running"} =>
            LaysOut(cfg.n, Sizes) /\ layout = LayoutOf(cfg.n, Sizes)
    /\ pc = "exit3" => ~LaysOut(cfg.n, Sizes)
    /\ pc = "aborted" => cfg.mLocal <= 0 \/ cfg.mGlobal < 0
    /\ pc \in {"global", "rhs", "running"} =>
            cfg.mLocal > 0 /\ local = LocalConstraints(layout, cfg.mLocal)
    /\ pc \in {"rhs", "running"} =>
            cfg.mGlobal >= 0 /\ global = GlobalConstraints(cfg.n, cfg.mGlobal)
    /\ pc = "running" => rhs = RhsOf(local, global)

-----------------------------------------------------------------------------

\* A start establishes each part in turn and loses none.
LEMMA StartInvariant == Spec => []StartInv
<1>1. Init => StartInv
  BY DEF Init, StartInv
<1>2. StartInv /\ [Next]_vars => StartInv'
  <2> SUFFICES ASSUME StartInv, [Next]_vars PROVE StartInv'
    OBVIOUS
  <2>1. CASE Validate
    <3>1. StructureValid(cfg) \in BOOLEAN
      BY DEF StructureValid
    <3> QED
      BY <2>1, <3>1 DEF Validate, Ends, StartInv
  <2>2. CASE BuildLayout
    BY <2>2 DEF BuildLayout, Ends, StartInv, Sizes
  <2>3. CASE GenerateLocal
    BY <2>3 DEF GenerateLocal, Ends, StartInv, Sizes
  <2>4. CASE GenerateGlobal
    BY <2>4 DEF GenerateGlobal, Ends, StartInv, Sizes
  <2>5. CASE GenerateRhs
    BY <2>5 DEF GenerateRhs, StartInv, Sizes
  <2>6. CASE UNCHANGED vars
    BY <2>6 DEF vars, StartInv, Sizes
  <2> QED
    BY <2>1, <2>2, <2>3, <2>4, <2>5, <2>6 DEF Next
<1> QED
  BY <1>1, <1>2, PTL DEF Spec

-----------------------------------------------------------------------------
\* The loops over the blocks.

\* Counting up from 0 reaches every number of a range.
LEMMA RangeInduction ==
    ASSUME NEW N \in Nat, NEW S, 0 \in S, \A k \in 1 .. N : k - 1 \in S => k \in S
    PROVE  0 .. N \subseteq S
<1> DEFINE R == OpToRel(<, Nat)
           Bad == {k \in 0 .. N : k \notin S}
<1>1. SUFFICES ASSUME Bad # {} PROVE FALSE
  OBVIOUS
<1>2. \A x, y \in Nat : <<y, x>> \in R <=> y < x
  BY DEF OpToRel
<1>3. IsWellFoundedOn(R, Nat)
  BY NatLessThanWellFounded
<1>4. Bad \subseteq Nat
  OBVIOUS
<1> HIDE DEF R, Bad
<1>5. PICK k \in Bad : \A j \in Bad : ~(<<j, k>> \in R)
  BY <1>1, <1>3, <1>4, WFMin, Zenon
<1>6. \A j \in Bad : ~(j < k)
  BY <1>2, <1>4, <1>5, Zenon
<1> HIDE <1>2, <1>3, <1>5
<1>7. k \in 1 .. N /\ k - 1 \in 0 .. N /\ k - 1 < k
  BY DEF Bad
<1>8. k - 1 \in S
  BY <1>6, <1>7 DEF Bad
<1> QED
  BY <1>7, <1>8 DEF Bad

\* A turn of a loop over numbers makes a state of a state and a number.
Turning(G, S) == G \in [S \X Int -> S]

\* f holds the states of a loop over z that starts in state first.
Runs(f, z, G, first, S) ==
    /\ f \in [0 .. Len(z) -> S]
    /\ f[0] = first
    /\ \A k \in 1 .. Len(z) : f[k] = G[<<f[k - 1], z[k]>>]

LEMMA LoopExists ==
    ASSUME NEW z \in Seq(Int), NEW S, NEW first, first \in S, NEW G, Turning(G, S)
    PROVE  \E f : Runs(f, z, G, first, S)
<1> DEFINE N == Len(z)
           Upto(f, k) == /\ f[0] = first
                         /\ \A j \in 1 .. N : j <= k => f[j] = G[<<f[j - 1], z[j]>>]
           K == {k \in 0 .. N : \E f \in [0 .. N -> S] : Upto(f, k)}
<1>0. N \in Nat /\ \A k \in 1 .. N : z[k] \in Int
  OBVIOUS
<1> HIDE DEF N
<1>1. 0 \in K
  <2>1. [k \in 0 .. N |-> first] \in [0 .. N -> S] /\ Upto([k \in 0 .. N |-> first], 0)
    BY <1>0
  <2> QED
    BY <1>0, <2>1
<1>2. ASSUME NEW k \in 1 .. N, k - 1 \in K PROVE k \in K
  <2>1. PICK f \in [0 .. N -> S] : Upto(f, k - 1)
    BY <1>2
  <2> DEFINE h == [f EXCEPT ![k] = G[<<f[k - 1], z[k]>>]]
  <2>2. k \in 0 .. N /\ k - 1 \in 0 .. N /\ k # 0
    BY <1>0
  <2>3. G[<<f[k - 1], z[k]>>] \in S
    BY <1>0, <2>2 DEF Turning
  <2>4. /\ h \in [0 .. N -> S] /\ h[k] = G[<<f[k - 1], z[k]>>]
        /\ \A j \in 0 .. N : j # k => h[j] = f[j]
    BY <2>2, <2>3
  <2> HIDE DEF h
  <2>5. h[0] = first
    <3>1. 0 \in 0 .. N /\ f[0] = first
      BY <1>0, <2>1
    <3>2. 0 # k
      BY <2>2
    <3> QED
      BY <2>4, <3>1, <3>2
  <2>6. ASSUME NEW j \in 1 .. N, j <= k PROVE h[j] = G[<<h[j - 1], z[j]>>]
    <3>1. j \in 0 .. N /\ j - 1 \in 0 .. N /\ j - 1 # k /\ (j # k => j <= k - 1)
      BY <1>0, <2>6
    <3> QED
      BY <2>1, <2>4, <3>1
  <2>7. Upto(h, k)
    BY <2>5, <2>6
  <2> QED
    BY <2>2, <2>4, <2>7
<1> HIDE DEF K
<1>3. N \in K
  <2>1. \A k \in 1 .. N : k - 1 \in K => k \in K
    BY <1>2
  <2>2. 0 .. N \subseteq K
    BY <1>0, <1>1, <2>1, RangeInduction
  <2> QED
    BY <1>0, <2>2
<1>4. PICK f \in [0 .. N -> S] : Upto(f, N)
  BY <1>3 DEF K
<1>5. \A k \in 1 .. N : k <= N
  BY <1>0
<1>6. Runs(f, z, G, first, S)
  BY <1>4, <1>5 DEF Runs, N
<1> QED
  BY <1>6

\* P[k] is the sum of the first k sizes.
PrefixSums(sizes, P) ==
    /\ P \in [0 .. Len(sizes) -> Int]
    /\ P[0] = 0
    /\ \A k \in 1 .. Len(sizes) : P[k] = P[k - 1] + sizes[k]

LEMMA SumOfSizes ==
    ASSUME NEW sizes \in Seq(Int)
    PROVE  \E P : PrefixSums(sizes, P) /\ Sum(sizes) = P[Len(sizes)]
<1> DEFINE N == Len(sizes)
           Step(x, k) == IF k = 0 THEN 0 ELSE x[k - 1] + sizes[k]
           upto == CHOOSE x : x = [k \in 0 .. N |-> Step(x, k)]
           G == [p \in Int \X Int |-> p[1] + p[2]]
<1>1. Sum(sizes) = upto[N]
  BY DEF Sum
<1>2. \E f : f \in [0 .. N -> Int] /\ f = [k \in 0 .. N |-> Step(f, k)]
  <2>1. N \in Nat /\ \A k \in 1 .. N : sizes[k] \in Int
    OBVIOUS
  <2>2. Turning(G, Int) /\ \A x, y \in Int : G[<<x, y>>] = x + y
    BY DEF Turning
  <2> HIDE DEF G, upto
  <2>3. PICK f : Runs(f, sizes, G, 0, Int)
    <3>1. 0 \in Int
      OBVIOUS
    <3> QED
      BY <2>2, <3>1, LoopExists, Zenon
  <2>4. f \in [0 .. N -> Int] /\ f[0] = 0 /\ \A k \in 1 .. N : f[k] = G[<<f[k - 1], sizes[k]>>]
    BY <2>3 DEF Runs
  <2> HIDE DEF N
  <2>5. ASSUME NEW k \in 0 .. N PROVE f[k] = Step(f, k)
    <3>1. CASE k = 0
      BY <2>4, <3>1
    <3>2. CASE k # 0
      <4>1. k \in 1 .. N /\ k - 1 \in 0 .. N
        BY <2>1, <3>2
      <4>2. f[k - 1] \in Int /\ sizes[k] \in Int
        BY <2>1, <2>4, <4>1
      <4> QED
        BY <2>2, <2>4, <3>2, <4>1, <4>2
    <3> QED
      BY <3>1, <3>2
  <2> HIDE DEF Step
  <2>6. f = [k \in 0 .. N |-> f[k]]
    BY <2>4
  <2>7. f = [k \in 0 .. N |-> Step(f, k)]
    BY <2>5, <2>6
  <2> QED
    BY <2>4, <2>7
<1>3. upto \in [0 .. N -> Int] /\ upto = [k \in 0 .. N |-> Step(upto, k)]
  <2>1. PICK f : f \in [0 .. N -> Int] /\ f = [k \in 0 .. N |-> Step(f, k)]
    BY <1>2
  <2>2. upto = [k \in 0 .. N |-> Step(upto, k)]
    <3> HIDE DEF Step
    <3> QED
      BY <2>1
  <2> HIDE DEF upto
  <2> DEFINE S == {k \in 0 .. N : upto[k] = f[k]}
  <2>3. \A k \in 0 .. N : upto[k] = Step(upto, k) /\ f[k] = Step(f, k)
    <3> HIDE DEF Step
    <3> QED
      BY <2>1, <2>2
  <2>4. N \in Nat
    OBVIOUS
  <2> HIDE DEF N
  <2>5. 0 \in S /\ \A k \in 1 .. N : k - 1 \in S => k \in S
    BY <2>3, <2>4
  <2> HIDE DEF S
  <2>6. 0 .. N \subseteq S
    BY <2>4, <2>5, RangeInduction
  <2>7. \A k \in 0 .. N : upto[k] \in Int
    BY <2>1, <2>6 DEF S
  <2>8. upto = [k \in 0 .. N |-> upto[k]]
    <3> HIDE DEF Step
    <3> QED
      BY <2>2
  <2> QED
    BY <2>2, <2>7, <2>8
<1> HIDE DEF upto
<1>4. \A k \in 0 .. N : upto[k] = Step(upto, k)
  <2> HIDE DEF Step
  <2> QED
    BY <1>3
<1>5. PrefixSums(sizes, upto)
  <2>1. N \in Nat /\ 0 \in 0 .. N
    OBVIOUS
  <2>2. upto[0] = 0
    BY <1>4, <2>1
  <2>3. ASSUME NEW k \in 1 .. N PROVE upto[k] = upto[k - 1] + sizes[k]
    <3>1. k \in 0 .. N /\ k # 0
      BY <2>1
    <3> QED
      BY <1>4, <3>1
  <2> QED
    BY <1>3, <2>2, <2>3 DEF PrefixSums
<1> QED
  BY <1>1, <1>5

\* Positive sizes have increasing sums.
LEMMA SumsIncrease ==
    ASSUME NEW sizes \in Seq(Int), AllPositive(sizes), NEW P, PrefixSums(sizes, P)
    PROVE  /\ \A k \in 1 .. Len(sizes) : P[k - 1] < P[k]
           /\ \A i, k \in 0 .. Len(sizes) : i <= k => P[i] <= P[k]
<1> DEFINE N == Len(sizes)
           S == {k \in 0 .. N : \A i \in 0 .. N : i <= k => P[i] <= P[k]}
<1>1. N \in Nat /\ (\A k \in 1 .. N : sizes[k] \in Int /\ sizes[k] > 0)
  BY DEF AllPositive
<1>2. /\ P \in [0 .. N -> Int]
      /\ \A k \in 1 .. N : P[k] = P[k - 1] + sizes[k]
  BY DEF PrefixSums
<1> HIDE DEF N
<1>3. \A k \in 1 .. N : P[k - 1] < P[k] /\ P[k] \in Int /\ P[k - 1] \in Int
  <2> TAKE k \in 1 .. N
  <2>1. k \in 0 .. N /\ k - 1 \in 0 .. N
    BY <1>1
  <2>2. P[k] \in Int /\ P[k - 1] \in Int
    BY <1>2, <2>1
  <2>3. sizes[k] \in Int /\ sizes[k] > 0 /\ P[k] = P[k - 1] + sizes[k]
    BY <1>1, <1>2
  <2> QED
    BY <2>2, <2>3
<1>4. 0 \in S
  <2>1. 0 \in 0 .. N /\ \A i \in 0 .. N : i <= 0 => i = 0
    BY <1>1
  <2> QED
    BY <1>2, <2>1
<1>5. ASSUME NEW k \in 1 .. N, k - 1 \in S PROVE k \in S
  <2>1. k \in 0 .. N /\ k - 1 \in 0 .. N
    BY <1>1
  <2>2. ASSUME NEW i \in 0 .. N, i <= k PROVE P[i] <= P[k]
    <3>1. i = k \/ i <= k - 1
      BY <1>1, <2>2
    <3>2. P[i] \in Int
      BY <1>2
    <3> QED
      BY <1>3, <1>5, <3>1, <3>2
  <2> QED
    BY <2>1, <2>2
<1>6. 0 .. N \subseteq S
  <2> HIDE DEF S
  <2>1. \A k \in 1 .. N : k - 1 \in S => k \in S
    BY <1>5
  <2> QED
    BY <1>1, <1>4, <2>1, RangeInduction
<1> QED
  BY <1>3, <1>6 DEF N

\* What the loop over the blocks carries.
Placings(n) == [running : Int, offsets : Seq(Int), owner : [0 .. n - 1 -> Int]]

NothingPlaced(n) == [running |-> 0, offsets |-> <<>>, owner |-> [j \in 0 .. n - 1 |-> -1]]

LEMMA PlacingTyped ==
    ASSUME NEW n \in Int, NEW acc \in Placings(n), NEW size \in Int
    PROVE  PlaceBlock(acc, size) \in Placings(n)
<1>1. acc.running + size \in Int /\ Append(acc.offsets, acc.running) \in Seq(Int)
  BY DEF Placings
<1>2. Len(acc.offsets) \in Int /\ acc.owner \in [0 .. n - 1 -> Int]
  BY DEF Placings
<1>3. [j \in DOMAIN acc.owner |->
        IF j \in acc.running .. acc.running + size - 1 THEN Len(acc.offsets) ELSE acc.owner[j]]
        \in [0 .. n - 1 -> Int]
  BY <1>2
<1> QED
  BY <1>1, <1>3 DEF PlaceBlock, Placings

\* f holds the states of the loop of make_block_layout.
Placed(f, n, sizes) ==
    /\ f \in [0 .. Len(sizes) -> Placings(n)]
    /\ f[0] = NothingPlaced(n)
    /\ \A k \in 1 .. Len(sizes) : f[k] = PlaceBlock(f[k - 1], sizes[k])

LEMMA LayoutIsPlaced ==
    ASSUME NEW n \in Int, NEW sizes \in Seq(Int)
    PROVE  \E f : /\ Placed(f, n, sizes)
                  /\ LayoutOf(n, sizes).offsets = f[Len(sizes)].offsets
                  /\ LayoutOf(n, sizes).varToBlock = f[Len(sizes)].owner
<1> DEFINE N == Len(sizes)
           Step(x, k) == IF k = 0 THEN NothingPlaced(n) ELSE PlaceBlock(x[k - 1], sizes[k])
           placed == CHOOSE x : x = [k \in 0 .. N |-> Step(x, k)]
           G == [p \in Placings(n) \X Int |-> PlaceBlock(p[1], p[2])]
<1>1. /\ LayoutOf(n, sizes).offsets = placed[N].offsets
      /\ LayoutOf(n, sizes).varToBlock = placed[N].owner
  BY DEF LayoutOf, NothingPlaced
<1>2. N \in Nat /\ \A k \in 1 .. N : sizes[k] \in Int
  OBVIOUS
<1>3. Turning(G, Placings(n)) /\ \A x \in Placings(n), y \in Int : G[<<x, y>>] = PlaceBlock(x, y)
  <2>1. \A x \in Placings(n), y \in Int : PlaceBlock(x, y) \in Placings(n)
    BY PlacingTyped
  <2> QED
    BY <2>1 DEF Turning
<1> HIDE DEF G, placed
<1>4. PICK f : Runs(f, sizes, G, NothingPlaced(n), Placings(n))
  <2>1. NothingPlaced(n) \in Placings(n)
    BY DEF NothingPlaced, Placings
  <2> QED
    BY <1>3, <2>1, LoopExists, Zenon
<1>5. /\ f \in [0 .. N -> Placings(n)] /\ f[0] = NothingPlaced(n)
      /\ \A k \in 1 .. N : f[k] = G[<<f[k - 1], sizes[k]>>]
  BY <1>4 DEF Runs
<1>6. \A k \in 1 .. N : f[k] = PlaceBlock(f[k - 1], sizes[k])
  <2> TAKE k \in 1 .. N
  <2> HIDE DEF N
  <2>1. k - 1 \in 0 .. N
    BY <1>2
  <2>2. f[k - 1] \in Placings(n)
    BY <1>5, <2>1
  <2> QED
    BY <1>2, <1>3, <1>5, <2>2
<1>7. placed = [k \in 0 .. N |-> Step(placed, k)]
  <2>1. \A k \in 0 .. N : f[k] = Step(f, k)
    BY <1>2, <1>5, <1>6
  <2> HIDE DEF Step
  <2>2. f = [k \in 0 .. N |-> f[k]]
    BY <1>5
  <2>3. f = [k \in 0 .. N |-> Step(f, k)]
    BY <2>1, <2>2
  <2> QED
    BY <2>3 DEF placed
<1> DEFINE S == {k \in 0 .. N : placed[k] = f[k]}
<1>8. \A k \in 0 .. N : placed[k] = Step(placed, k)
  <2> HIDE DEF Step
  <2> QED
    BY <1>7
<1>9. N \in S
  <2> HIDE DEF N
  <2>1. 0 \in S
    BY <1>2, <1>5, <1>8
  <2>2. ASSUME NEW k \in 1 .. N, k - 1 \in S PROVE k \in S
    <3>1. k \in 0 .. N /\ k # 0
      BY <1>2
    <3>2. placed[k] = PlaceBlock(placed[k - 1], sizes[k])
      BY <1>8, <3>1
    <3> QED
      BY <1>6, <2>2, <3>1, <3>2
  <2> HIDE DEF S
  <2>3. \A k \in 1 .. N : k - 1 \in S => k \in S
    BY <2>2
  <2>4. 0 .. N \subseteq S
    BY <1>2, <2>1, <2>3, RangeInduction
  <2> QED
    BY <1>2, <2>4
<1>10. Placed(f, n, sizes)
  BY <1>5, <1>6 DEF Placed
<1> QED
  BY <1>1, <1>9, <1>10

\* What has been placed after k blocks: offsets are sums of sizes, and the variables below
\* the running sum belong to the blocks whose ranges they lie in.
AfterBlocks(acc, n, P, k) ==
    /\ acc.running = P[k]
    /\ Len(acc.offsets) = k
    /\ \A i \in 1 .. k : acc.offsets[i] = P[i - 1]
    /\ \A j \in 0 .. n - 1 :
          /\ acc.owner[j] \in -1 .. k - 1
          /\ j < P[k] => acc.owner[j] # -1
          /\ \A b \in 0 .. k - 1 : acc.owner[j] = b <=> P[b] <= j /\ j < P[b + 1]

LEMMA BlockIsPlaced ==
    ASSUME NEW n \in Int, NEW sizes \in Seq(Int), AllPositive(sizes),
           NEW P, PrefixSums(sizes, P), NEW k \in 1 .. Len(sizes),
           NEW acc \in Placings(n), AfterBlocks(acc, n, P, k - 1)
    PROVE  AfterBlocks(PlaceBlock(acc, sizes[k]), n, P, k)
<1> DEFINE N == Len(sizes)
           new == PlaceBlock(acc, sizes[k])
<1>1. N \in Nat /\ P \in [0 .. N -> Int] /\ P[k] = P[k - 1] + sizes[k] /\ sizes[k] \in Int
  BY DEF PrefixSums
<1>2. \A i, m \in 0 .. N : i <= m => P[i] <= P[m]
  BY SumsIncrease
<1>3. k - 1 \in 0 .. N /\ k \in 0 .. N /\ k \in Nat
  BY <1>1
<1>4. P[k - 1] \in Int /\ P[k] \in Int
  BY <1>1, <1>3
<1>5. acc.running = P[k - 1] /\ Len(acc.offsets) = k - 1 /\ acc.offsets \in Seq(Int)
  BY DEF AfterBlocks, Placings
<1>6. acc.owner \in [0 .. n - 1 -> Int]
  BY DEF Placings
<1>7. /\ new.running = P[k]
      /\ new.offsets = Append(acc.offsets, P[k - 1])
      /\ new.owner = [j \in 0 .. n - 1 |->
                        IF j \in P[k - 1] .. P[k] - 1 THEN k - 1 ELSE acc.owner[j]]
  <2>1. acc.running + sizes[k] = P[k] /\ DOMAIN acc.owner = 0 .. n - 1
    BY <1>1, <1>5, <1>6
  <2>2. /\ new.running = acc.running + sizes[k]
        /\ new.offsets = Append(acc.offsets, acc.running)
        /\ new.owner = [j \in DOMAIN acc.owner |->
                          IF j \in acc.running .. acc.running + sizes[k] - 1
                          THEN Len(acc.offsets) ELSE acc.owner[j]]
    BY DEF PlaceBlock
  <2> HIDE DEF new
  <2>3. \A j \in 0 .. n - 1 :
            (IF j \in acc.running .. acc.running + sizes[k] - 1
             THEN Len(acc.offsets) ELSE acc.owner[j])
          = (IF j \in P[k - 1] .. P[k] - 1 THEN k - 1 ELSE acc.owner[j])
    <3>1. acc.running .. acc.running + sizes[k] - 1 = P[k - 1] .. P[k] - 1
      <4>1. P[k - 1] + sizes[k] - 1 = P[k] - 1
        BY <1>1, <1>4
      <4> QED
        BY <1>5, <4>1, Zenon
    <3>2. Len(acc.offsets) = k - 1
      BY <1>5
    <3> QED
      BY <3>1, <3>2, Zenon
  <2> QED
    BY <1>5, <2>1, <2>2, <2>3
<1> HIDE DEF new, N
<1>8. Len(new.offsets) = k /\ \A i \in 1 .. k : new.offsets[i] = P[i - 1]
  <2>1. Len(new.offsets) = k
    BY <1>3, <1>5, <1>7, <1>4
  <2>2. new.offsets[k] = P[k - 1]
    BY <1>3, <1>5, <1>7, <1>4
  <2>3. ASSUME NEW i \in 1 .. k, i # k PROVE new.offsets[i] = P[i - 1]
    <3>1. i \in 1 .. k - 1
      BY <1>3, <2>3
    <3>2. new.offsets[i] = acc.offsets[i]
      BY <1>3, <1>5, <1>7, <1>4, <3>1
    <3> QED
      BY <3>1, <3>2 DEF AfterBlocks
  <2> QED
    BY <2>1, <2>2, <2>3
<1>9. ASSUME NEW j \in 0 .. n - 1
      PROVE  /\ new.owner[j] \in -1 .. k - 1
             /\ j < P[k] => new.owner[j] # -1
             /\ \A b \in 0 .. k - 1 : new.owner[j] = b <=> P[b] <= j /\ j < P[b + 1]
  <2>1. /\ acc.owner[j] \in -1 .. k - 2
        /\ j < P[k - 1] => acc.owner[j] # -1
        /\ \A b \in 0 .. k - 2 : acc.owner[j] = b <=> P[b] <= j /\ j < P[b + 1]
    <3>1. k - 1 - 1 = k - 2
      BY <1>3
    <3> QED
      BY <3>1 DEF AfterBlocks
  <2>2. j \in Int /\ new.owner[j] = IF P[k - 1] <= j /\ j < P[k] THEN k - 1 ELSE acc.owner[j]
    BY <1>7, <1>4
  <2>3. \A b \in 0 .. k - 2 : P[b + 1] <= P[k - 1] /\ P[b + 1] \in Int /\ P[b] \in Int
    <3> TAKE b \in 0 .. k - 2
    <3>1. b + 1 \in 0 .. N /\ b + 1 <= k - 1 /\ b \in 0 .. N
      BY <1>1, <1>3
    <3> QED
      BY <1>1, <1>2, <1>3, <3>1
  <2>4. CASE P[k - 1] <= j /\ j < P[k]
    <3>1. new.owner[j] = k - 1
      BY <2>2, <2>4
    <3>2. ASSUME NEW b \in 0 .. k - 2 PROVE ~(P[b] <= j /\ j < P[b + 1])
      <4>1. P[b + 1] <= P[k - 1] /\ P[b + 1] \in Int
        BY <2>3
      <4> QED
        BY <1>4, <2>2, <2>4, <4>1
    <3>3. ASSUME NEW b \in 0 .. k - 1 PROVE new.owner[j] = b <=> P[b] <= j /\ j < P[b + 1]
      <4>1. CASE b = k - 1
        <5>1. b + 1 = k
          BY <1>3, <4>1
        <5> QED
          BY <2>4, <3>1, <4>1, <5>1
      <4>2. CASE b # k - 1
        <5>1. b \in 0 .. k - 2
          BY <1>3, <4>2
        <5> QED
          BY <3>1, <3>2, <4>2, <5>1
      <4> QED
        BY <4>1, <4>2
    <3> QED
      BY <1>3, <3>1, <3>3
  <2>5. CASE ~(P[k - 1] <= j /\ j < P[k])
    <3>1. new.owner[j] = acc.owner[j]
      BY <2>2, <2>5
    <3>2. j < P[k] => j < P[k - 1]
      BY <1>4, <2>2, <2>5
    <3>3. ASSUME NEW b \in 0 .. k - 1 PROVE new.owner[j] = b <=> P[b] <= j /\ j < P[b + 1]
      <4>1. CASE b = k - 1
        <5>1. b + 1 = k
          BY <1>3, <4>1
        <5>2. acc.owner[j] # b
          BY <1>3, <2>1, <4>1
        <5> QED
          BY <2>5, <3>1, <4>1, <5>1, <5>2
      <4>2. CASE b # k - 1
        <5>1. b \in 0 .. k - 2
          BY <1>3, <4>2
        <5> QED
          BY <2>1, <3>1, <5>1
      <4> QED
        BY <4>1, <4>2
    <3>4. new.owner[j] \in -1 .. k - 1
      BY <1>3, <2>1, <3>1
    <3> QED
      BY <2>1, <3>1, <3>2, <3>3, <3>4
  <2> QED
    BY <2>4, <2>5
<1>10. AfterBlocks(new, n, P, k)
  BY <1>7, <1>8, <1>9 DEF AfterBlocks
<1> QED
  BY <1>10 DEF new

\* The layout that make_block_layout ends with.
LEMMA LayoutPlaced ==
    ASSUME NEW n \in Int, NEW sizes \in Seq(Int), AllPositive(sizes), NEW P, PrefixSums(sizes, P)
    PROVE  LET lay == LayoutOf(n, sizes)
               N   == Len(sizes)
           IN  /\ lay.n = n /\ lay.B = N /\ lay.sizes = sizes
               /\ Len(lay.offsets) = N
               /\ \A i \in 1 .. N : lay.offsets[i] = P[i - 1]
               /\ DOMAIN lay.varToBlock = 0 .. n - 1
               /\ \A j \in 0 .. n - 1 :
                     /\ lay.varToBlock[j] \in -1 .. N - 1
                     /\ j < P[N] => lay.varToBlock[j] # -1
                     /\ \A b \in 0 .. N - 1 : lay.varToBlock[j] = b <=> P[b] <= j /\ j < P[b + 1]
<1> DEFINE N == Len(sizes)
           lay == LayoutOf(n, sizes)
<1>1. lay.n = n /\ lay.B = N /\ lay.sizes = sizes
  BY DEF LayoutOf
<1>2. PICK f : Placed(f, n, sizes) /\ lay.offsets = f[N].offsets /\ lay.varToBlock = f[N].owner
  BY LayoutIsPlaced
<1> DEFINE S == {k \in 0 .. N : AfterBlocks(f[k], n, P, k)}
<1>3. N \in Nat /\ P[0] = 0
  BY DEF PrefixSums
<1>4. /\ f \in [0 .. N -> Placings(n)] /\ f[0] = NothingPlaced(n)
      /\ \A k \in 1 .. N : f[k] = PlaceBlock(f[k - 1], sizes[k])
  BY <1>2 DEF Placed
<1>5. 0 \in S
  <2>1. AfterBlocks(NothingPlaced(n), n, P, 0)
    <3>1. \A j \in 0 .. n - 1 : j >= 0 /\ j \in Int
      OBVIOUS
    <3> QED
      BY <1>3, <3>1 DEF AfterBlocks, NothingPlaced
  <2> QED
    BY <1>3, <1>4, <2>1
<1>6. ASSUME NEW k \in 1 .. N, k - 1 \in S PROVE k \in S
  <2>1. k \in 0 .. N /\ k - 1 \in 0 .. N
    BY <1>3
  <2>2. f[k - 1] \in Placings(n) /\ AfterBlocks(f[k - 1], n, P, k - 1)
    BY <1>4, <1>6, <2>1
  <2>3. AfterBlocks(PlaceBlock(f[k - 1], sizes[k]), n, P, k)
    BY <2>2, BlockIsPlaced
  <2> QED
    BY <1>4, <2>1, <2>3
<1>7. AfterBlocks(f[N], n, P, N)
  <2>1. \A k \in 1 .. N : k - 1 \in S => k \in S
    BY <1>6
  <2> HIDE DEF S, N
  <2>2. 0 .. N \subseteq S
    BY <1>3, <1>5, <2>1, RangeInduction
  <2>3. N \in S
    BY <1>3, <2>2
  <2> QED
    BY <2>3 DEF S
<1>8. DOMAIN lay.varToBlock = 0 .. n - 1
  <2>1. f[N] \in Placings(n)
    BY <1>3, <1>4
  <2> QED
    BY <1>2, <2>1 DEF Placings
<1> HIDE DEF lay, N
<1>9. /\ Len(lay.offsets) = N /\ \A i \in 1 .. N : lay.offsets[i] = P[i - 1]
      /\ \A j \in 0 .. n - 1 :
            /\ lay.varToBlock[j] \in -1 .. N - 1
            /\ j < P[N] => lay.varToBlock[j] # -1
            /\ \A b \in 0 .. N - 1 : lay.varToBlock[j] = b <=> P[b] <= j /\ j < P[b + 1]
  BY <1>2, <1>7 DEF AfterBlocks
<1> QED
  BY <1>1, <1>8, <1>9 DEF lay, N

\* Positive sizes whose sum is n can be laid out: invariant_ok cannot fail.
LEMMA PositiveSizesLayOut ==
    ASSUME NEW n \in Int, NEW sizes \in Seq(Int), sizes # <<>>, AllPositive(sizes), Sum(sizes) = n
    PROVE  n > 0 /\ LaysOut(n, sizes)
<1> DEFINE N == Len(sizes)
           lay == LayoutOf(n, sizes)
<1>1. PICK P : PrefixSums(sizes, P) /\ Sum(sizes) = P[N]
  BY SumOfSizes
<1>2. N \in Nat \ {0} /\ Len(sizes) = N
  OBVIOUS
<1>3. P \in [0 .. N -> Int] /\ P[0] = 0 /\ P[N] = n
  BY <1>1 DEF PrefixSums
<1>4. /\ \A k \in 1 .. N : P[k - 1] < P[k]
      /\ \A i, k \in 0 .. N : i <= k => P[i] <= P[k]
  BY <1>1, SumsIncrease
<1>5. /\ lay.n = n /\ lay.B = N /\ lay.sizes = sizes /\ Len(lay.offsets) = N
      /\ \A i \in 1 .. N : lay.offsets[i] = P[i - 1]
      /\ DOMAIN lay.varToBlock = 0 .. n - 1
      /\ \A j \in 0 .. n - 1 :
            lay.varToBlock[j] \in -1 .. N - 1 /\ (j < P[N] => lay.varToBlock[j] # -1)
  BY <1>1, LayoutPlaced
<1> HIDE DEF lay, N
<1>6. n > 0
  <2>1. 1 \in 1 .. N /\ 1 \in 0 .. N /\ N \in 0 .. N /\ 0 \in 0 .. N
    BY <1>2
  <2>2. P[1 - 1] < P[1] /\ P[1] <= P[N]
    BY <1>2, <1>4, <2>1
  <2>3. P[1] \in Int /\ P[1 - 1] = 0
    BY <1>3, <2>1
  <2> QED
    BY <1>3, <2>2, <2>3
<1>7. OffsetOf(lay, 0) = 0
  <2>1. 1 \in 1 .. N
    BY <1>2
  <2> QED
    BY <1>3, <1>5, <2>1 DEF OffsetOf
<1>8. \A b \in 1 .. N - 1 : OffsetOf(lay, b) > OffsetOf(lay, b - 1)
  <2> TAKE b \in 1 .. N - 1
  <2>1. b \in 1 .. N /\ b + 1 \in 1 .. N /\ b - 1 + 1 = b /\ b + 1 - 1 = b
    BY <1>2
  <2>2. OffsetOf(lay, b) = P[b] /\ OffsetOf(lay, b - 1) = P[b - 1]
    BY <1>5, <2>1 DEF OffsetOf
  <2>3. P[b - 1] < P[b] /\ P[b] \in Int /\ P[b - 1] \in Int
    BY <1>2, <1>3, <1>4, <2>1
  <2> QED
    BY <2>2, <2>3
<1>9. \A j \in 0 .. n - 1 : lay.varToBlock[j] \in 0 .. N - 1
  <2> TAKE j \in 0 .. n - 1
  <2>1. j < P[N]
    BY <1>3
  <2> QED
    BY <1>2, <1>5, <2>1
<1>10. LayoutOk(lay)
  BY <1>2, <1>5, <1>6, <1>7, <1>8, <1>9 DEF LayoutOk
<1> QED
  BY <1>6, <1>10 DEF LaysOut, lay

\* One block of n variables is a structure of its own.
LEMMA SingleBlock ==
    ASSUME NEW n \in Int
    PROVE  <<n>> \in Seq(Int) /\ <<n>> # <<>> /\ Sum(<<n>>) = n
<1>1. <<n>> \in Seq(Int) /\ Len(<<n>>) = 1
  OBVIOUS
<1>2. PICK P : PrefixSums(<<n>>, P) /\ Sum(<<n>>) = P[1]
  BY <1>1, SumOfSizes
<1>3. 1 \in 1 .. 1 /\ P[1] = P[1 - 1] + n /\ P[1 - 1] = 0
  BY <1>1, <1>2 DEF PrefixSums
<1> QED
  BY <1>1, <1>2, <1>3

-----------------------------------------------------------------------------

\* A claim that is not refused runs on the configured blocks.
THEOREM ClaimsAreStructured == Spec => []ClaimIsStructured
<1>1. StartInv => ClaimIsStructured
  <2> SUFFICES ASSUME StartInv, pc = "running", cli.claim
               PROVE  /\ ~ForceFullRescan
                      /\ layout.sizes = cfg.sizes /\ layout.B = cfg.B
                      /\ StreamMode(cfg.streamMode) # "iid_dense"
    BY DEF ClaimIsStructured
  <2>1. ~ClaimRefused(cli, cfg, valid) /\ (valid <=> StructureValid(cfg))
        /\ layout = LayoutOf(cfg.n, Sizes)
    BY DEF StartInv
  <2>2. valid /\ StreamMode(cfg.streamMode) # "iid_dense"
    BY <2>1 DEF ClaimRefused
  <2>3. Len(cfg.sizes) = cfg.B /\ Sizes = cfg.sizes
    BY <2>1, <2>2 DEF StructureValid, Sizes
  <2>4. layout.sizes = cfg.sizes /\ layout.B = Len(cfg.sizes)
    BY <2>1, <2>3 DEF LayoutOf
  <2> QED
    BY <2>2, <2>3, <2>4 DEF ForceFullRescan
<1> QED
  BY <1>1, StartInvariant, PTL

\* What the generators make satisfies validate_structure_contract.
THEOREM ContractAlwaysHolds == Spec => []ContractHolds
<1>1. StartInv => ContractHolds
  <2> SUFFICES ASSUME StartInv, pc = "running" PROVE ContractOk(local, global)
    BY DEF ContractHolds
  <2>1. /\ LaysOut(cfg.n, Sizes) /\ layout = LayoutOf(cfg.n, Sizes)
        /\ local = LocalConstraints(layout, cfg.mLocal)
        /\ cfg.mGlobal >= 0 /\ global = GlobalConstraints(cfg.n, cfg.mGlobal)
    BY DEF StartInv
  <2>2. LayoutOk(layout) /\ layout.n = cfg.n
    BY <2>1 DEF LaysOut, LayoutOf
  <2>3. /\ local.layout = layout /\ local.mLocal = cfg.mLocal
        /\ local.blocks = [b \in 0 .. layout.B - 1 |->
                            [rows |-> cfg.mLocal, cols |-> SizeOf(layout, b)]]
    BY <2>1 DEF LocalConstraints
  <2>4. global.n = cfg.n /\ global.mGlobal = cfg.mGlobal /\ global.rows = cfg.mGlobal
    BY <2>1 DEF GlobalConstraints
  <2> QED
    BY <2>1, <2>2, <2>3, <2>4 DEF ContractOk
<1> QED
  BY <1>1, StartInvariant, PTL

\* Dividing by the rows of a block inverts numbering the rows block by block.
LEMMA DivisionDecodes ==
    ASSUME NEW m \in Nat \ {0}, NEW b \in Nat, NEW i \in 0 .. m - 1
    PROVE  (b * m + i) \div m = b /\ (b * m + i) % m = i
<1>1. b * m \in Nat /\ i \in Nat
  BY SMT
<1>2. PICK id \in Nat : id = b * m + i
  BY <1>1
<1>3. id = m * (id \div m) + (id % m) /\ id % m \in 0 .. m - 1 /\ id \div m \in Int
  BY <1>2, SMT
<1>4. id \div m = b
  BY <1>2, <1>3, SMT
<1> QED
  BY <1>2, <1>3, <1>4, SMT

\* An id below the number of rows belongs to one of the blocks.
LEMMA DivisionStaysBelow ==
    ASSUME NEW m \in Nat \ {0}, NEW B \in Nat, NEW id \in 0 .. B * m - 1
    PROVE  id \div m \in 0 .. B - 1 /\ id % m < m
<1>1. id = m * (id \div m) + (id % m) /\ id % m \in 0 .. m - 1 /\ id \div m \in Nat
  BY SMT
<1>2. id \div m < B
  <2> SUFFICES ASSUME id \div m >= B PROVE FALSE
    BY <1>1, SMT
  <2>1. m * (id \div m) >= m * B
    BY <1>1, SMT
  <2> QED
    BY <1>1, <2>1, SMT
<1> QED
  BY <1>1, <1>2, SMT

\* Constraint ids decode to the block and row they were made of.
THEOREM IdsAlwaysDecode == Spec => []IdsDecode
<1>1. StartInv => IdsDecode
  <2> SUFFICES ASSUME StartInv, pc = "running" PROVE IdsDecode
    BY DEF IdsDecode
  <2>1. /\ cfg \in Configs /\ layout = LayoutOf(cfg.n, Sizes)
        /\ cfg.mLocal > 0 /\ local = LocalConstraints(layout, cfg.mLocal)
        /\ global = GlobalConstraints(cfg.n, cfg.mGlobal) /\ rhs = RhsOf(local, global)
    BY DEF StartInv
  <2>2. cfg.mLocal \in Nat \ {0} /\ layout.B \in Nat
    <3>1. Sizes \in Seq(Int)
      BY <2>1, StartupAssumption DEF Sizes
    <3>2. Len(Sizes) \in Nat /\ layout.B = Len(Sizes)
      BY <2>1, <3>1 DEF LayoutOf
    <3> QED
      BY <2>1, <3>2, StartupAssumption
  <2> DEFINE m == cfg.mLocal
             B == layout.B
  <2>3. /\ local.mLocal = m /\ local.layout.B = B
        /\ local.rowIdBase = [b \in 0 .. B - 1 |-> b * m]
    BY <2>1 DEF LocalConstraints, RowIdBase
  <2>4. rhs.local = [b \in 0 .. B - 1 |-> [rows |-> m]] /\ rhs.global = global.rows
    BY <2>1, <2>3 DEF RhsOf, GlobalConstraints
  <2> HIDE DEF m, B
  <2>5. m \in Nat \ {0} /\ B \in Nat
    BY <2>2 DEF m, B
  <2>6. \A b \in 0 .. B - 1 : \A i \in 0 .. m - 1 :
            /\ (local.rowIdBase[b] + i) \div m = b
            /\ (local.rowIdBase[b] + i) % m = i
    <3> TAKE b \in 0 .. B - 1
    <3> TAKE i \in 0 .. m - 1
    <3>1. b \in Nat /\ local.rowIdBase[b] = b * m
      BY <2>3, <2>5
    <3> QED
      BY <2>5, <3>1, DivisionDecodes
  <2>7. \A id \in 0 .. B * m - 1 :
            id \div m \in DOMAIN rhs.local /\ id % m < rhs.local[id \div m].rows
    <3> TAKE id \in 0 .. B * m - 1
    <3>1. id \div m \in 0 .. B - 1 /\ id % m < m
      BY <2>5, DivisionStaysBelow
    <3>2. DOMAIN rhs.local = 0 .. B - 1 /\ rhs.local[id \div m] = [rows |-> m]
      BY <2>4, <3>1
    <3> QED
      BY <3>1, <3>2
  <2> QED
    BY <2>3, <2>4, <2>6, <2>7 DEF IdsDecode
<1> QED
  BY <1>1, StartInvariant, PTL

\* The validator and the layout builder agree on what can be laid out.
LEMMA LaysOutIffVariables ==
    StartInv /\ pc # "load" => (cfg.n > 0 => LaysOut(cfg.n, Sizes)) /\ (valid => cfg.n > 0)
<1> SUFFICES ASSUME StartInv, pc # "load"
             PROVE  (cfg.n > 0 => LaysOut(cfg.n, Sizes)) /\ (valid => cfg.n > 0)
  OBVIOUS
<1>1. cfg.n \in Int /\ cfg.sizes \in Seq(Int) /\ (valid <=> StructureValid(cfg))
  BY StartupAssumption DEF StartInv
<1>2. CASE valid
  <2>1. AllPositive(cfg.sizes) /\ Sum(cfg.sizes) = cfg.n /\ cfg.sizes # <<>>
    BY <1>1, <1>2 DEF StructureValid
  <2> QED
    BY <1>1, <1>2, <2>1, PositiveSizesLayOut DEF Sizes
<1>3. CASE ~valid /\ cfg.n > 0
  <2>1. AllPositive(<<cfg.n>>)
    BY <1>1, <1>3 DEF AllPositive
  <2> QED
    BY <1>1, <1>3, <2>1, SingleBlock, PositiveSizesLayOut DEF Sizes
<1> QED
  BY <1>2, <1>3

\* Exit code 3 means that there are no variables: where the validator accepts a structure
\* the layout builder does, and one block of n > 0 variables can always be laid out.
THEOREM ExitsOnlyWithoutVariables == Spec => []ExitOnlyWithoutVariables
<1>1. StartInv => ExitOnlyWithoutVariables
  <2> SUFFICES ASSUME StartInv, pc = "exit3" PROVE cfg.n <= 0
    BY DEF ExitOnlyWithoutVariables
  <2>1. ~LaysOut(cfg.n, Sizes) /\ cfg.n \in Int
    BY StartupAssumption DEF StartInv
  <2> QED
    BY <2>1, LaysOutIffVariables
<1> QED
  BY <1>1, StartInvariant, PTL

\* A structure that validate_structure_from_config passes gets through make_block_layout
\* and both generators.
THEOREM ValidStructuresRun == Spec => []ValidRuns
<1>1. StartInv => ValidRuns
  <2> SUFFICES ASSUME StartInv, valid, pc \in {"exit3", "aborted"} PROVE FALSE
    BY DEF ValidRuns
  <2>1. StructureValid(cfg) /\ pc # "load"
    BY DEF StartInv
  <2>2. pc # "aborted"
    BY <2>1, StartupAssumption DEF StartInv, StructureValid
  <2>3. pc # "exit3"
    BY <2>1, LaysOutIffVariables DEF StartInv
  <2> QED
    BY <2>2, <2>3
<1> QED
  BY <1>1, StartInvariant, PTL

\* In a layout made of positive sizes the owner of a variable is the block whose range it is in.
LEMMA OwnersMatchRanges ==
    ASSUME NEW n \in Int, NEW sizes \in Seq(Int), AllPositive(sizes),
           NEW j \in 0 .. n - 1, NEW b \in 0 .. Len(sizes) - 1
    PROVE  LET lay == LayoutOf(n, sizes)
           IN  lay.varToBlock[j] = b <=>
                  j \in OffsetOf(lay, b) .. OffsetOf(lay, b) + SizeOf(lay, b) - 1
<1> DEFINE N == Len(sizes)
           lay == LayoutOf(n, sizes)
<1>1. PICK P : PrefixSums(sizes, P)
  BY SumOfSizes
<1>2. /\ lay.sizes = sizes
      /\ \A i \in 1 .. N : lay.offsets[i] = P[i - 1]
      /\ lay.varToBlock[j] = b <=> P[b] <= j /\ j < P[b + 1]
  BY <1>1, LayoutPlaced
<1>3. N \in Nat /\ b + 1 \in 1 .. N /\ b + 1 - 1 = b /\ b \in 0 .. N
  OBVIOUS
<1>4. P \in [0 .. N -> Int] /\ P[b + 1] = P[b + 1 - 1] + sizes[b + 1]
  BY <1>1, <1>3 DEF PrefixSums
<1>5. sizes[b + 1] \in Int
  BY <1>3
<1> HIDE DEF lay, N
<1>6. OffsetOf(lay, b) = P[b] /\ SizeOf(lay, b) = sizes[b + 1]
  BY <1>2, <1>3 DEF OffsetOf, SizeOf
<1>7. P[b] \in Int /\ P[b + 1] = P[b] + sizes[b + 1] /\ j \in Int
  BY <1>3, <1>4
<1>8. j \in P[b] .. P[b] + sizes[b + 1] - 1 <=> P[b] <= j /\ j < P[b + 1]
  BY <1>5, <1>7
<1> QED
  BY <1>2, <1>6, <1>8 DEF lay

\* The blocks of a layout partition the variables: var_to_block and block_offsets, which
\* make_block_layout fills in one loop, say the same.
THEOREM LayoutsPartition == Spec => []LayoutPartitions
<1>1. StartInv => LayoutPartitions
  <2> SUFFICES ASSUME StartInv, layout # <<>> PROVE LayoutPartitions
    BY DEF LayoutPartitions
  <2>1. LaysOut(cfg.n, Sizes) /\ layout = LayoutOf(cfg.n, Sizes)
    BY DEF StartInv
  <2>2. cfg.n \in Int /\ Sizes \in Seq(Int) /\ AllPositive(Sizes)
    BY <2>1, StartupAssumption DEF StartInv, Sizes, LaysOut
  <2>3. layout.n = cfg.n /\ layout.B = Len(Sizes)
    BY <2>1 DEF LayoutOf
  <2> QED
    BY <2>1, <2>2, <2>3, OwnersMatchRanges DEF LayoutPartitions
<1> QED
  BY <1>1, StartInvariant, PTL
=============================================================================
