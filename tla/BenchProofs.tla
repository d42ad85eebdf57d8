---------------------------- MODULE BenchProofs ----------------------------
(***************************************************************************)
(* Proofs about Stream and Bench, for every system, stream, option set and *)
(* number of ticks. The proposals of a stream stay in their range, and the *)
(* blocks it does not report only drift towards zero. The stream and the   *)
(* projector that the bench drives are those of their modules, whose       *)
(* theorems therefore hold here; a structured run scans all rows exactly   *)
(* in its first tick; a claim that passes rests on the evidence it needs;  *)
(* the scans of a run that is rescanned throughout count refused calls     *)
(* only; and the samples and burst ticks that are counted are those of the *)
(* schedule.                                                               *)
(***************************************************************************)
EXTENDS Bench, ProjectorProofs

-----------------------------------------------------------------------------
\* The stream.

\* (p * a) / d, rounded down, times d is at most p * a.
LEMMA FloorProduct ==
    ASSUME NEW d \in Nat \ {0}, NEW p \in Nat, NEW a \in Nat
    PROVE  /\ (p * a) \div d \in Nat
           /\ d * ((p * a) \div d) <= p * a
<1> DEFINE n == p * a
<1>1. n \in Nat
    OBVIOUS
<1>2. ASSUME NEW m \in Nat
      PROVE  m \div d \in Nat /\ d * (m \div d) <= m
    OBVIOUS
<1>3. n \div d \in Nat /\ d * (n \div d) <= n
    BY <1>1, <1>2
<1> QED
    BY <1>3

\* Dividing both sides by a positive factor.
LEMMA Cancel ==
    ASSUME NEW d \in Nat \ {0}, NEW a \in Int, NEW b \in Int, d * a <= d * b
    PROVE  a <= b
<1>1. SUFFICES ASSUME a > b PROVE FALSE
    OBVIOUS
<1>2. a - b \in Nat \ {0}
    BY <1>1
<1>3. d * (a - b) > 0
    BY <1>2
<1>4. d * (a - b) = d * a - d * b
    OBVIOUS
<1> QED
    BY <1>3, <1>4

\* What the drift does to a coordinate: it keeps the sign and scales the size.
LEMMA DriftScales ==
    ASSUME NEW c \in StreamConfig, NEW x \in Int
    PROVE  /\ Drift(c, x) \in Int
           /\ c.rhoDen * Abs(Drift(c, x)) <= c.rhoNum * Abs(x)
           /\ x >= 0 => Drift(c, x) >= 0
           /\ x <= 0 => Drift(c, x) <= 0
<1>1. c.rhoNum \in Nat /\ c.rhoDen \in Nat \ {0}
    BY DEF StreamConfig
<1>2. CASE x >= 0
  <2>1. /\ (c.rhoNum * x) \div c.rhoDen \in Nat
        /\ c.rhoDen * ((c.rhoNum * x) \div c.rhoDen) <= c.rhoNum * x
    BY <1>1, <1>2, FloorProduct
  <2>2. CASE x = 0
    <3>1. c.rhoDen * ((c.rhoNum * x) \div c.rhoDen) <= c.rhoDen * 0
      BY <2>1, <2>2, <1>1
    <3>2. (c.rhoNum * x) \div c.rhoDen <= 0
      BY <3>1, <2>1, <1>1, Cancel
    <3> QED
      BY <3>2, <2>1, <2>2, <1>1 DEF Drift, Abs
  <2>3. CASE x # 0
    BY <2>1, <2>3, <1>1, <1>2 DEF Drift, Abs
  <2> QED
    BY <2>2, <2>3
<1>3. CASE x < 0
  <2>1. /\ (c.rhoNum * (-x)) \div c.rhoDen \in Nat
        /\ c.rhoDen * ((c.rhoNum * (-x)) \div c.rhoDen) <= c.rhoNum * (-x)
    BY <1>1, <1>3, FloorProduct
  <2>2. Drift(c, x) = -((c.rhoNum * (-x)) \div c.rhoDen) /\ Abs(x) = -x
    BY <1>3 DEF Drift, Abs
  <2>3. Abs(Drift(c, x)) = (c.rhoNum * (-x)) \div c.rhoDen
    BY <2>1, <2>2 DEF Abs
  <2> QED
    BY <2>1, <2>2, <2>3, <1>1, <1>3
<1> QED
    BY <1>2, <1>3

\* A drift with rho at most 1 never grows a coordinate.
LEMMA DriftShrinks ==
    ASSUME NEW c \in StreamConfig, NEW x \in Int, c.rhoNum <= c.rhoDen
    PROVE  Abs(Drift(c, x)) <= Abs(x)
<1>1. c.rhoNum \in Nat /\ c.rhoDen \in Nat \ {0}
    BY DEF StreamConfig
<1>2. Abs(x) \in Nat /\ Abs(Drift(c, x)) \in Nat
    BY DriftScales DEF Abs
<1>3. c.rhoNum * Abs(x) <= c.rhoDen * Abs(x)
  <2>1. (c.rhoDen - c.rhoNum) * Abs(x) >= 0
    BY <1>1, <1>2
  <2>2. (c.rhoDen - c.rhoNum) * Abs(x) = c.rhoDen * Abs(x) - c.rhoNum * Abs(x)
    BY <1>1, <1>2
  <2> QED
    BY <2>1, <2>2, <1>1, <1>2
<1>4. c.rhoDen * Abs(Drift(c, x)) <= c.rhoDen * Abs(x)
    BY <1>1, <1>2, <1>3, DriftScales
<1> QED
    BY <1>1, <1>2, <1>4, Cancel

\* One step of the recurrence y <= rho * x + m stays below its fixed point.
LEMMA Contracts ==
    ASSUME NEW d \in Nat \ {0}, NEW p \in Nat, p < d, NEW x \in Nat, NEW y \in Nat, NEW m \in Nat,
           d * y <= p * x + d * m,
           (d - p) * x <= d * m
    PROVE  (d - p) * y <= d * m
<1> DEFINE e == d - p
<1>1. e \in Nat \ {0}
    OBVIOUS
<1>2. e * (d * y) <= e * (p * x + d * m)
    BY <1>1
<1>3. p * (e * x) <= p * (d * m)
    OBVIOUS
<1>4. d * (e * y) <= p * (e * x) + e * (d * m)
    BY <1>1, <1>2
<1>5. d * (e * y) <= p * (d * m) + e * (d * m)
    BY <1>1, <1>3, <1>4
<1>6. p * (d * m) + e * (d * m) = d * (d * m)
    OBVIOUS
<1>7. e * y \in Int /\ d * m \in Int
    BY <1>1
<1> QED
    BY <1>5, <1>6, <1>7, Cancel

-----------------------------------------------------------------------------
\* The noise of a tick is at most MaxAmplitude.

\* The largest of five numbers bounds all of them.
LEMMA LargestIsBound ==
    ASSUME NEW a \in Int, NEW b \in Int, NEW d \in Int, NEW e \in Int
    PROVE  LET m == Largest({0, a, b, d, e})
           IN  m \in Int /\ \A y \in {0, a, b, d, e} : y <= m
<1> DEFINE S == {0, a, b, d, e}
<1>1. \E x \in S : \A y \in S : y <= x
    OBVIOUS
<1>2. Largest(S) \in S /\ \A y \in S : y <= Largest(S)
    BY <1>1 DEF Largest
<1> QED
    BY <1>2

\* No tick has more noise than the largest amplitude of its configuration.
LEMMA AmplitudeBounded ==
    ASSUME NEW c \in StreamConfig, NEW n \in Nat, NEW u \in Nat
    PROVE  /\ MaxAmplitude(c) \in Nat
           /\ Amplitude(c, n, u) \in 0 .. MaxAmplitude(c)
<1>1. /\ c.deltaSmall \in Int /\ c.deltaJump \in Int
      /\ c.deltaBurst \in Int /\ c.deltaJumpInBurst \in Int
    BY DEF StreamConfig
<1>2. /\ MaxAmplitude(c) \in Int
      /\ \A y \in {0, c.deltaSmall, c.deltaJump, c.deltaBurst, c.deltaJumpInBurst} :
            y <= MaxAmplitude(c)
    BY <1>1, LargestIsBound DEF MaxAmplitude
<1>3. Churn(c, n, u).delta \in {c.deltaSmall, c.deltaJump, c.deltaBurst, c.deltaJumpInBurst}
    BY DEF Churn
<1> QED
    BY <1>1, <1>2, <1>3 DEF Amplitude

-----------------------------------------------------------------------------

Typed == streamCfg \in StreamConfig /\ drawn \in [StreamBlocks -> Int]

\* A coordinate stays a number.
LEMMA MovedIsInt ==
    ASSUME NEW c \in StreamConfig, NEW x \in Int, NEW n \in Int
    PROVE  NextPart(c, x, n) \in Int
<1>1. c.clampInf \in Int /\ Drift(c, x) \in Int
    BY DriftScales DEF StreamConfig
<1> QED
    BY <1>1 DEF NextPart, Clamped, Between

\* A correlated tick gives every block some noise of at most the amplitude, and none
\* to a block that it does not report.
LEMMA CorrelatedMoves ==
    ASSUME Typed, NEW tick \in Nat, NEW u \in Nat, CorrelatedTick(tick, u)
    PROVE  /\ drawn' \in [StreamBlocks -> Int]
           /\ \A b \in StreamBlocks : \E n \in -Amplitude(streamCfg, tick, u) .. Amplitude(streamCfg, tick, u) :
                 /\ drawn'[b] = NextPart(streamCfg, drawn[b], n)
                 /\ b \notin changed' => n = 0
<1> DEFINE A == Amplitude(streamCfg, tick, u)
<1>1. A \in Nat
  <2>1. MaxAmplitude(streamCfg) \in Nat /\ A \in 0 .. MaxAmplitude(streamCfg)
    BY AmplitudeBounded DEF Typed
  <2> QED
    BY <2>1
<1>2. PICK noise \in [changed' -> -A .. A] :
        drawn' = [b \in StreamBlocks |->
                    NextPart(streamCfg, drawn[b], IF b \in changed' THEN noise[b] ELSE 0)]
    BY DEF CorrelatedTick
<1>3. ASSUME NEW b \in StreamBlocks
      PROVE  \E n \in -A .. A : /\ drawn'[b] = NextPart(streamCfg, drawn[b], n)
                                /\ b \notin changed' => n = 0
  <2> DEFINE n == IF b \in changed' THEN noise[b] ELSE 0
  <2>1. n \in -A .. A /\ (b \notin changed' => n = 0)
    BY <1>1, <1>2
  <2>2. drawn'[b] = NextPart(streamCfg, drawn[b], n)
    BY <1>2
  <2> QED
    BY <2>1, <2>2
<1>4. ASSUME NEW b \in StreamBlocks PROVE drawn'[b] \in Int
  <2>1. PICK n \in -A .. A : drawn'[b] = NextPart(streamCfg, drawn[b], n)
    BY <1>3
  <2>2. n \in Int /\ drawn[b] \in Int
    BY <1>1 DEF Typed
  <2> QED
    BY <2>1, <2>2, MovedIsInt DEF Typed
<1>5. drawn' = [b \in StreamBlocks |-> drawn'[b]]
    BY <1>2
<1> QED
    BY <1>3, <1>4, <1>5

\* A dense tick draws every coordinate within one of the two reaches.
LEMMA DenseMoves ==
    ASSUME Typed, NEW u \in Nat, DenseTick(u)
    PROVE  /\ drawn' \in [StreamBlocks -> Int]
           /\ \A b \in StreamBlocks : Abs(drawn'[b]) <= streamCfg.qSmall \/ Abs(drawn'[b]) <= streamCfg.qBig
<1> DEFINE reach == IF u < streamCfg.pBig THEN streamCfg.qBig ELSE streamCfg.qSmall
<1>1. reach \in Nat /\ streamCfg.qBig \in Nat /\ streamCfg.qSmall \in Nat
    BY DEF Typed, StreamConfig
<1>2. drawn' \in [StreamBlocks -> -reach .. reach]
    BY DEF DenseTick
<1>3. -reach .. reach \subseteq Int
    BY <1>1
<1>4. ASSUME NEW b \in StreamBlocks PROVE Abs(drawn'[b]) <= reach
    BY <1>1, <1>2 DEF Abs
<1> HIDE DEF reach
<1>5. drawn' \in [StreamBlocks -> Int]
    BY <1>2, <1>3
<1>6. reach = streamCfg.qSmall \/ reach = streamCfg.qBig
    BY DEF reach
<1> QED
    BY <1>4, <1>5, <1>6

\* The stream keeps its configuration and numbers in every block.
LEMMA TypeInvariance == StreamSpec => []Typed
<1>1. StreamInit => Typed
    BY StreamAssumption DEF StreamInit, Typed
<1>2. Typed /\ [StreamNext]_streamVars => Typed'
  <2> SUFFICES ASSUME Typed, [StreamNext]_streamVars PROVE Typed'
    OBVIOUS
  <2>1. CASE UNCHANGED streamVars
    BY <2>1 DEF streamVars, Typed
  <2>2. ASSUME StreamNext PROVE Typed'
    <3>1. PICK tick \in Nat, u \in 0 .. UDen - 1 : DenseTick(u) \/ CorrelatedTick(tick, u)
      BY <2>2 DEF StreamNext, NextProposal
    <3>2. u \in Nat
      BY StreamAssumption
    <3>3. streamCfg' = streamCfg /\ tick' \in Nat
      BY <2>2, <3>1 DEF StreamNext, DenseTick, CorrelatedTick, Typed
    <3> QED
      BY <3>1, <3>2, <3>3, DenseMoves, CorrelatedMoves DEF Typed
  <2> QED
    BY <2>1, <2>2
<1> QED
    BY <1>1, <1>2, PTL DEF StreamSpec

-----------------------------------------------------------------------------
\* The range of one coordinate.

\* Drift, noise and clamp keep a coordinate below the clamp and below the fixed point.
LEMMA MovedInRange ==
    ASSUME NEW c \in StreamConfig, NEW x \in Int, NEW m \in Nat, NEW n \in -m .. m
    PROVE  /\ c.clampInf > 0 => Abs(NextPart(c, x, n)) <= c.clampInf
           /\ c.rhoNum < c.rhoDen /\ (c.rhoDen - c.rhoNum) * Abs(x) <= c.rhoDen * m
              => (c.rhoDen - c.rhoNum) * Abs(NextPart(c, x, n)) <= c.rhoDen * m
<1> DEFINE d == c.rhoDen
           p == c.rhoNum
           y == NextPart(c, x, n)
           z == Drift(c, x)
<1>1. p \in Nat /\ d \in Nat \ {0} /\ c.clampInf \in Int
    BY DEF StreamConfig
<1>2. z \in Int /\ d * Abs(z) <= p * Abs(x)
    BY DriftScales
<1>3. y \in Int /\ (c.clampInf > 0 => Abs(y) <= c.clampInf)
    BY <1>1, <1>2 DEF NextPart, Clamped, Between, Abs
<1>4. Abs(y) <= Abs(z) + m
    BY <1>1, <1>2 DEF NextPart, Clamped, Between, Abs
<1>5. Abs(x) \in Nat /\ Abs(y) \in Nat /\ Abs(z) \in Nat
    BY <1>2, <1>3 DEF Abs
<1> HIDE DEF y, z
<1>6. d * Abs(y) <= d * (Abs(z) + m)
  <2> DEFINE k == Abs(z) + m - Abs(y)
  <2>1. k \in Nat
    BY <1>4, <1>5
  <2>2. d * k \in Nat
    BY <1>1, <2>1
  <2>3. d * k = d * (Abs(z) + m) - d * Abs(y)
    BY <1>1, <1>5
  <2> QED
    BY <1>1, <1>5, <2>2, <2>3
<1>7. d * (Abs(z) + m) = d * Abs(z) + d * m
    BY <1>1, <1>5
<1>8. d * Abs(y) <= p * Abs(x) + d * m
    BY <1>1, <1>2, <1>5, <1>6, <1>7
<1>9. p < d /\ (d - p) * Abs(x) <= d * m => (d - p) * Abs(y) <= d * m
    BY <1>1, <1>5, <1>8, Contracts
<1> QED
    BY <1>3, <1>9 DEF y

\* Proposals never leave their range (CorrelatedBlockSparseStream::next).
THEOREM ProposalsStayBounded == StreamSpec => []ProposalsBounded
<1>1. StreamInit /\ Typed => ProposalsBounded
  <2> SUFFICES ASSUME StreamInit, Typed, NEW b \in StreamBlocks
               PROVE  LET x == Abs(drawn[b])
                      IN  IF Mode(streamCfg) = "iid_dense" THEN x <= streamCfg.qSmall \/ x <= streamCfg.qBig
                          ELSE /\ streamCfg.clampInf > 0 => x <= streamCfg.clampInf
                               /\ streamCfg.rhoNum < streamCfg.rhoDen =>
                                    (streamCfg.rhoDen - streamCfg.rhoNum) * x <= streamCfg.rhoDen * MaxAmplitude(streamCfg)
    BY DEF ProposalsBounded
  <2>1. Abs(drawn[b]) = 0
    BY DEF StreamInit, Abs
  <2>2. /\ streamCfg.qSmall \in Nat /\ streamCfg.rhoNum \in Nat /\ streamCfg.rhoDen \in Nat
        /\ streamCfg.clampInf \in Int /\ MaxAmplitude(streamCfg) \in Nat
    BY AmplitudeBounded DEF Typed, StreamConfig
  <2>3. streamCfg.rhoDen * MaxAmplitude(streamCfg) >= 0
    BY <2>2
  <2> QED
    BY <2>1, <2>2, <2>3
<1>2. ProposalsBounded /\ Typed /\ [StreamNext]_streamVars => ProposalsBounded'
  <2> SUFFICES ASSUME ProposalsBounded, Typed, [StreamNext]_streamVars PROVE ProposalsBounded'
    OBVIOUS
  <2>1. CASE UNCHANGED streamVars
    BY <2>1 DEF streamVars, ProposalsBounded
  <2>2. CASE StreamNext
    <3>1. PICK tick \in Nat, u \in 0 .. UDen - 1 : DenseTick(u) \/ CorrelatedTick(tick, u)
      BY <2>2 DEF StreamNext, NextProposal
    <3>2. u \in Nat /\ streamCfg' = streamCfg
      BY <3>1, StreamAssumption DEF DenseTick, CorrelatedTick
    <3>3. CASE DenseTick(u)
      BY <3>2, <3>3, DenseMoves DEF ProposalsBounded, DenseTick
    <3>4. CASE CorrelatedTick(tick, u)
      <4> SUFFICES ASSUME NEW b \in StreamBlocks
                   PROVE  LET x == Abs(drawn'[b])
                          IN  /\ streamCfg.clampInf > 0 => x <= streamCfg.clampInf
                              /\ streamCfg.rhoNum < streamCfg.rhoDen =>
                                    (streamCfg.rhoDen - streamCfg.rhoNum) * x <= streamCfg.rhoDen * MaxAmplitude(streamCfg)
        BY <3>2, <3>4 DEF ProposalsBounded, CorrelatedTick
      <4>1. Amplitude(streamCfg, tick, u) \in 0 .. MaxAmplitude(streamCfg) /\ MaxAmplitude(streamCfg) \in Nat
        BY <3>2, AmplitudeBounded DEF Typed
      <4>2. PICK n \in -Amplitude(streamCfg, tick, u) .. Amplitude(streamCfg, tick, u) :
                drawn'[b] = NextPart(streamCfg, drawn[b], n)
        BY <3>2, <3>4, CorrelatedMoves
      <4>3. n \in -MaxAmplitude(streamCfg) .. MaxAmplitude(streamCfg) /\ drawn[b] \in Int
        BY <4>1 DEF Typed
      <4>4. streamCfg.rhoNum < streamCfg.rhoDen =>
                (streamCfg.rhoDen - streamCfg.rhoNum) * Abs(drawn[b]) <= streamCfg.rhoDen * MaxAmplitude(streamCfg)
        BY <3>4 DEF ProposalsBounded, CorrelatedTick
      <4> QED
        BY <4>1, <4>2, <4>3, <4>4, MovedInRange DEF Typed
    <3> QED
      BY <3>1, <3>3, <3>4
  <2> QED
    BY <2>1, <2>2
<1> QED
    BY <1>1, <1>2, TypeInvariance, PTL DEF StreamSpec

\* A block that a tick does not report drifts towards zero and never across it
\* (the drift of next and its changed_blocks_out).
THEOREM UnreportedDrift == StreamSpec => UnreportedOnlyDrift
<1> DEFINE Drifts == \A b \in StreamBlocks \ changed' : streamCfg.rhoNum <= streamCfg.rhoDen =>
                        /\ Abs(drawn'[b]) <= Abs(drawn[b])
                        /\ drawn'[b] * drawn[b] >= 0
<1>1. Typed /\ [StreamNext]_streamVars => [Drifts]_streamVars
  <2> SUFFICES ASSUME Typed, StreamNext PROVE Drifts
    OBVIOUS
  <2> SUFFICES ASSUME NEW b \in StreamBlocks \ changed', streamCfg.rhoNum <= streamCfg.rhoDen
               PROVE  /\ Abs(drawn'[b]) <= Abs(drawn[b])
                      /\ drawn'[b] * drawn[b] >= 0
    OBVIOUS
  <2>1. PICK tick \in Nat, u \in 0 .. UDen - 1 : DenseTick(u) \/ CorrelatedTick(tick, u)
    BY DEF StreamNext, NextProposal
  <2>2. u \in Nat /\ CorrelatedTick(tick, u)
    BY <2>1, StreamAssumption DEF DenseTick
  <2>3. drawn'[b] = NextPart(streamCfg, drawn[b], 0) /\ drawn[b] \in Int
    BY <2>2, CorrelatedMoves DEF Typed
  <2> DEFINE x == drawn[b]
             z == Drift(streamCfg, x)
             y == Clamped(streamCfg, z + 0)
  <2>4. /\ z \in Int /\ (x >= 0 => z >= 0) /\ (x <= 0 => z <= 0)
        /\ Abs(z) <= Abs(x)
    BY <2>3, DriftScales, DriftShrinks DEF Typed
  <2>5. streamCfg.clampInf \in Int
    BY DEF Typed, StreamConfig
  <2> HIDE DEF z
  <2>6. y \in Int /\ Abs(y) <= Abs(z) /\ (z >= 0 => y >= 0) /\ (z <= 0 => y <= 0)
    BY <2>4, <2>5 DEF Clamped, Between, Abs
  <2>7. drawn'[b] = y
    BY <2>3 DEF NextPart, z
  <2> HIDE DEF y
  <2>8. Abs(x) \in Int /\ Abs(y) \in Int /\ Abs(z) \in Int
    BY <2>3, <2>4, <2>6 DEF Abs
  <2>9. y * x >= 0
    <3>1. CASE x >= 0
      BY <2>3, <2>4, <2>6, <3>1
    <3>2. CASE x < 0
      <4>1. -y \in Nat /\ -x \in Nat
        BY <2>3, <2>4, <2>6, <3>2
      <4>2. (-y) * (-x) \in Nat /\ (-y) * (-x) = y * x
        BY <4>1, <2>3, <2>6
      <4> QED
        BY <4>2
    <3> QED
      BY <2>3, <3>1, <3>2
  <2> QED
    BY <2>4, <2>6, <2>7, <2>8, <2>9
<1> QED
    BY <1>1, TypeInvariance, PTL DEF StreamSpec, UnreportedOnlyDrift

-----------------------------------------------------------------------------
\* The bench.

\* No turn of the projector's loop, however it ends, forgets that there was a tick or
\* touches the options.
LEMMA LoopKeepsHistory == Loop => UNCHANGED <<opts, havePrev>>
<1> SUFFICES ASSUME Loop PROVE opts' = opts /\ havePrev' = havePrev
  OBVIOUS
<1>1. ASSUME NEW mask, NEW synced, FallbackToAnchor(mask, synced)
      PROVE  opts' = opts /\ havePrev' = havePrev
  BY <1>1 DEF FallbackToAnchor, settingVars
<1>2. ASSUME NEW f, Accept(f) \/ RefuseSilently(f) \/ RefuseToFallback(f)
      PROVE  opts' = opts /\ havePrev' = havePrev
  BY <1>1, <1>2 DEF Accept, RefuseSilently, RefuseToFallback, settingVars
<1>3. ASSUME NEW list, NEW f, NEW i, NEW mask, NEW synced, NEW entered,
             Drop(list, f, i, mask, synced, entered)
      PROVE  opts' = opts /\ havePrev' = havePrev
  BY <1>3 DEF Drop, settingVars
<1>4. CASE Finish
  BY <1>2, <1>4 DEF Finish
<1>5. CASE FinishSolveFails \/ EnterRejected \/ EnterSolveFails \/ BudgetExhausted
  BY <1>1, <1>5 DEF FinishSolveFails, EnterRejected, EnterSolveFails, BudgetExhausted
<1>6. CASE DropAtConvergence
  BY <1>3, <1>6 DEF DropAtConvergence
<1>7. CASE EnterDrop
  BY <1>3, <1>7 DEF EnterDrop
<1>8. CASE EnterMove
  BY <1>8 DEF EnterMove, settingVars
<1> QED
  BY <1>4, <1>5, <1>6, <1>7, <1>8 DEF Loop

Phases == {"setup", "warmup", "latency", "feas", "judge", "judged", "decided"}

\* A tick of the run has been started.
Begun == \/ phase = "warmup" /\ (t > 0 \/ running)
         \/ phase \notin {"setup", "warmup"} /\ (plan.warmup > 0 \/ t > 0 \/ running)

\* The tick counter stays within its phase and ends where the longer phase ends.
TicksInPhase ==
    /\ plan \in Plans /\ phase \in Phases /\ t \in Nat /\ running \in BOOLEAN
    /\ phase = "setup" => t = 0 /\ ~running
    /\ phase = "warmup" => t <= plan.warmup /\ (running => t < plan.warmup)
    /\ phase = "latency" => t <= plan.latency /\ (running => t < plan.latency)
    /\ phase = "feas" => /\ plan.latency <= t
                         /\ t <= Larger(plan.latency, plan.feas)
                         /\ running => t < plan.feas
    /\ phase \in {"judge", "judged", "decided"} =>
            t = Larger(plan.latency, plan.feas) /\ ~running

\* The full scans counted so far: the structured run's only one came with its first tick.
ScansCounted ==
    /\ structured => /\ ~opts.forceFullRescan
                     /\ Begun => havePrev /\ initCalls = 1
                     /\ ~Begun => ~havePrev /\ initCalls = 0

\* The gates are those of the state, and the verdict is drawn from them.
Judged ==
    phase \in {"judged", "decided"} =>
        /\ gates.g6 = G6
        /\ gates.g2 = g2Violations
        /\ gates.gStream = GStream
        /\ osqpAvailable => gates.g4 = G4Close
        /\ ~osqpAvailable => gates.g4Status = "SKIPPED"
        /\ args.claim => structured

Decided ==
    phase = "decided" /\ passed /\ args.claim =>
        gates.g2 = 0 /\ gates.g6 /\ gates.gStream /\ G4Accepted

BInv == TicksInPhase /\ ScansCounted /\ Judged /\ Decided

-----------------------------------------------------------------------------

\* The plans are numbers of ticks.
LEMMA PlanNumbers ==
  ASSUME NEW p \in Plans
  PROVE  p.warmup \in Nat /\ p.latency \in Nat /\ p.feas \in Nat
  BY BenchAssumption

\* A run starts before its first tick and before any verdict.
LEMMA BenchInitInv == BenchInit => BInv
<1> SUFFICES ASSUME BenchInit PROVE BInv
  OBVIOUS
<1>1. TicksInPhase
  BY DEF BenchInit, TicksInPhase, Phases
<1>2. ScansCounted
  <2>1. opts.forceFullRescan = ~structured /\ ~havePrev /\ initCalls = 0 /\ phase = "setup"
    BY DEF BenchInit, Init
  <2>2. structured => ~opts.forceFullRescan
    BY <2>1, Zenon
  <2> QED
    BY <2>1, <2>2 DEF ScansCounted, Begun
<1> QED
  BY <1>1, <1>2 DEF BInv, Judged, Decided, BenchInit

\* Every action keeps the tick counter within its phase.
LEMMA TicksStep == TicksInPhase /\ [BenchNext]_<<vars, benchVars>> => TicksInPhase'
<1> SUFFICES ASSUME TicksInPhase, [BenchNext]_<<vars, benchVars>> PROVE TicksInPhase'
  OBVIOUS
<1>0. plan.warmup \in Nat /\ plan.latency \in Nat /\ plan.feas \in Nat
  BY PlanNumbers DEF TicksInPhase
<1>1. CASE Configure
  BY <1>0, <1>1 DEF Configure, TicksInPhase, Phases
<1>2. CASE NextTick
  BY <1>0, <1>2 DEF NextTick, Ticking, PhaseEnd, TicksInPhase, Phases
<1>3. CASE Work
  BY <1>3 DEF Work, benchVars, TicksInPhase
<1>4. CASE Measure
  <2>1. /\ plan' = plan /\ phase' = phase /\ t' = t + 1 /\ running /\ running' = FALSE
    BY <1>4 DEF Measure
  <2>2. plan \in Plans /\ phase \in Phases /\ t \in Nat /\ phase # "setup"
    BY <2>1 DEF TicksInPhase
  <2>3. t' \in Nat /\ phase' # "setup" /\ plan' \in Plans /\ phase' \in Phases
    BY <2>1, <2>2
  <2>4. running' \in BOOLEAN /\ ~running'
    BY <2>1
  <2>5. CASE phase = "warmup"
    <3>1. t < plan.warmup
      BY <2>1, <2>5 DEF TicksInPhase
    <3>2. t' <= plan'.warmup
      BY <1>0, <2>1, <2>2, <3>1
    <3> QED
      BY <2>1, <2>3, <2>4, <2>5, <3>2 DEF TicksInPhase
  <2>6. CASE phase = "latency"
    <3>1. t < plan.latency
      BY <2>1, <2>6 DEF TicksInPhase
    <3>2. t' <= plan'.latency
      BY <1>0, <2>1, <2>2, <3>1
    <3> QED
      BY <2>1, <2>3, <2>4, <2>6, <3>2 DEF TicksInPhase
  <2>7. CASE phase = "feas"
    <3>1. t < plan.feas /\ plan.latency <= t /\ t \in Nat
      BY <2>1, <2>7 DEF TicksInPhase
    <3>2. plan'.latency <= t' /\ t' <= Larger(plan'.latency, plan'.feas)
      BY <1>0, <2>1, <3>1 DEF Larger
    <3> QED
      BY <2>1, <2>3, <2>4, <2>7, <3>2 DEF TicksInPhase
  <2>8. phase \in {"warmup", "latency", "feas"}
    BY <2>1, <2>2 DEF TicksInPhase, Phases
  <2> QED
    BY <2>5, <2>6, <2>7, <2>8
<1>5. CASE EndPhase
  BY <1>0, <1>5 DEF EndPhase, Ticking, PhaseEnd, TicksInPhase, Phases, Larger
<1>6. ASSUME NEW a \in ScriptArgs, Judge(a) PROVE TicksInPhase'
  BY <1>6 DEF Judge, TicksInPhase, Phases
<1>7. CASE Decide
  BY <1>7 DEF Decide, TicksInPhase, Phases
<1>8. CASE UNCHANGED <<vars, benchVars>>
  BY <1>8 DEF benchVars, TicksInPhase
<1> QED
  BY <1>1, <1>2, <1>3, <1>4, <1>5, <1>6, <1>7, <1>8 DEF BenchNext

\* Only a tick counts a full scan, and only the first one of a structured run does.
LEMMA ScansStep ==
  TicksInPhase /\ ScansCounted /\ [BenchNext]_<<vars, benchVars>> => ScansCounted'
<1> SUFFICES ASSUME TicksInPhase, ScansCounted, [BenchNext]_<<vars, benchVars>>
             PROVE  ScansCounted'
  OBVIOUS
<1>0. plan.warmup \in Nat /\ plan.latency \in Nat /\ plan.feas \in Nat /\ t \in Nat
      /\ phase \in Phases /\ running \in BOOLEAN
  BY PlanNumbers DEF TicksInPhase
<1>1. CASE Configure
  <2>1. /\ phase = "setup" /\ phase' = "warmup" /\ t' = t /\ running' = running
        /\ structured' = structured /\ initCalls' = initCalls /\ opts' = opts
        /\ havePrev' = FALSE
    BY <1>1 DEF Configure, SetRhs
  <2>2. ~Begun /\ t = 0
    BY <2>1 DEF Begun, TicksInPhase
  <2> QED
    BY <2>1, <2>2 DEF ScansCounted, Begun, TicksInPhase
<1>2. CASE NextTick
  <2>1. /\ phase \in {"warmup", "latency", "feas"} /\ phase' = phase /\ t' = t
        /\ running' = TRUE /\ plan' = plan
        /\ structured' = structured /\ opts' = opts /\ havePrev' = TRUE
        /\ initCalls' = initCalls + (IF opts.forceFullRescan \/ ~havePrev THEN 1 ELSE 0)
    BY <1>2 DEF NextTick, Ticking, StartTick, settingVars
  <2>2. Begun'
    BY <2>1 DEF Begun
  <2> QED
    BY <2>1, <2>2 DEF ScansCounted
<1>3. CASE Work
  <2>1. opts' = opts /\ havePrev' = havePrev
    BY <1>3, LoopKeepsHistory DEF Work
  <2> QED
    BY <1>3, <2>1 DEF Work, benchVars, ScansCounted, Begun
<1>4. CASE Measure
  <2>1. /\ plan' = plan /\ phase' = phase /\ t' = t + 1 /\ running = TRUE /\ running' = FALSE
        /\ structured' = structured /\ opts' = opts /\ havePrev' = havePrev
        /\ initCalls' = initCalls
    BY <1>0, <1>4 DEF Measure, vars
  <2>2. phase # "setup" => Begun /\ Begun'
    BY <1>0, <2>1 DEF Begun, Phases
  <2>3. phase = "setup" => ~Begun /\ ~Begun'
    BY <2>1 DEF Begun
  <2> QED
    BY <2>1, <2>2, <2>3 DEF ScansCounted
<1>5. CASE EndPhase
  <2>1. /\ phase \in {"warmup", "latency", "feas"} /\ ~running /\ running' = running
        /\ phase' = CASE phase = "warmup"  -> "latency"
                      [] phase = "latency" -> "feas"
                      [] phase = "feas"    -> "judge"
        /\ t' = IF phase = "warmup" THEN 0 ELSE t
        /\ t >= PhaseEnd
        /\ structured' = structured /\ opts' = opts /\ havePrev' = havePrev
        /\ initCalls' = initCalls /\ plan' = plan
    BY <1>5 DEF EndPhase, Ticking, vars
  <2>2. phase = "warmup" => t = plan.warmup
    BY <1>0, <2>1 DEF TicksInPhase, PhaseEnd
  <2>3. Begun' = Begun
    BY <1>0, <2>1, <2>2 DEF Begun
  <2> QED
    BY <2>1, <2>3 DEF ScansCounted
<1>6. ASSUME NEW a \in ScriptArgs, Judge(a) PROVE ScansCounted'
  BY <1>6 DEF Judge, vars, ScansCounted, Begun
<1>7. CASE Decide
  BY <1>7 DEF Decide, vars, ScansCounted, Begun
<1>8. CASE UNCHANGED <<vars, benchVars>>
  BY <1>8 DEF vars, benchVars, ScansCounted, Begun
<1> QED
  BY <1>1, <1>2, <1>3, <1>4, <1>5, <1>6, <1>7, <1>8 DEF BenchNext

\* Nothing a gate is computed from changes once the gates are written.
LEMMA JudgedStep ==
  TicksInPhase /\ Judged /\ [BenchNext]_<<vars, benchVars>> => Judged'
<1> SUFFICES ASSUME TicksInPhase, Judged, [BenchNext]_<<vars, benchVars>>,
                    phase' \in {"judged", "decided"}
             PROVE  /\ gates'.g6 = G6'
                    /\ gates'.g2 = g2Violations'
                    /\ gates'.gStream = GStream'
                    /\ osqpAvailable' => gates'.g4 = G4Close'
                    /\ ~osqpAvailable' => gates'.g4Status = "SKIPPED"
                    /\ args'.claim => structured'
  BY DEF Judged
<1> DEFINE Same == /\ G6' = G6 /\ GStream' = GStream /\ G4Close' = G4Close
                   /\ g2Violations' = g2Violations /\ osqpAvailable' = osqpAvailable
                   /\ structured' = structured
<1>1. ASSUME opts' = opts, UNCHANGED <<structured, streamVars, initCalls, countVars>>
      PROVE  Same
  <2>1. G6' = G6
    BY <1>1 DEF G6
  <2>2. G4Close' = G4Close /\ g2Violations' = g2Violations /\ osqpAvailable' = osqpAvailable
        /\ structured' = structured
    BY <1>1 DEF G4Close, countVars
  <2>3. GStream' = GStream
    BY <1>1 DEF GStream, OutsideChanged, OutsideCount, OutsideQuantile, countVars, streamVars,
                Mode
  <2> QED
    BY <2>1, <2>2, <2>3
<1> HIDE DEF Same
<1>2. ASSUME NEW a \in ScriptArgs, Judge(a)
      PROVE  /\ gates'.g6 = G6'
             /\ gates'.g2 = g2Violations'
             /\ gates'.gStream = GStream'
             /\ osqpAvailable' => gates'.g4 = G4Close'
             /\ ~osqpAvailable' => gates'.g4Status = "SKIPPED"
             /\ args'.claim => structured'
  <2>1. Same
    BY <1>1, <1>2 DEF Judge, vars
  <2>2. /\ gates'.g6 = G6 /\ gates'.g2 = g2Violations /\ gates'.gStream = GStream
        /\ osqpAvailable => gates'.g4 = G4Close
        /\ ~osqpAvailable => gates'.g4Status = "SKIPPED"
        /\ args'.claim => structured
    <3> HIDE DEF Same
    <3> QED
      BY <1>2 DEF Judge
  <2> QED
    BY <2>1, <2>2 DEF Same
<1>3. CASE Decide
  <2>1. Same /\ gates' = gates /\ args' = args /\ phase = "judged"
    BY <1>1, <1>3 DEF Decide, vars
  <2> QED
    BY <2>1 DEF Same, Judged
<1>4. CASE UNCHANGED <<vars, benchVars>>
  <2>1. Same /\ gates' = gates /\ args' = args /\ phase' = phase
    BY <1>1, <1>4 DEF benchVars, endVars, vars
  <2> QED
    BY <2>1 DEF Same, Judged
<1>5. CASE Configure \/ NextTick \/ Measure
  <2>1. phase' \in {"setup", "warmup", "latency", "feas", "judge"}
    <3>1. CASE Configure
      BY <3>1 DEF Configure
    <3>2. CASE NextTick
      BY <3>2 DEF NextTick, Ticking
    <3>3. CASE Measure
      BY <3>3 DEF Measure, TicksInPhase, Phases
    <3> QED
      BY <1>5, <3>1, <3>2, <3>3
  <2> QED
    BY <2>1
<1>6. CASE EndPhase
  BY <1>6 DEF EndPhase, Ticking
<1>7. CASE Work
  <2>1. Same /\ gates' = gates /\ args' = args /\ phase' = phase
    BY <1>1, <1>7, LoopKeepsHistory DEF Work, benchVars, endVars
  <2> QED
    BY <2>1 DEF Same, Judged
<1> QED
  BY <1>2, <1>3, <1>4, <1>5, <1>6, <1>7 DEF BenchNext

\* The script decides from the gates as they were written.
LEMMA DecidedStep ==
  Decided /\ [BenchNext]_<<vars, benchVars>> => Decided'
<1> SUFFICES ASSUME Decided, [BenchNext]_<<vars, benchVars>>, phase' = "decided",
                    passed', args'.claim
             PROVE  gates'.g2 = 0 /\ gates'.g6 /\ gates'.gStream /\ G4Accepted'
  BY DEF Decided
<1>1. CASE Decide
  <2>1. gates.g2 = 0 /\ gates.g6 /\ (args.claim => gates.gStream) /\ G4Accepted
        /\ args' = args /\ gates' = gates
    BY <1>1 DEF Decide
  <2>2. G4Accepted'
    BY <2>1 DEF G4Accepted
  <2> QED
    BY <2>1, <2>2
<1>2. CASE Work \/ UNCHANGED <<vars, benchVars>>
  <2>1. args' = args /\ gates' = gates /\ phase' = phase /\ passed' = passed
    BY <1>2 DEF Work, benchVars, endVars
  <2>2. gates.g2 = 0 /\ gates.g6 /\ gates.gStream /\ G4Accepted
    BY <2>1 DEF Decided
  <2>3. G4Accepted'
    BY <2>1, <2>2 DEF G4Accepted
  <2> QED
    BY <2>1, <2>2, <2>3
<1>3. CASE Configure
  BY <1>3 DEF Configure
<1>4. CASE NextTick
  BY <1>4 DEF NextTick, Ticking
<1>5. CASE Measure
  <2>1. args' = args /\ gates' = gates /\ phase' = phase /\ passed' = passed
    BY <1>5 DEF Measure, endVars
  <2>2. gates.g2 = 0 /\ gates.g6 /\ gates.gStream /\ G4Accepted
    BY <2>1 DEF Decided
  <2>3. G4Accepted'
    BY <2>1, <2>2 DEF G4Accepted
  <2> QED
    BY <2>1, <2>2, <2>3
<1>6. CASE EndPhase
  BY <1>6 DEF EndPhase, Ticking
<1>7. ASSUME NEW a \in ScriptArgs, Judge(a) PROVE FALSE
  BY <1>7 DEF Judge
<1> QED
  BY <1>1, <1>2, <1>3, <1>4, <1>5, <1>6, <1>7 DEF BenchNext

\* The invariant of every run of the benchmark.
LEMMA RunInvariant == BenchSpec => []BInv
<1>1. BenchInit => BInv
  BY BenchInitInv
<1>2. BInv /\ [BenchNext]_<<vars, benchVars>> => BInv'
  BY TicksStep, ScansStep, JudgedStep, DecidedStep DEF BInv
<1> QED
  BY <1>1, <1>2, PTL DEF BenchSpec

\* A structured run scans all rows in its first tick only, and so gate G6, which asks
\* for exactly one init_tick, holds of every structured run that has a tick at all:
\* bench_baselines.cpp:890-897, whatever the system, the stream and the options.
THEOREM OneFullScanAlways == BenchSpec => []OneFullScan
<1>1. BInv => OneFullScan
  <2> SUFFICES ASSUME BInv PROVE OneFullScan
    OBVIOUS
  <2>1. structured => initCalls <= 1
    BY DEF BInv, ScansCounted
  <2>2. ASSUME phase \in {"judged", "decided"}
        PROVE  gates.g6 <=> ~structured \/ plan.warmup + plan.latency + plan.feas > 0
    <3>1. plan.warmup \in Nat /\ plan.latency \in Nat /\ plan.feas \in Nat
      BY PlanNumbers DEF BInv, TicksInPhase
    <3>2. t = Larger(plan.latency, plan.feas) /\ ~running
      BY <2>2 DEF BInv, TicksInPhase
    <3>3. Begun <=> plan.warmup > 0 \/ t > 0
      BY <2>2, <3>2 DEF Begun
    <3>4. t > 0 <=> plan.latency > 0 \/ plan.feas > 0
      BY <3>1, <3>2 DEF Larger
    <3>5. Begun <=> plan.warmup + plan.latency + plan.feas > 0
      BY <3>1, <3>3, <3>4
    <3>6. structured => ~opts.forceFullRescan /\ (initCalls = 1 <=> Begun)
      BY DEF BInv, ScansCounted
    <3>7. G6 <=> ~structured \/ Begun
      BY <3>6 DEF G6
    <3>8. gates.g6 = G6
      BY <2>2 DEF BInv, Judged
    <3> QED
      BY <3>5, <3>7, <3>8
  <2> QED
    BY <2>1, <2>2 DEF OneFullScan
<1> QED
  BY <1>1, RunInvariant, PTL

\* A claim that passes the script rests on outputs without violation, a single full
\* scan, a sparse stream and a comparison with OSQP, unless skipping it was asked for:
\* run_stage6_gates.sh:75-121 on the gates of bench_baselines.cpp:866-960.
THEOREM ClaimsHaveEvidence == BenchSpec => []ClaimHasEvidence
<1>1. BInv => ClaimHasEvidence
  <2> SUFFICES ASSUME BInv, phase = "decided", passed, args.claim
               PROVE  /\ g2Violations = 0 /\ initCalls = 1 /\ gates.gStream
                      /\ osqpAvailable \/ args.allowSkip
                      /\ osqpAvailable => compared > 0 /\ gapsOk
    BY DEF ClaimHasEvidence
  <2>1. gates.g2 = 0 /\ gates.g6 /\ gates.gStream /\ G4Accepted
    BY DEF BInv, Decided
  <2>2. /\ gates.g6 = G6 /\ gates.g2 = g2Violations
        /\ osqpAvailable => gates.g4 = G4Close
        /\ ~osqpAvailable => gates.g4Status = "SKIPPED"
        /\ structured
    BY DEF BInv, Judged
  <2>3. ~opts.forceFullRescan
    BY <2>2 DEF BInv, ScansCounted
  <2>4. initCalls = 1
    BY <2>1, <2>2, <2>3 DEF G6
  <2>5. gates.g4 /\ (gates.g4Status = "SKIPPED" => args.allowSkip)
    BY <2>1 DEF G4Accepted
  <2>6. osqpAvailable => compared > 0 /\ gapsOk
    BY <2>2, <2>5 DEF G4Close
  <2> QED
    BY <2>1, <2>2, <2>4, <2>5, <2>6
<1> QED
  BY <1>1, RunInvariant, PTL

\* The tick number that the stream sees is a number.
LEMMA GlobalTickIsNat == TicksInPhase => GlobalTick \in Nat
  BY PlanNumbers DEF TicksInPhase, GlobalTick

\* What the bench does to the stream is a run of the stream: next is called with the
\* tick numbers of bench_baselines.cpp:626, 675 and 802, and nothing else writes it.
THEOREM BenchRunsStream == BenchSpec => StreamSpec
<1>1. BenchInit => StreamInit
  BY DEF BenchInit
<1>2. BInv /\ [BenchNext]_<<vars, benchVars>> => [StreamNext]_streamVars
  <2> SUFFICES ASSUME BInv, [BenchNext]_<<vars, benchVars>>
               PROVE  StreamNext \/ UNCHANGED streamVars
    OBVIOUS
  <2>1. CASE NextTick
    BY <2>1, GlobalTickIsNat DEF NextTick, StreamNext, BInv
  <2>2. CASE Configure
    BY <2>2 DEF Configure
  <2>3. CASE Work
    BY <2>3 DEF Work, benchVars
  <2>4. CASE Measure
    BY <2>4 DEF Measure
  <2>5. CASE EndPhase
    BY <2>5 DEF EndPhase
  <2>6. ASSUME NEW a \in ScriptArgs, Judge(a) PROVE UNCHANGED streamVars
    BY <2>6 DEF Judge
  <2>7. CASE Decide
    BY <2>7 DEF Decide
  <2>8. CASE UNCHANGED <<vars, benchVars>>
    BY <2>8 DEF benchVars
  <2> QED
    BY <2>1, <2>2, <2>3, <2>4, <2>5, <2>6, <2>7, <2>8 DEF BenchNext
<1> QED
  BY <1>1, <1>2, RunInvariant, PTL DEF BenchSpec, StreamSpec

\* Hence the proposals of a bench run stay in their range (CorrelatedBlockSparseStream::
\* next as bench_baselines.cpp calls it), whatever the system, the options and the plan.
THEOREM BenchProposalsBounded == BenchSpec => []ProposalsBounded
  BY BenchRunsStream, ProposalsStayBounded, PTL

\* Hence blocks that a tick of a bench run does not report only drift towards zero.
THEOREM BenchUnreportedDrift == BenchSpec => UnreportedOnlyDrift
  BY BenchRunsStream, UnreportedDrift, PTL

-----------------------------------------------------------------------------
\* What the bench does to the projector is a run of the projector.

\* A stream within its range proposes what the projector can be called with.
Proposed == [b \in Blocks |-> Scale * drawn[b]] \in Proposals

LEMMA ProposesPoints ==
  ASSUME streamCfg \in StreamConfigs, Typed, ProposalsBounded
  PROVE  Proposed
<1> DEFINE c == streamCfg
<1>1. c \in StreamConfig /\ drawn \in [StreamBlocks -> Int]
  BY DEF Typed
<1>2. /\ c.qSmall \in Nat /\ c.qBig \in Nat /\ c.clampInf \in Int
      /\ c.rhoNum \in Nat /\ c.rhoDen \in Nat \ {0}
  BY <1>1 DEF StreamConfig
<1>3. ASSUME NEW b \in StreamBlocks PROVE drawn[b] \in Reach(c)
  <2> DEFINE x == drawn[b]
  <2>1. x \in Int /\ Abs(x) \in Nat /\ -Abs(x) <= x /\ x <= Abs(x)
    BY <1>1 DEF Abs
  <2>2. CASE Mode(c) = "iid_dense"
    <3>1. Abs(x) <= c.qSmall \/ Abs(x) <= c.qBig
      BY <2>2 DEF ProposalsBounded
    <3>2. x \in -Larger(c.qSmall, c.qBig) .. Larger(c.qSmall, c.qBig)
      BY <1>2, <2>1, <3>1 DEF Larger
    <3> QED
      BY <2>2, <3>2 DEF Reach
  <2>3. CASE Mode(c) # "iid_dense" /\ c.clampInf > 0
    <3>1. Abs(x) <= c.clampInf
      BY <2>3 DEF ProposalsBounded
    <3>2. x \in -c.clampInf .. c.clampInf
      BY <1>2, <2>1, <3>1
    <3> QED
      BY <2>3, <3>2 DEF Reach
  <2>4. CASE Mode(c) # "iid_dense" /\ ~(c.clampInf > 0) /\ c.rhoNum < c.rhoDen
    <3> DEFINE e == c.rhoDen - c.rhoNum
               m == c.rhoDen * MaxAmplitude(c)
               fixed == m \div e
    <3>1. e * Abs(x) <= m
      BY <2>4 DEF ProposalsBounded
    <3>2. MaxAmplitude(c) \in Nat
      BY <1>1, AmplitudeBounded
    <3>3. e \in Nat \ {0} /\ m \in Nat
      BY <1>2, <2>4, <3>2
    <3> HIDE DEF e, m
    <3>4. fixed \in Nat /\ m < e * (fixed + 1)
      BY <3>3
    <3>5. Abs(x) <= fixed
      <4>1. SUFFICES ASSUME Abs(x) >= fixed + 1 PROVE FALSE
        BY <2>1, <3>4
      <4>2. e * (Abs(x) - (fixed + 1)) >= 0
        BY <2>1, <3>3, <3>4, <4>1
      <4>3. e * (Abs(x) - (fixed + 1)) = e * Abs(x) - e * (fixed + 1)
        BY <2>1, <3>3, <3>4
      <4> QED
        BY <2>1, <3>1, <3>3, <3>4, <4>2, <4>3
    <3>6. x \in -fixed .. fixed
      BY <2>1, <3>4, <3>5
    <3> QED
      BY <2>4, <3>6 DEF Reach, e, m
  <2>5. CASE Mode(c) # "iid_dense" /\ ~(c.clampInf > 0) /\ ~(c.rhoNum < c.rhoDen)
    BY <2>1, <2>5 DEF Reach
  <2> QED
    BY <2>2, <2>3, <2>4, <2>5
<1>4. drawn \in [StreamBlocks -> Reach(c)]
  BY <1>1, <1>3
<1> QED
  BY <1>4, ProposalAssumption DEF Proposed

\* The stream keeps the configuration it was started with.
ConfigKept == streamCfg \in StreamConfigs

LEMMA StreamKeepsConfig == StreamSpec => []ConfigKept
<1>1. StreamInit => ConfigKept
  BY DEF StreamInit, ConfigKept
<1>2. ConfigKept /\ [StreamNext]_streamVars => ConfigKept'
  BY DEF StreamNext, NextProposal, DenseTick, CorrelatedTick, streamVars, ConfigKept
<1> QED
  BY <1>1, <1>2, PTL DEF StreamSpec

\* Every call the bench makes of the projector is one that module Projector allows, with a
\* proposal of the stream (bench_baselines.cpp:626-627, 675-691 and 802-817): whatever is
\* proved of the projector's runs holds of the projector inside a bench run.
THEOREM BenchRunsProjector == BenchSpec => Spec
<1>1. BenchInit => Init
  BY DEF BenchInit
<1>2. Proposed' /\ [BenchNext]_<<vars, benchVars>> => [Next]_vars
  <2> SUFFICES ASSUME Proposed', [BenchNext]_<<vars, benchVars>> PROVE Next \/ UNCHANGED vars
    OBVIOUS
  <2>1. CASE Configure
    BY <2>1 DEF Configure, Next
  <2>2. CASE NextTick
    BY <2>2 DEF NextTick, Next, Proposed
  <2>3. CASE Work
    BY <2>3 DEF Work, Next
  <2>4. CASE Measure
    BY <2>4 DEF Measure
  <2>5. CASE EndPhase
    BY <2>5 DEF EndPhase
  <2>6. ASSUME NEW a \in ScriptArgs, Judge(a) PROVE UNCHANGED vars
    BY <2>6 DEF Judge
  <2>7. CASE Decide
    BY <2>7 DEF Decide
  <2>8. CASE UNCHANGED <<vars, benchVars>>
    BY <2>8
  <2> QED
    BY <2>1, <2>2, <2>3, <2>4, <2>5, <2>6, <2>7, <2>8 DEF BenchNext
<1>3. ConfigKept /\ Typed /\ ProposalsBounded => Proposed
  BY ProposesPoints DEF ConfigKept
<1>4. BenchSpec => []Proposed
  BY <1>3, BenchRunsStream, StreamKeepsConfig, TypeInvariance, ProposalsStayBounded, PTL
<1> QED
  BY <1>1, <1>2, <1>4, PTL DEF BenchSpec, Spec

\* Hence the accepted outputs of a bench run, whose ticks are not rescanned, certify the
\* global rows, and its fallbacks certify all rows whenever the anchor does.
THEOREM BenchOutputsHold == BenchSpec => []StreamingOutput
  BY BenchRunsProjector, StreamingOutputsHold, PTL

-----------------------------------------------------------------------------
\* The scan of gate G2.

\* The count is a number, and a tick that is measured has its answer.
TickAnswered == g2Violations \in Nat /\ (running => pc = "loop" \/ ret.kind # "none")

\* What module Projector's theorems say of the projector inside the bench.
ProjectorHolds == IInv /\ Answered /\ OutputCertified

LEMMA ProjectorInvariance == BenchSpec => []ProjectorHolds
<1>1. IInv /\ Answered /\ OutputCertified => ProjectorHolds
  BY DEF ProjectorHolds
<1> QED
  BY <1>1, BenchRunsProjector, Invariance, AnswerInvariance, OutputsAreCertified, PTL

\* A turn that leaves the loop has an answer, and only Measure ends the tick.
LEMMA TickAnsweredStep ==
  ProjectorHolds /\ TicksInPhase /\ TickAnswered /\ [BenchNext]_<<vars, benchVars>>
    => TickAnswered'
<1> SUFFICES ASSUME ProjectorHolds, TicksInPhase, TickAnswered, [BenchNext]_<<vars, benchVars>>
             PROVE  TickAnswered'
  OBVIOUS
<1>1. ASSUME running' = running, UNCHANGED vars, g2Violations' = g2Violations
      PROVE  TickAnswered'
  BY <1>1 DEF TickAnswered, vars
<1>2. CASE Configure
  BY <1>2 DEF Configure, TicksInPhase, TickAnswered, countVars
<1>3. CASE NextTick
  BY <1>3 DEF NextTick, StartTick, TickAnswered, countVars
<1>4. CASE Work
  <2>1. g2Violations' = g2Violations /\ pc = "loop" /\ (Ends \/ UNCHANGED <<pc, ret>>)
    BY <1>4, TurnEnds DEF Work, benchVars, countVars, ProjectorHolds
  <2>2. pc' = "loop" \/ ret'.kind # "none"
    BY <2>1 DEF Ends, Accept, FallbackToAnchor, Return
  <2> QED
    BY <2>1, <2>2 DEF TickAnswered
<1>5. CASE Measure
  BY <1>5 DEF Measure, TickAnswered, countVars
<1>6. CASE EndPhase
  BY <1>1, <1>6 DEF EndPhase, countVars
<1>7. ASSUME NEW a \in ScriptArgs, Judge(a) PROVE TickAnswered'
  BY <1>1, <1>7 DEF Judge, countVars
<1>8. CASE Decide
  BY <1>1, <1>8 DEF Decide, countVars
<1>9. CASE UNCHANGED <<vars, benchVars>>
  BY <1>1, <1>9 DEF benchVars, countVars
<1> QED
  BY <1>2, <1>3, <1>4, <1>5, <1>6, <1>7, <1>8, <1>9 DEF BenchNext

\* A rescanned tick that is measured and counted has been refused: an accepted point or
\* a fallback's is written, whatever q_out held, and certified.
LEMMA MeasureCounts ==
  ASSUME ProjectorHolds, TickAnswered, Measure, g2Violations' # g2Violations,
         opts.forceFullRescan, Certified(Origin)
  PROVE  ret.kind = "refused" /\ ~opts.fallbackEnabled
<1>1. /\ running /\ pc = "idle"
      /\ qOut' = IF ret.kind = "refused" /\ ret.out = Unwritten THEN qOut ELSE ret.out
  BY DEF Measure
<1>2. \/ g2Violations' = g2Violations
      \/ g2Violations' = g2Violations + (IF ScanWorst(qOut', rhs).violation > 0 THEN 1 ELSE 0)
  BY DEF Measure, countVars
<1>3. ret.kind \in {"accepted", "fallback", "refused"}
  BY <1>1 DEF ProjectorHolds, IInv, TypeOK, TickAnswered
<1>4. ASSUME ret.kind \in {"accepted", "fallback"} PROVE FALSE
  <2>1. Numeric(ret.out, rhs)
    BY <1>4 DEF ProjectorHolds, Answered
  <2>2. Certified(ret.out) \/ StrictlyCertified(ret.out)
    BY <1>4 DEF ProjectorHolds, OutputCertified, Rescanned
  <2>3. \A id \in Ids : RowViolation(id, ret.out, rhs) <= 0
    BY <2>1, <2>2 DEF Certified, StrictlyCertified, Numeric
  <2>4. ~(ScanWorst(ret.out, rhs).violation > 0)
    BY <2>1, <2>3, CertifiedIsFeasible
  <2>5. qOut' = ret.out
    BY <1>1, <1>4
  <2>6. g2Violations' = g2Violations + 0
    BY <1>2, <2>4, <2>5
  <2> QED
    BY <2>6 DEF TickAnswered
<1> QED
  BY <1>3, <1>4 DEF ProjectorHolds, Answered

\* With every tick rescanned, the scans of bench_baselines.cpp:725-729 and 845-850 count a
\* tick only where project refused to answer and fallbacks are off: no other tick is
\* charged with a point that an earlier call left in q_out.
THEOREM CountsOnlyRefusals == BenchSpec => CountsOnlyRefused
<1>1. BenchInit => TickAnswered
  BY DEF BenchInit, TickAnswered
<1>2. ASSUME ProjectorHolds, TickAnswered, [BenchNext]_<<vars, benchVars>>
      PROVE  [opts.forceFullRescan /\ Certified(Origin) =>
                  ret.kind = "refused" /\ ~opts.fallbackEnabled]_g2Violations
  <2>1. Measure \/ g2Violations' = g2Violations
    BY <1>2 DEF BenchNext, Configure, NextTick, Work, EndPhase, Judge, Decide,
                benchVars, countVars
  <2> QED
    BY <1>2, <2>1, MeasureCounts
<1>3. BInv => TicksInPhase
  BY DEF BInv
<1> QED
  BY <1>1, <1>2, <1>3, TickAnsweredStep, ProjectorInvariance, RunInvariant, PTL
     DEF BenchSpec, CountsOnlyRefused

-----------------------------------------------------------------------------
\* The samples of the latency phase.

\* A number is its quotient and its remainder.
LEMMA Division ==
  ASSUME NEW n \in Nat, NEW k \in Nat \ {0}
  PROVE  /\ n \div k \in Nat /\ n % k \in Nat /\ n % k < k
         /\ n = k * (n \div k) + (n % k)
  OBVIOUS

\* The distance of two sampled ticks.
Stride(p) == IF p.sample >= p.latency THEN 1 ELSE p.latency \div p.sample

LEMMA StrideOfPlan ==
  ASSUME NEW p \in Plans, p.sample > 0
  PROVE  /\ Stride(p) \in Nat \ {0}
         /\ \A n \in Nat : Sampled(n, p.latency, p.sample) <=> n % Stride(p) = 0
<1>1. p.latency \in Nat /\ p.sample \in Nat
  BY BenchAssumption
<1>2. CASE p.sample >= p.latency
  <2>1. Stride(p) = 1
    BY <1>2 DEF Stride
  <2>2. \A n \in Nat : n % 1 = 0
    OBVIOUS
  <2> QED
    BY <1>1, <1>2, <2>1, <2>2 DEF Sampled
<1>3. CASE p.sample < p.latency
  <2> DEFINE L == p.latency
             s == p.sample
             k == L \div s
  <2>1. k \in Nat /\ L = s * k + (L % s) /\ L % s < s /\ L % s \in Nat
    <3>1. L \in Nat /\ s \in Nat \ {0}
      BY <1>1
    <3> HIDE DEF L, s
    <3> QED
      BY <3>1, Division
  <2>2. k # 0
    BY <1>1, <1>3, <2>1
  <2>3. Stride(p) = k
    BY <1>1, <1>3 DEF Stride
  <2> HIDE DEF k
  <2>4. Larger(1, k) = k
    BY <2>1, <2>2 DEF Larger
  <2>5. \A n \in Nat : Sampled(n, p.latency, p.sample) <=> n % k = 0
    BY <1>1, <1>3, <2>4 DEF Sampled, k
  <2> QED
    BY <2>1, <2>2, <2>3, <2>5
<1> QED
  BY <1>1, <1>2, <1>3

\* After n ticks every stride begun has had its sample.
Covered(p, n) == n <= Stride(p) * samples /\ Stride(p) * samples < n + Stride(p)

SamplesCounted ==
    plan.sample > 0 =>
        /\ samples \in Nat
        /\ phase \in {"setup", "warmup"} => samples = 0
        /\ phase = "latency" => Covered(plan, t)
        /\ phase \in {"feas", "judge", "judged", "decided"} => Covered(plan, plan.latency)

\* A sampled tick opens a new stride, any other tick stays in the last one.
LEMMA StrideStep ==
  ASSUME NEW n \in Nat, NEW m \in Nat, NEW k \in Nat \ {0}, n <= k * m, k * m < n + k
  PROVE  LET m2 == IF n % k = 0 THEN m + 1 ELSE m
         IN  n + 1 <= k * m2 /\ k * m2 < n + 1 + k
<1> DEFINE a == n \div k
           r == n % k
<1>1. a \in Nat /\ r \in Nat /\ r < k /\ n = k * a + r
  BY Division
<1> HIDE DEF a, r
<1>2. k * m \in Nat /\ k * a \in Nat
  BY <1>1
<1>3. CASE r = 0
  <2>1. k * (m - a) = k * m - k * a
    BY <1>1
  <2>2. k * (m - a) >= 0 /\ k * (m - a) < k
    BY <1>1, <1>2, <1>3, <2>1
  <2>3. m = a
    <3>1. m - a >= 1 => k * (m - a) >= k
      BY <1>1
    <3>2. m - a <= -1 => k * (m - a) <= -k
      BY <1>1
    <3> QED
      BY <1>1, <2>2, <3>1, <3>2
  <2>4. k * (m + 1) = k * m + k
    OBVIOUS
  <2> QED
    BY <1>1, <1>2, <1>3, <2>3, <2>4 DEF r
<1>4. CASE r # 0
  <2>1. k * m # n
    <3>1. SUFFICES ASSUME k * m = n PROVE FALSE
      OBVIOUS
    <3>2. k * (m - a) = r
      BY <1>1, <1>2, <3>1
    <3>3. m - a >= 1 => k * (m - a) >= k
      BY <1>1
    <3>4. m - a <= 0 => k * (m - a) <= 0
      BY <1>1
    <3> QED
      BY <1>1, <1>4, <3>2, <3>3, <3>4
  <2> QED
    BY <1>2, <1>4, <2>1 DEF r
<1> QED
  BY <1>3, <1>4

\* The strides of a whole phase are fewer than twice the samples asked for.
LEMMA StridesFit ==
  ASSUME NEW p \in Plans, p.sample > 0, NEW n \in Nat, n <= p.latency,
         NEW m \in Nat, Stride(p) * m < n + Stride(p)
  PROVE  m < 2 * p.sample
<1> DEFINE L == p.latency
           s == p.sample
           k == Stride(p)
<1>1. L \in Nat /\ s \in Nat \ {0} /\ k \in Nat \ {0} /\ k * m < L + k
  BY StrideOfPlan, BenchAssumption
<1>2. CASE s >= L
  <2>1. k = 1
    BY <1>2 DEF Stride
  <2> QED
    BY <1>1, <1>2, <2>1
<1>3. CASE s < L
  <2>1. k = L \div s
    BY <1>1, <1>3 DEF Stride
  <2> HIDE DEF k
  <2> HIDE DEF L, s
  <2>2. L < s * k + s
    <3>1. L \div s \in Nat /\ L % s \in Nat /\ L % s < s /\ L = s * (L \div s) + (L % s)
      BY <1>1, Division
    <3>2. s * k \in Nat
      BY <1>1
    <3> QED
      BY <1>1, <2>1, <3>1, <3>2
  <2>3. SUFFICES ASSUME m >= 2 * s PROVE FALSE
    BY <1>1 DEF s
  <2>4. k * (m - 2 * s) >= 0
    BY <1>1, <2>3
  <2>5. k * (m - 2 * s) = k * m - 2 * (s * k)
    BY <1>1
  <2>6. (k - 1) * (s - 1) >= 0
    BY <1>1
  <2>7. (k - 1) * (s - 1) = s * k - s - k + 1
    BY <1>1
  <2>8. s * k \in Int /\ k * m \in Int
    BY <1>1
  <2> QED
    BY <1>1, <2>2, <2>4, <2>5, <2>6, <2>7, <2>8
<1> QED
  BY <1>1, <1>2, <1>3

LEMMA SamplesInit == BenchInit => SamplesCounted
  BY DEF BenchInit, SamplesCounted

LEMMA SamplesStep ==
  TicksInPhase /\ SamplesCounted /\ [BenchNext]_<<vars, benchVars>> => SamplesCounted'
<1> SUFFICES ASSUME TicksInPhase, SamplesCounted, [BenchNext]_<<vars, benchVars>>
             PROVE  SamplesCounted'
  OBVIOUS
<1>0. plan \in Plans /\ plan.latency \in Nat /\ t \in Nat
  BY PlanNumbers DEF TicksInPhase
<1>1. ASSUME UNCHANGED <<plan, samples, t>>,
             \/ phase' = phase
             \/ phase' = "warmup" /\ phase = "setup"
             \/ phase' \in {"judged", "decided"} /\ phase \in {"judge", "judged"}
      PROVE  SamplesCounted'
  BY <1>1 DEF SamplesCounted, Covered
<1>2. CASE Configure
  BY <1>1, <1>2 DEF Configure, countVars, SamplesCounted
<1>3. CASE NextTick
  <2>1. UNCHANGED <<plan, samples, t, phase>>
    BY <1>3 DEF NextTick, countVars
  <2> QED
    BY <1>1, <2>1
<1>4. CASE Work \/ UNCHANGED <<vars, benchVars>>
  <2>1. UNCHANGED <<plan, samples, t, phase>>
    BY <1>4 DEF Work, benchVars, countVars
  <2> QED
    BY <1>1, <2>1
<1>5. CASE Measure
  <2> SUFFICES ASSUME plan'.sample > 0
               PROVE  /\ samples' \in Nat
                      /\ phase' \in {"setup", "warmup"} => samples' = 0
                      /\ phase' = "latency" => Covered(plan, t)'
                      /\ phase' \in {"feas", "judge", "judged", "decided"} =>
                              Covered(plan, plan.latency)'
    BY DEF SamplesCounted
  <2>1. plan' = plan /\ phase' = phase /\ t' = t + 1 /\ phase # "setup"
    BY <1>5 DEF Measure, TicksInPhase
  <2>2. samples \in Nat /\ plan.sample > 0 /\ Stride(plan) \in Nat \ {0}
    BY <1>0, <2>1, StrideOfPlan DEF SamplesCounted
  <2>3. CASE phase = "latency"
    <3>1. samples' = IF t % Stride(plan) = 0 THEN samples + 1 ELSE samples
      <4>1. samples' = IF Sampled(t, plan.latency, plan.sample) THEN samples + 1 ELSE samples
        BY <1>5, <2>3 DEF Measure
      <4> QED
        BY <1>0, <2>2, <4>1, StrideOfPlan
    <3>2. Covered(plan, t)
      BY <2>2, <2>3 DEF SamplesCounted
    <3>3. t + 1 <= Stride(plan) * samples' /\ Stride(plan) * samples' < t + 1 + Stride(plan)
      BY <1>0, <2>2, <3>1, <3>2, StrideStep DEF Covered
    <3> QED
      BY <2>1, <2>2, <2>3, <3>1, <3>3 DEF Covered, Stride
  <2>4. CASE phase # "latency"
    <3>1. samples' = samples
      BY <1>5, <2>4 DEF Measure, countVars
    <3> QED
      BY <2>1, <2>2, <2>4, <3>1 DEF SamplesCounted, Covered, Stride
  <2> QED
    BY <2>3, <2>4
<1>6. CASE EndPhase
  <2> SUFFICES ASSUME plan'.sample > 0
               PROVE  /\ samples' \in Nat
                      /\ phase' \in {"setup", "warmup"} => samples' = 0
                      /\ phase' = "latency" => Covered(plan, t)'
                      /\ phase' \in {"feas", "judge", "judged", "decided"} =>
                              Covered(plan, plan.latency)'
    BY DEF SamplesCounted
  <2>1. /\ plan' = plan /\ samples' = samples /\ phase \in {"warmup", "latency", "feas"} /\ ~running
        /\ phase' = CASE phase = "warmup"  -> "latency"
                      [] phase = "latency" -> "feas"
                      [] phase = "feas"    -> "judge"
        /\ t' = IF phase = "warmup" THEN 0 ELSE t
        /\ t >= PhaseEnd
    BY <1>6 DEF EndPhase, Ticking, countVars
  <2>2. samples \in Nat /\ Stride(plan) \in Nat \ {0}
    BY <1>0, <2>1, StrideOfPlan DEF SamplesCounted
  <2>3. CASE phase = "warmup"
    <3>1. samples = 0 /\ t' = 0 /\ phase' = "latency"
      BY <2>1, <2>3 DEF SamplesCounted
    <3>2. Stride(plan) * 0 = 0
      BY <2>2
    <3> QED
      BY <2>1, <2>2, <3>1, <3>2 DEF Covered, Stride
  <2>4. CASE phase = "latency"
    <3>1. t = plan.latency /\ phase' = "feas"
      BY <1>0, <2>1, <2>4 DEF TicksInPhase, PhaseEnd
    <3> QED
      BY <2>1, <2>2, <2>4, <3>1 DEF SamplesCounted, Covered, Stride
  <2>5. CASE phase = "feas"
    BY <2>1, <2>2, <2>5 DEF SamplesCounted, Covered, Stride
  <2> QED
    BY <2>1, <2>3, <2>4, <2>5
<1>7. ASSUME NEW a \in ScriptArgs, Judge(a) PROVE SamplesCounted'
  <2>1. UNCHANGED <<plan, samples, t>> /\ phase = "judge" /\ phase' = "judged"
    BY <1>7 DEF Judge, countVars
  <2> QED
    BY <1>1, <2>1
<1>8. CASE Decide
  <2>1. UNCHANGED <<plan, samples, t>> /\ phase = "judged" /\ phase' = "decided"
    BY <1>8 DEF Decide, countVars
  <2> QED
    BY <1>1, <2>1
<1> QED
  BY <1>2, <1>3, <1>4, <1>5, <1>6, <1>7, <1>8 DEF BenchNext

\* Where samples are asked for, fewer than twice as many are taken (sampled_tick,
\* bench_baselines.cpp:226-233): the stride is rounded down, but never that far.
THEOREM SamplesStayBounded == BenchSpec => []SamplesBounded
<1>1. TicksInPhase /\ SamplesCounted => SamplesBounded
  <2> SUFFICES ASSUME TicksInPhase, SamplesCounted, plan.sample > 0
               PROVE  samples < 2 * plan.sample
    BY DEF SamplesBounded
  <2>0. plan \in Plans /\ plan.latency \in Nat /\ plan.sample \in Nat /\ t \in Nat /\ samples \in Nat
    BY BenchAssumption DEF TicksInPhase, SamplesCounted
  <2>1. CASE phase \in {"setup", "warmup"}
    BY <2>0, <2>1 DEF SamplesCounted
  <2>2. CASE phase = "latency"
    <3>1. t <= plan.latency /\ Stride(plan) * samples < t + Stride(plan)
      BY <2>2 DEF TicksInPhase, SamplesCounted, Covered
    <3> QED
      BY <2>0, <3>1, StridesFit
  <2>3. CASE phase \in {"feas", "judge", "judged", "decided"}
    <3>1. Stride(plan) * samples < plan.latency + Stride(plan)
      BY <2>3 DEF SamplesCounted, Covered
    <3>2. plan.latency <= plan.latency
      BY <2>0
    <3> QED
      BY <2>0, <3>1, <3>2, StridesFit
  <2> QED
    BY <2>1, <2>2, <2>3 DEF TicksInPhase, Phases
<1>2. BInv => TicksInPhase
  BY DEF BInv
<1> QED
  BY <1>1, <1>2, SamplesInit, SamplesStep, RunInvariant, PTL DEF BenchSpec

-----------------------------------------------------------------------------
\* The bursts of the measured phases.

\* g holds the partial sums of f.
PartialSums(f, g, N) ==
    /\ g \in [0 .. N -> Int]
    /\ g[0] = f[0]
    /\ \A k \in 1 .. N : g[k] = g[k - 1] + f[k]

LEMMA PartialSumsExist ==
  ASSUME NEW N \in Nat, NEW f \in [0 .. N -> Int]
  PROVE  \E g : PartialSums(f, g, N)
<1> DEFINE Upto(g, k) == /\ g \in [0 .. N -> Int]
                         /\ g[0] = f[0]
                         /\ \A j \in 1 .. N : j <= k => g[j] = g[j - 1] + f[j]
           K == {k \in 0 .. N : \E g : Upto(g, k)}
<1>1. 0 \in K
  <2>1. f[0] \in Int
    OBVIOUS
  <2>2. Upto([k \in 0 .. N |-> f[0]], 0)
    BY <2>1
  <2> QED
    BY <2>2
<1>2. ASSUME NEW k \in 1 .. N, k - 1 \in K PROVE k \in K
  <2>1. PICK g : Upto(g, k - 1)
    BY <1>2
  <2> DEFINE h == [g EXCEPT ![k] = g[k - 1] + f[k]]
  <2>2. k \in 0 .. N /\ k - 1 \in 0 .. N /\ g[k - 1] + f[k] \in Int
    BY <2>1
  <2>3. h \in [0 .. N -> Int] /\ h[k] = g[k - 1] + f[k] /\ \A j \in 0 .. N : j # k => h[j] = g[j]
    BY <2>1, <2>2
  <2> HIDE DEF h
  <2>4. h[0] = f[0]
    BY <2>1, <2>3
  <2>5. ASSUME NEW j \in 1 .. N, j <= k PROVE h[j] = h[j - 1] + f[j]
    <3>1. j \in 0 .. N /\ j - 1 \in 0 .. N /\ j - 1 # k /\ (j # k => j <= k - 1)
      BY <2>5
    <3> QED
      BY <2>1, <2>3, <3>1
  <2>6. Upto(h, k)
    BY <2>3, <2>4, <2>5
  <2> QED
    BY <2>2, <2>6
<1> HIDE DEF K
<1>3. N \in K
  <2>1. \A k \in 1 .. N : k - 1 \in K => k \in K
    BY <1>2
  <2>2. 0 .. N \subseteq K
    BY <1>1, <2>1, RangeInduction
  <2> QED
    BY <2>2
<1>4. PICK g : Upto(g, N)
  BY <1>3 DEF K
<1>5. \A k \in 1 .. N : k <= N
  OBVIOUS
<1> QED
  BY <1>4, <1>5 DEF PartialSums

\* SumUpTo computes them.
LEMMA SumIsPartial ==
  ASSUME NEW N \in Nat, NEW f \in [0 .. N -> Int], NEW g, PartialSums(f, g, N)
  PROVE  SumUpTo(f, N) = g[N]
<1> DEFINE Step(x, k) == IF k = 0 THEN f[0] ELSE x[k - 1] + f[k]
           s == CHOOSE x : x = [k \in 0 .. N |-> Step(x, k)]
           S == {k \in 0 .. N : s[k] = g[k]}
<1>1. SumUpTo(f, N) = s[N]
  BY DEF SumUpTo
<1>2. s = [k \in 0 .. N |-> Step(s, k)]
  <2>1. \A k \in 0 .. N : g[k] = Step(g, k)
    BY DEF PartialSums
  <2>2. g = [k \in 0 .. N |-> Step(g, k)]
    BY <2>1 DEF PartialSums
  <2> HIDE DEF Step
  <2> QED
    BY <2>2
<1> HIDE DEF s
<1>3. \A k \in 0 .. N : s[k] = Step(s, k)
  <2> HIDE DEF Step
  <2> QED
    BY <1>2
<1>4. 0 \in S
  BY <1>3 DEF PartialSums
<1>5. ASSUME NEW k \in 1 .. N, k - 1 \in S PROVE k \in S
  <2>1. k \in 0 .. N /\ k - 1 \in 0 .. N /\ k # 0
    BY <1>5
  <2>2. s[k] = s[k - 1] + f[k]
    BY <1>3, <2>1
  <2>3. g[k] = g[k - 1] + f[k] /\ s[k - 1] = g[k - 1]
    BY <1>5 DEF PartialSums
  <2> QED
    BY <2>1, <2>2, <2>3
<1> HIDE DEF S
<1>6. N \in S
  <2>1. \A k \in 1 .. N : k - 1 \in S => k \in S
    BY <1>5
  <2>2. 0 .. N \subseteq S
    BY <1>4, <2>1, RangeInduction
  <2> QED
    BY <2>2
<1> QED
  BY <1>1, <1>6 DEF S

LEMMA SumOfZeros ==
  ASSUME NEW N \in Nat
  PROVE  SumUpTo([k \in 0 .. N |-> 0], N) = 0
<1> DEFINE f == [k \in 0 .. N |-> 0]
<1>1. PartialSums(f, f, N)
  BY DEF PartialSums
<1>2. f \in [0 .. N -> Int] /\ f[N] = 0
  OBVIOUS
<1> HIDE DEF f
<1>3. SumUpTo(f, N) = 0
  BY <1>1, <1>2, SumIsPartial
<1> QED
  BY <1>3 DEF f

\* Counting one more adds one to the sum.
LEMMA SumOfOneMore ==
  ASSUME NEW N \in Nat, NEW f \in [0 .. N -> Int], NEW j \in 0 .. N
  PROVE  /\ SumUpTo(f, N) \in Int
         /\ SumUpTo([f EXCEPT ![j] = @ + 1], N) = SumUpTo(f, N) + 1
<1> DEFINE f2 == [f EXCEPT ![j] = @ + 1]
<1>1. PICK g : PartialSums(f, g, N)
  BY PartialSumsExist
<1> DEFINE g2 == [k \in 0 .. N |-> IF k >= j THEN g[k] + 1 ELSE g[k]]
<1>2. f2 \in [0 .. N -> Int] /\ \A k \in 0 .. N : f2[k] = IF k = j THEN f[k] + 1 ELSE f[k]
  OBVIOUS
<1>3. g2 \in [0 .. N -> Int] /\ \A k \in 0 .. N : g2[k] = IF k >= j THEN g[k] + 1 ELSE g[k]
  BY <1>1 DEF PartialSums
<1> HIDE DEF f2, g2
<1>4. g2[0] = f2[0]
  <2>1. 0 \in 0 .. N /\ j \in Nat /\ (0 >= j <=> j = 0)
    OBVIOUS
  <2>2. g[0] = f[0]
    BY <1>1 DEF PartialSums
  <2> QED
    BY <1>2, <1>3, <2>1, <2>2
<1>5. ASSUME NEW k \in 1 .. N PROVE g2[k] = g2[k - 1] + f2[k]
  <2>1. k \in 0 .. N /\ k - 1 \in 0 .. N /\ g[k] \in Int /\ g[k - 1] \in Int /\ f[k] \in Int
    BY <1>1 DEF PartialSums
  <2>2. g[k] = g[k - 1] + f[k]
    BY <1>1 DEF PartialSums
  <2>3. f2[k] = IF k = j THEN f[k] + 1 ELSE f[k]
    BY <1>2, <2>1
  <2>4. /\ g2[k] = IF k >= j THEN g[k] + 1 ELSE g[k]
        /\ g2[k - 1] = IF k - 1 >= j THEN g[k - 1] + 1 ELSE g[k - 1]
    BY <1>3, <2>1
  <2>5. k \in Int /\ j \in Int
    OBVIOUS
  <2>6. CASE k = j
    <3>1. k >= j /\ ~(k - 1 >= j)
      BY <2>5, <2>6
    <3>2. g2[k] = g[k] + 1 /\ g2[k - 1] = g[k - 1] /\ f2[k] = f[k] + 1
      BY <2>3, <2>4, <2>6, <3>1
    <3>3. \A a, b \in Int : (a + b) + 1 = a + (b + 1)
      OBVIOUS
    <3>4. (g[k - 1] + f[k]) + 1 = g[k - 1] + (f[k] + 1)
      BY <2>1, <3>3
    <3>5. g2[k] = (g[k - 1] + f[k]) + 1 /\ g2[k - 1] + f2[k] = g[k - 1] + (f[k] + 1)
      BY <2>2, <3>2
    <3> QED
      BY <3>4, <3>5
  <2>7. CASE k > j
    <3>1. k >= j /\ k - 1 >= j /\ k # j
      BY <2>5, <2>7
    <3>2. g2[k] = g[k] + 1 /\ g2[k - 1] = g[k - 1] + 1 /\ f2[k] = f[k]
      BY <2>3, <2>4, <3>1
    <3> QED
      BY <2>1, <2>2, <3>2
  <2>8. CASE k < j
    <3>1. ~(k >= j) /\ ~(k - 1 >= j) /\ k # j
      BY <2>5, <2>8
    <3>2. g2[k] = g[k] /\ g2[k - 1] = g[k - 1] /\ f2[k] = f[k]
      BY <2>3, <2>4, <3>1
    <3> QED
      BY <2>2, <3>2
  <2> QED
    BY <2>5, <2>6, <2>7, <2>8
<1>6. PartialSums(f2, g2, N)
  BY <1>3, <1>4, <1>5 DEF PartialSums
<1>7. g[N] \in Int /\ g2[N] = g[N] + 1
  BY <1>1, <1>3 DEF PartialSums
<1>8. SumUpTo(f, N) = g[N] /\ SumUpTo(f2, N) = g2[N]
  BY <1>1, <1>2, <1>6, SumIsPartial
<1> QED
  BY <1>7, <1>8 DEF f2

\* Quotient and remainder are the only ones.
LEMMA QuotientIsUnique ==
  ASSUME NEW n \in Nat, NEW k \in Nat \ {0}, NEW a \in Nat, NEW r \in Nat, r < k, n = k * a + r
  PROVE  n \div k = a /\ n % k = r
<1> DEFINE b == n \div k
           u == n % k
<1>1. b \in Nat /\ u \in Nat /\ u < k /\ n = k * b + u
  BY Division
<1> HIDE DEF b, u
<1>2. k * a \in Nat /\ k * b \in Nat /\ k * (a - b) = k * a - k * b
  BY <1>1
<1>3. k * (a - b) < k /\ k * (a - b) > -k
  BY <1>1, <1>2
<1>4. a - b >= 1 => k * (a - b) >= k
  BY <1>1
<1>5. a - b <= -1 => k * (a - b) <= -k
  BY <1>1
<1>6. a = b
  BY <1>1, <1>2, <1>3, <1>4, <1>5
<1> QED
  BY <1>1, <1>2, <1>6 DEF b, u

\* A tick adds to the ticks of the schedule exactly if it is in a burst window.
LEMMA BurstTicksStep ==
  ASSUME NEW c \in StreamConfigs, NEW n \in Nat
  PROVE  /\ BurstTicks(c, n) \in Int
         /\ BurstTicks(c, n + 1) = BurstTicks(c, n) + (IF InBurstWindow(c, n) THEN 1 ELSE 0)
<1> DEFINE e == c.every
           l == c.length
           least == Smaller(l, e)
           a == n \div e
           r == n % e
<1>1. e \in Nat /\ l \in Nat
  BY StreamAssumption DEF StreamConfig
<1>2. CASE Mode(c) # "correlated_block_sparse_burst" \/ ~c.enabled \/ e = 0 \/ l = 0
  <2>1. ~InBurstWindow(c, n)
    BY <1>2 DEF InBurstWindow, Mode, Modes
  <2> QED
    BY <1>2, <2>1 DEF BurstTicks
<1>3. CASE ~(Mode(c) # "correlated_block_sparse_burst" \/ ~c.enabled \/ e = 0 \/ l = 0)
  <2>1. c.mode = "correlated_block_sparse_burst"
    BY <1>3 DEF Mode
  <2>2. InBurstWindow(c, n) <=> r < l
    BY <1>3, <2>1 DEF InBurstWindow
  <2>3. \A m \in Nat : BurstTicks(c, m) = (m \div e) * least + Smaller(m % e, l)
    BY <1>3 DEF BurstTicks
  <2>4. a \in Nat /\ r \in Nat /\ r < e /\ n = e * a + r /\ e \in Nat \ {0} /\ l \in Nat \ {0}
    BY <1>1, <1>3, Division
  <2>5. BurstTicks(c, n) = a * least + Smaller(r, l) /\ n + 1 \in Nat
    BY <2>3
  <2>6. BurstTicks(c, n + 1) = ((n + 1) \div e) * least + Smaller((n + 1) % e, l)
    BY <2>3, <2>5
  <2> HIDE DEF a, r, e, l
  <2>7. least \in Nat /\ a * least \in Nat /\ (a + 1) * least = a * least + least
    <3>1. least \in Nat
      BY <2>4 DEF Smaller
    <3> HIDE DEF least
    <3> QED
      BY <2>4, <3>1
  <2>8. CASE r + 1 < e
    <3>1. n + 1 = e * a + (r + 1) /\ r + 1 \in Nat
      BY <2>4
    <3>2. (n + 1) \div e = a /\ (n + 1) % e = r + 1
      BY <2>4, <2>5, <2>8, <3>1, QuotientIsUnique
    <3> HIDE DEF least
    <3>3. BurstTicks(c, n + 1) = a * least + Smaller(r + 1, l)
      BY <2>6, <3>2
    <3> QED
      BY <2>2, <2>4, <2>5, <2>7, <3>3 DEF Smaller
  <2>9. CASE r + 1 = e
    <3>1. n + 1 = e * (a + 1) + 0 /\ a + 1 \in Nat
      <4>1. e * (a + 1) = e * a + e
        BY <2>4
      <4> QED
        BY <2>4, <2>9, <4>1
    <3>2. (n + 1) \div e = a + 1 /\ (n + 1) % e = 0
      <4> DEFINE n1 == n + 1
                 a1 == a + 1
      <4>1. n1 \in Nat /\ a1 \in Nat /\ e \in Nat \ {0} /\ 0 < e /\ n1 = e * a1 + 0
        BY <2>4, <2>5, <3>1
      <4> HIDE DEF n1, a1
      <4>2. n1 \div e = a1 /\ n1 % e = 0
        BY <4>1, QuotientIsUnique
      <4> QED
        BY <4>2 DEF n1, a1
    <3>3. Smaller(0, l) = 0
      BY <2>4 DEF Smaller
    <3>4. BurstTicks(c, n + 1) = a * least + least
      <4> HIDE DEF least
      <4> QED
        BY <2>6, <2>7, <3>2, <3>3
    <3>5. Smaller(r, l) + (IF r < l THEN 1 ELSE 0) = least
      BY <2>4, <2>9 DEF Smaller
    <3> HIDE DEF least
    <3>6. Smaller(r, l) \in Nat
      BY <2>4 DEF Smaller
    <3> QED
      BY <2>2, <2>5, <2>7, <3>4, <3>5, <3>6
  <2> QED
    BY <2>4, <2>8, <2>9
<1> QED
  BY <1>2, <1>3

\* What was measured so far, and that a tick in flight is told apart by its window.
BurstsCounted ==
    /\ outside \in [0 .. NumBlocks -> Nat]
    /\ changed \subseteq Blocks
    /\ running => (inBurst <=> InBurstWindow(streamCfg, GlobalTick))
    /\ BurstsOnSchedule

\* The blocks reported are blocks, as many as there are at most.
LEMMA ChangedCount ==
  ASSUME changed \subseteq Blocks
  PROVE  Cardinality(changed) \in 0 .. NumBlocks
<1>1. IsFiniteSet(Blocks) /\ Cardinality(Blocks) = NumBlocks
  <2>1. NumBlocks \in Nat \ {0}
    BY SystemAssumption
  <2> QED
    BY <2>1, FS_Interval DEF Blocks
<1>2. IsFiniteSet(changed) /\ Cardinality(changed) <= Cardinality(Blocks)
  BY <1>1, FS_Subset
<1>3. Cardinality(changed) \in Nat
  BY <1>2, FS_CardinalityType
<1> QED
  BY <1>1, <1>2, <1>3

LEMMA BurstsInit == BenchInit => BurstsCounted
<1> SUFFICES ASSUME BenchInit PROVE BurstsCounted
  OBVIOUS
<1>1. NumBlocks \in Nat
  BY SystemAssumption
<1>2. plan \in Plans /\ phase = "setup" /\ ~running /\ streamCfg \in StreamConfigs
  BY DEF BenchInit, StreamInit
<1>3. outside = [k \in 0 .. NumBlocks |-> 0] /\ changed = {}
  BY DEF BenchInit, StreamInit
<1>4. OutsideCount = 0
  BY <1>1, <1>3, SumOfZeros DEF OutsideCount
<1>5. Measured = 0 /\ plan.warmup \in Nat
  BY <1>2, PlanNumbers DEF Measured
<1>6. BurstTicks(streamCfg, plan.warmup) \in Int
  BY <1>2, <1>5, BurstTicksStep
<1>7. BurstsOnSchedule
  BY <1>4, <1>5, <1>6 DEF BurstsOnSchedule
<1> QED
  BY <1>2, <1>3, <1>7 DEF BurstsCounted

\* The stream reports some blocks, and the window of the tick it is asked for.
LEMMA ProposalInWindow ==
  ASSUME NEW n, NextProposal(n)
  PROVE  /\ streamCfg' = streamCfg
         /\ changed' \subseteq Blocks
         /\ inBurst' <=> InBurstWindow(streamCfg, n)
<1>1. PICK u \in 0 .. UDen - 1 : DenseTick(u) \/ CorrelatedTick(n, u)
  BY DEF NextProposal
<1>2. CASE DenseTick(u)
  <2>1. streamCfg.mode # "correlated_block_sparse_burst"
    BY <1>2 DEF DenseTick, Mode, Modes
  <2> QED
    BY <1>2, <2>1, BenchAssumption DEF DenseTick, InBurstWindow
<1>3. CASE CorrelatedTick(n, u)
  BY <1>3, BenchAssumption DEF CorrelatedTick, Samples
<1> QED
  BY <1>1, <1>2, <1>3

LEMMA BurstsStep ==
  TicksInPhase /\ ConfigKept /\ BurstsCounted /\ [BenchNext]_<<vars, benchVars>> => BurstsCounted'
<1> SUFFICES ASSUME TicksInPhase, ConfigKept, BurstsCounted, [BenchNext]_<<vars, benchVars>>
             PROVE  BurstsCounted'
  OBVIOUS
<1>0. plan \in Plans /\ plan.warmup \in Nat /\ t \in Nat /\ NumBlocks \in Nat
  BY PlanNumbers, SystemAssumption DEF TicksInPhase
<1>1. ASSUME UNCHANGED <<streamVars, plan, outside>>, UNCHANGED <<phase, t, running>> \/ ~running',
             Measured' = Measured
      PROVE  BurstsCounted'
  <2>1. running' => running /\ GlobalTick' = GlobalTick
    BY <1>1 DEF GlobalTick
  <2>2. OutsideCount' = OutsideCount
    BY <1>1 DEF OutsideCount
  <2>3. BurstsOnSchedule'
    BY <1>1, <2>2 DEF BurstsCounted, BurstsOnSchedule, streamVars
  <2> QED
    BY <1>1, <2>1, <2>3 DEF BurstsCounted, streamVars
<1>2. CASE Configure
  <2>1. UNCHANGED <<streamVars, plan, outside, running>> /\ phase = "setup" /\ phase' = "warmup"
    BY <1>2 DEF Configure, countVars
  <2> QED
    BY <1>1, <2>1 DEF TicksInPhase, Measured
<1>3. CASE NextTick
  <2>1. UNCHANGED <<plan, phase, t, outside>> /\ NextProposal(GlobalTick)
    BY <1>3 DEF NextTick, countVars
  <2>2. streamCfg' = streamCfg /\ changed' \subseteq Blocks
    BY <2>1, ProposalInWindow
  <2>3. inBurst' <=> InBurstWindow(streamCfg', GlobalTick')
    <3>1. GlobalTick' = GlobalTick
      BY <2>1 DEF GlobalTick
    <3> QED
      BY <2>1, <2>2, <3>1, ProposalInWindow
  <2>4. BurstsOnSchedule'
    <3>1. Measured' = Measured /\ OutsideCount' = OutsideCount
      BY <2>1 DEF Measured, OutsideCount
    <3> QED
      BY <2>1, <2>2, <3>1 DEF BurstsCounted, BurstsOnSchedule
  <2> QED
    BY <2>1, <2>2, <2>3, <2>4 DEF BurstsCounted
<1>4. CASE Work \/ UNCHANGED <<vars, benchVars>>
  <2>1. UNCHANGED <<streamVars, plan, outside, phase, t, running>>
    BY <1>4 DEF Work, benchVars, countVars
  <2> QED
    BY <1>1, <2>1 DEF Measured
<1>5. CASE Measure
  <2>1. UNCHANGED <<streamVars, plan, phase>> /\ t' = t + 1 /\ running /\ ~running' /\ phase # "setup"
    BY <1>5 DEF Measure, TicksInPhase
  <2>2. CASE phase = "warmup"
    <3>1. outside' = outside
      BY <1>5, <2>2 DEF Measure, countVars
    <3> QED
      BY <1>1, <2>1, <2>2, <3>1 DEF Measured
  <2>3. CASE phase # "warmup"
    <3> DEFINE k == Cardinality(changed)
               c == streamCfg
               n == plan.warmup + t
    <3>1. /\ GlobalTick = n /\ Measured = t /\ Measured' = t + 1
          /\ plan.warmup + Measured = n /\ plan'.warmup + Measured' = n + 1
      BY <1>0, <2>1, <2>3 DEF GlobalTick, Measured, TicksInPhase, Phases
    <3>2. inBurst <=> InBurstWindow(c, n)
      BY <2>1, <3>1 DEF BurstsCounted
    <3>3. outside' = IF inBurst THEN outside ELSE [outside EXCEPT ![k] = @ + 1]
      BY <1>5, <2>3 DEF Measure
    <3>4. k \in 0 .. NumBlocks
      BY ChangedCount DEF BurstsCounted
    <3>5. outside \in [0 .. NumBlocks -> Nat] /\ outside \in [0 .. NumBlocks -> Int]
      BY DEF BurstsCounted
    <3> HIDE DEF k
    <3>6. outside' \in [0 .. NumBlocks -> Nat]
      BY <3>3, <3>4, <3>5
    <3>7. /\ OutsideCount \in Int
          /\ OutsideCount' = OutsideCount + (IF inBurst THEN 0 ELSE 1)
      <4>1. SumUpTo(outside, NumBlocks) \in Int
        BY <1>0, <3>4, <3>5, SumOfOneMore
      <4>2. SumUpTo([outside EXCEPT ![k] = @ + 1], NumBlocks) = SumUpTo(outside, NumBlocks) + 1
        BY <1>0, <3>4, <3>5, SumOfOneMore
      <4> QED
        BY <3>3, <4>1, <4>2 DEF OutsideCount
    <3>8. /\ BurstTicks(c, n) \in Int /\ BurstTicks(c, plan.warmup) \in Int
          /\ BurstTicks(c, n + 1) = BurstTicks(c, n) + (IF InBurstWindow(c, n) THEN 1 ELSE 0)
      <4>1. n \in Nat /\ c \in StreamConfigs
        BY <1>0 DEF ConfigKept
      <4> HIDE DEF n, c
      <4> QED
        BY <1>0, <4>1, BurstTicksStep
    <3>9. streamCfg' = c /\ plan' = plan /\ changed' = changed
      BY <2>1 DEF streamVars
    <3>10. t - OutsideCount = BurstTicks(c, n) - BurstTicks(c, plan.warmup)
      BY <3>1 DEF BurstsCounted, BurstsOnSchedule
    <3>11. BurstsOnSchedule'
      <4>1. (t + 1) - OutsideCount' = BurstTicks(c, n + 1) - BurstTicks(c, plan.warmup)
        <5> DEFINE u == OutsideCount
                   before == BurstTicks(c, plan.warmup)
                   now == BurstTicks(c, n)
        <5>1. t \in Int /\ u \in Int /\ before \in Int /\ now \in Int
          BY <1>0, <3>7, <3>8 DEF TicksInPhase
        <5>2. OutsideCount' = u + (IF inBurst THEN 0 ELSE 1)
          BY <3>7
        <5>3. BurstTicks(c, n + 1) = now + (IF inBurst THEN 1 ELSE 0)
          BY <3>2, <3>8
        <5>4. t - u = now - before
          BY <3>10
        <5> HIDE DEF u, before, now
        <5>5. CASE inBurst
          <6>1. OutsideCount' = u /\ BurstTicks(c, n + 1) = now + 1
            BY <5>1, <5>2, <5>3, <5>5
          <6> QED
            BY <5>1, <5>4, <6>1 DEF before
        <5>6. CASE ~inBurst
          <6>1. OutsideCount' = u + 1 /\ BurstTicks(c, n + 1) = now
            BY <5>1, <5>2, <5>3, <5>6
          <6> QED
            BY <5>1, <5>4, <6>1 DEF before
        <5> QED
          BY <5>5, <5>6
      <4>2. /\ Measured' = t + 1 /\ plan'.warmup + Measured' = n + 1
            /\ streamCfg' = c /\ plan'.warmup = plan.warmup
        BY <3>1, <3>9
      <4> HIDE DEF n, c
      <4>3. /\ BurstTicks(streamCfg', plan'.warmup + Measured') = BurstTicks(c, n + 1)
            /\ BurstTicks(streamCfg', plan'.warmup) = BurstTicks(c, plan.warmup)
        BY <4>2
      <4>4. Measured' - OutsideCount' = (t + 1) - OutsideCount'
        BY <4>2
      <4> QED
        BY <4>1, <4>3, <4>4 DEF BurstsOnSchedule
    <3> QED
      BY <2>1, <3>6, <3>9, <3>11 DEF BurstsCounted
  <2> QED
    BY <2>2, <2>3
<1>6. CASE EndPhase
  <2>1. /\ UNCHANGED <<streamVars, plan, outside, running>>
        /\ phase \in {"warmup", "latency", "feas"} /\ ~running
        /\ phase' = CASE phase = "warmup"  -> "latency"
                      [] phase = "latency" -> "feas"
                      [] phase = "feas"    -> "judge"
        /\ t' = IF phase = "warmup" THEN 0 ELSE t
    BY <1>6 DEF EndPhase, Ticking, countVars
  <2>2. Measured' = Measured
    BY <2>1 DEF Measured
  <2> QED
    BY <1>1, <2>1, <2>2
<1>7. ASSUME NEW a \in ScriptArgs, Judge(a) PROVE BurstsCounted'
  <2>1. /\ UNCHANGED <<streamVars, plan, outside, t, running>>
        /\ phase = "judge" /\ phase' = "judged"
    BY <1>7 DEF Judge, countVars
  <2> QED
    BY <1>1, <2>1 DEF Measured, TicksInPhase
<1>8. CASE Decide
  <2>1. /\ UNCHANGED <<streamVars, plan, outside, t, running>>
        /\ phase = "judged" /\ phase' = "decided"
    BY <1>8 DEF Decide, countVars
  <2> QED
    BY <1>1, <2>1 DEF Measured, TicksInPhase
<1> QED
  BY <1>2, <1>3, <1>4, <1>5, <1>6, <1>7, <1>8 DEF BenchNext

\* However long the phases and whatever the plan, the measured ticks outside bursts are as
\* many as the schedule says: the tick numbers of bench_baselines.cpp:626, 674 and 801 go on
\* from phase to phase, and no window is met once too often or once too seldom.
THEOREM BurstsStayOnSchedule == BenchSpec => []BurstsOnSchedule
<1>1. BurstsCounted => BurstsOnSchedule
  BY DEF BurstsCounted
<1>2. BInv => TicksInPhase
  BY DEF BInv
<1> QED
  BY <1>1, <1>2, BurstsInit, BurstsStep, RunInvariant, BenchRunsStream, StreamKeepsConfig, PTL
     DEF BenchSpec
=============================================================================
