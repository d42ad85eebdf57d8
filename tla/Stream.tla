------------------------------- MODULE Stream -------------------------------
(***************************************************************************)
(* CorrelatedBlockSparseStream (src/src/stream_gen.cpp): the proposals a   *)
(* bench feeds to the projector.  A tick either redraws every block        *)
(* (iid_dense), or lets every block drift towards zero, adds noise to a    *)
(* random sample of blocks and clamps the result; only the sample is       *)
(* reported as changed.  Inside a burst window samples and noise grow.     *)
(*                                                                         *)
(* StreamBlocks have one coordinate, in integer units; the drift is rounded      *)
(* towards zero.  Probabilities are in units of 1 / UDen, and a draw of    *)
(* unif01_ is a number u below UDen.  The order in which shuffle leaves    *)
(* all_blocks_scratch_ is left out: its first k entries are any k blocks.  *)
(***************************************************************************)
EXTENDS Integers, FiniteSets

CONSTANTS
    StreamBlocks,  \* the blocks of the layout
    StreamConfigs, \* the stream sections of the configurations
    UDen           \* resolution of the probabilities

Modes == {"iid_dense", "correlated_block_sparse", "correlated_block_sparse_burst"}

StreamConfig ==
    [mode : STRING, rhoNum : Nat, rhoDen : Nat \ {0}, clampInf : Int,
     kSmall : Int, kSmallAlt : Int, kJump : Int, pAlt : Nat, pJump : Nat,
     deltaSmall : Int, deltaJump : Int, qSmall : Nat, qBig : Nat, pBig : Nat,
     enabled : BOOLEAN, every : Nat, length : Nat, kBurst : Int, kJumpInBurst : Int,
     pJumpInBurst : Nat, deltaBurst : Int, deltaJumpInBurst : Int]

ASSUME StreamAssumption ==
    /\ IsFiniteSet(StreamBlocks) /\ StreamBlocks # {}
    /\ UDen \in Nat \ {0}
    /\ \A c \in StreamConfigs : c \in StreamConfig

VARIABLES
    streamCfg, \* cfg_
    drawn,     \* q_prev_, which every tick leaves equal to the proposal
    changed,   \* changed_blocks_out of the last tick
    inBurst    \* info_out->in_burst of the last tick

streamVars == <<streamCfg, drawn, changed, inBurst>>

-----------------------------------------------------------------------------

\* parse_stream_mode_or_default
Mode(c) == IF c.mode \in Modes THEN c.mode ELSE "iid_dense"

\* in_burst_window
InBurstWindow(c, t) ==
    /\ c.mode = "correlated_block_sparse_burst" /\ c.enabled
    /\ c.every # 0 /\ c.length # 0
    /\ t % c.every < c.length

\* choose_churn_params before its clamping, for a draw u.
Churn(c, t, u) ==
    IF InBurstWindow(c, t)
    THEN IF u < c.pJumpInBurst THEN [k |-> c.kJumpInBurst, delta |-> c.deltaJumpInBurst]
         ELSE [k |-> c.kBurst, delta |-> c.deltaBurst]
    ELSE IF u < c.pJump THEN [k |-> c.kJump, delta |-> c.deltaJump]
    ELSE IF u < c.pJump + c.pAlt THEN [k |-> c.kSmallAlt, delta |-> c.deltaSmall]
    ELSE [k |-> c.kSmall, delta |-> c.deltaSmall]

Between(lo, x, hi) == IF x < lo THEN lo ELSE IF x > hi THEN hi ELSE x

SampleSize(c, t, u) == Between(0, Churn(c, t, u).k, Cardinality(StreamBlocks))
Amplitude(c, t, u) == IF Churn(c, t, u).delta < 0 THEN 0 ELSE Churn(c, t, u).delta

\* sample_unique_blocks: any k of the blocks.
Samples(k) == {S \in SUBSET StreamBlocks : Cardinality(S) = k}

\* ar_rho * x
Drift(c, x) ==
    IF x >= 0 THEN (c.rhoNum * x) \div c.rhoDen ELSE -((c.rhoNum * (-x)) \div c.rhoDen)

Clamped(c, x) == IF c.clampInf > 0 THEN Between(-c.clampInf, x, c.clampInf) ELSE x

\* Bug: the noise is added after the clamp.
NoiseAfterClamp(c, x, noise) == Clamped(c, Drift(c, x)) + noise

\* One coordinate of the next proposal: drift, noise, clamp.
NextPart(c, x, noise) == Clamped(c, Drift(c, x) + noise)

-----------------------------------------------------------------------------

StreamInit ==
    /\ streamCfg \in StreamConfigs
    /\ drawn = [b \in StreamBlocks |-> 0]
    /\ changed = {}
    /\ inBurst = FALSE

\* next in mode iid_dense: every block is redrawn and reported.
DenseTick(u) ==
    /\ Mode(streamCfg) = "iid_dense"
    /\ LET reach == IF u < streamCfg.pBig THEN streamCfg.qBig ELSE streamCfg.qSmall
       IN  drawn' \in [StreamBlocks -> -reach .. reach]
    /\ changed' = StreamBlocks
    /\ inBurst' = FALSE
    /\ UNCHANGED streamCfg

\* Bug: the noise goes to one sample of blocks and another one is reported.
ReportsAnotherSample(tick, u) ==
    /\ Mode(streamCfg) # "iid_dense"
    /\ changed' \in Samples(SampleSize(streamCfg, tick, u))
    /\ \E S \in Samples(SampleSize(streamCfg, tick, u)) :
       \E noise \in [S -> -Amplitude(streamCfg, tick, u) .. Amplitude(streamCfg, tick, u)] :
        drawn' = [b \in StreamBlocks |->
                    NextPart(streamCfg, drawn[b], IF b \in S THEN noise[b] ELSE 0)]
    /\ inBurst' = InBurstWindow(streamCfg, tick)
    /\ UNCHANGED streamCfg

\* next in the correlated modes: every block moves, the sample is reported.
CorrelatedTick(tick, u) ==
    /\ Mode(streamCfg) # "iid_dense"
    /\ changed' \in Samples(SampleSize(streamCfg, tick, u))
    /\ \E noise \in [changed' -> -Amplitude(streamCfg, tick, u) .. Amplitude(streamCfg, tick, u)] :
        drawn' = [b \in StreamBlocks |->
                    NextPart(streamCfg, drawn[b], IF b \in changed' THEN noise[b] ELSE 0)]
    /\ inBurst' = InBurstWindow(streamCfg, tick)
    /\ UNCHANGED streamCfg

NextProposal(tick) == \E u \in 0 .. UDen - 1 : DenseTick(u) \/ CorrelatedTick(tick, u)

\* The caller passes the tick number; next keeps none.
StreamNext == \E tick \in Nat : NextProposal(tick)

StreamSpec == StreamInit /\ [][StreamNext]_streamVars

-----------------------------------------------------------------------------
\* Properties.

Abs(x) == IF x < 0 THEN -x ELSE x

Largest(S) == CHOOSE x \in S : \A y \in S : y <= x

\* The largest noise of any tick.
MaxAmplitude(c) ==
    Largest({0, c.deltaSmall, c.deltaJump, c.deltaBurst, c.deltaJumpInBurst})

\* Proposals never leave their range, however long the stream runs and whatever the
\* bursts add: the clamp bounds them when there is one, and without it the drift
\* does, at the fixed point MaxAmplitude / (1 - rho) of next's recurrence.
ProposalsBounded ==
    \A b \in StreamBlocks :
        LET c == streamCfg
            x == Abs(drawn[b])
        IN  IF Mode(c) = "iid_dense" THEN x <= c.qSmall \/ x <= c.qBig
            ELSE /\ c.clampInf > 0 => x <= c.clampInf
                 /\ c.rhoNum < c.rhoDen =>
                        (c.rhoDen - c.rhoNum) * x <= c.rhoDen * MaxAmplitude(c)

\* A block that is not reported as changed moves too, but with rho at most 1 only
\* towards zero and never across it: jumps are always reported (changed_blocks_out).
UnreportedOnlyDrift ==
    [][\A b \in StreamBlocks \ changed' : streamCfg.rhoNum <= streamCfg.rhoDen =>
          /\ Abs(drawn'[b]) <= Abs(drawn[b])
          /\ drawn'[b] * drawn[b] >= 0]_streamVars
=============================================================================
