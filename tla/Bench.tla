------------------------------- MODULE Bench -------------------------------
(***************************************************************************)
(* bench_baselines (src/benches/bench_baselines.cpp) from the moment its   *)
(* configuration is accepted: the stream feeds the projector tick by tick  *)
(* through a warmup, a latency and a feasibility phase, the output of      *)
(* every measured tick is scanned, and the gates are judged; then the      *)
(* script that called it (src/tools/run_stage6_gates.sh) passes or fails.  *)
(*                                                                         *)
(* The projector is module Projector, one action per turn of its loop; the *)
(* stream is module Stream.  Outcomes that come from elsewhere are chosen: *)
(* the reference solver's answers and its distance from ours, the          *)
(* latencies (G3), the allocations (G5) and the oracle trials (G1).        *)
(***************************************************************************)
EXTENDS Projector, Stream, FiniteSets

CONSTANTS
    Plans,         \* numbers of warmup, latency, feas and sample ticks
    Scale,         \* one unit of the stream in units of the projector
    ScriptArgs,    \* arguments of the script
    OutsideLimit   \* 4, the bound of gate G_stream on its 99.9% quantile

ASSUME BenchAssumption ==
    /\ StreamBlocks = Blocks
    /\ Plans \subseteq [warmup : Nat, latency : Nat, feas : Nat, sample : Nat]
    /\ ScriptArgs \subseteq [enforceG3 : BOOLEAN, claim : BOOLEAN,
                             allowSkip : BOOLEAN, macosEquiv : BOOLEAN]

\* How far a coordinate of a stream can get (ProposalsBounded).
Reach(c) ==
    IF Mode(c) = "iid_dense" THEN -Larger(c.qSmall, c.qBig) .. Larger(c.qSmall, c.qBig)
    ELSE IF c.clampInf > 0 THEN -c.clampInf .. c.clampInf
    ELSE IF c.rhoNum < c.rhoDen
    THEN LET fixed == (c.rhoDen * MaxAmplitude(c)) \div (c.rhoDen - c.rhoNum)
         IN  -fixed .. fixed
    ELSE Int

\* The projector can be called with whatever a stream proposes.
ASSUME ProposalAssumption ==
    \A c \in StreamConfigs : \A d \in [StreamBlocks -> Reach(c)] :
        [b \in Blocks |-> Scale * d[b]] \in Proposals

VARIABLES
    structured, \* valid.mode = STRUCTURED_FAST, which structure_valid implies
    plan, phase,
    t,          \* tick of the phase; the feas phase goes on counting from latency
    running,    \* project has been called for tick t and is not yet measured
    qOut,       \* q_out
    initCalls,  \* oracle.total_init_tick_calls()
    fallbackCount, g2Violations,
    outside,    \* how many ticks outside bursts changed k blocks, for each k
    insideOk,   \* stream_inside_limit_ok
    samples,    \* tick_samples rows
    compared, osqpAvailable, gapsOk, \* samples compared, by OSQP at least once, all close
    gates,      \* gates.json
    args, passed \* the script's arguments and verdict

countVars  == <<fallbackCount, g2Violations, outside, insideOk, samples, compared,
                osqpAvailable, gapsOk>>
endVars    == <<gates, args, passed>>
benchVars  == <<structured, streamVars, plan, phase, t, running, qOut, initCalls,
                countVars, endVars>>

\* Bug: the ticks of the measured phases start over at 0.
TickOfPhase == t

\* The tick number that stream.next sees.
GlobalTick == IF phase = "warmup" THEN t ELSE plan.warmup + t

-----------------------------------------------------------------------------

\* Bug: the stride is taken the other way round.
SampledInverse(tick, total, sample) ==
    /\ sample # 0
    /\ \/ sample >= total
       \/ tick % Larger(1, sample \div total) = 0

\* sampled_tick
Sampled(tick, total, sample) ==
    /\ sample # 0
    /\ \/ sample >= total
       \/ tick % Larger(1, total \div sample) = 0

\* After set_options: opts.force_full_rescan = (valid.mode == BRUTEFORCE_ONLY), and a
\* system that is not structured is one block.
BenchInit ==
    /\ Init
    /\ structured \in {TRUE, NumBlocks > 1}
    /\ opts.forceFullRescan = ~structured
    /\ StreamInit
    /\ plan \in Plans
    /\ phase = "setup"
    /\ t = 0
    /\ running = FALSE
    /\ qOut = Origin
    /\ initCalls = 0
    /\ fallbackCount = 0
    /\ g2Violations = 0
    /\ outside = [k \in 0 .. NumBlocks |-> 0]
    /\ insideOk = TRUE
    /\ samples = 0
    /\ compared = 0
    /\ osqpAvailable = FALSE
    /\ gapsOk = TRUE
    /\ gates = <<>>
    /\ args = <<>>
    /\ passed = FALSE

\* set_rhs, once for the whole run
Configure ==
    /\ phase = "setup"
    /\ \E r \in RightHandSides : SetRhs(r)
    /\ phase' = "warmup"
    /\ UNCHANGED <<structured, streamVars, plan, t, running, qOut, initCalls, countVars, endVars>>

PhaseEnd ==
    CASE phase = "warmup"  -> plan.warmup
      [] phase = "latency" -> plan.latency
      [] phase = "feas"    -> plan.feas

Ticking == phase \in {"warmup", "latency", "feas"} /\ ~running

\* stream.next, then the start of project on what it proposes.
NextTick ==
    /\ Ticking
    /\ t < PhaseEnd
    /\ NextProposal(GlobalTick)
    /\ StartTick([b \in Blocks |-> Scale * drawn'[b]])
    /\ initCalls' = initCalls + (IF opts.forceFullRescan \/ ~havePrev THEN 1 ELSE 0)
    /\ running' = TRUE
    /\ UNCHANGED <<structured, plan, phase, t, qOut, countVars, endVars>>

\* A turn of the projector's loop.
Work == Loop /\ UNCHANGED benchVars

\* What a sampled tick that did not fall back learns from the reference solvers: OSQP
\* or else the dense reference answers, close to ours or not, or neither does.
Compare ==
    \E outcome \in {"osqp", "osqp far", "dense", "dense far", "none"} :
        /\ compared' = IF outcome = "none" THEN compared ELSE compared + 1
        /\ osqpAvailable' = (osqpAvailable \/ outcome \in {"osqp", "osqp far"})
        /\ gapsOk' = (gapsOk /\ outcome \notin {"osqp far", "dense far"})

\* The bookkeeping after project has returned; a refused call that wrote no q_out leaves the
\* point of the tick before it there, and that one is scanned.
Measure ==
    /\ running /\ pc = "idle"
    /\ running' = FALSE
    /\ t' = t + 1
    /\ qOut' = IF ret.kind = "refused" /\ ret.out = Unwritten THEN qOut ELSE ret.out
    /\ IF phase = "warmup" THEN UNCHANGED countVars
       ELSE /\ fallbackCount' = fallbackCount + (IF ret.kind = "fallback" THEN 1 ELSE 0)
            /\ g2Violations' = g2Violations
                               + (IF ScanWorst(qOut', rhs).violation > 0 THEN 1 ELSE 0)
            /\ IF inBurst
               THEN /\ insideOk' = (insideOk /\ Cardinality(changed) <=
                                        Larger(streamCfg.kBurst, streamCfg.kJumpInBurst))
                    /\ UNCHANGED outside
               ELSE /\ outside' = [outside EXCEPT ![Cardinality(changed)] = @ + 1]
                    /\ UNCHANGED insideOk
            /\ IF phase = "latency" /\ Sampled(t, plan.latency, plan.sample)
               THEN /\ samples' = samples + 1
                    /\ IF ret.kind = "fallback"
                       THEN UNCHANGED <<compared, osqpAvailable, gapsOk>>
                       ELSE Compare
               ELSE UNCHANGED <<samples, compared, osqpAvailable, gapsOk>>
    /\ UNCHANGED <<vars, structured, streamVars, plan, phase, initCalls, endVars>>

\* Bug: the feas loop waits for its last tick to be met exactly.
EndPhaseExactly ==
    /\ Ticking
    /\ t = PhaseEnd
    /\ phase' = CASE phase = "warmup"  -> "latency"
                  [] phase = "latency" -> "feas"
                  [] phase = "feas"    -> "judge"
    /\ t' = IF phase = "warmup" THEN 0 ELSE t
    /\ UNCHANGED <<vars, structured, streamVars, plan, running, qOut, initCalls,
                   countVars, endVars>>

\* The next phase; there is no feas tick if latency was at least as long.
EndPhase ==
    /\ Ticking
    /\ t >= PhaseEnd
    /\ phase' = CASE phase = "warmup"  -> "latency"
                  [] phase = "latency" -> "feas"
                  [] phase = "feas"    -> "judge"
    /\ t' = IF phase = "warmup" THEN 0 ELSE t
    /\ UNCHANGED <<vars, structured, streamVars, plan, running, qOut, initCalls,
                   countVars, endVars>>

-----------------------------------------------------------------------------
\* The verdicts.

SumUpTo(f, n) == LET s[k \in 0 .. n] == IF k = 0 THEN f[0] ELSE s[k - 1] + f[k] IN s[n]

OutsideCount   == SumUpTo(outside, NumBlocks)
OutsideChanged == SumUpTo([k \in 0 .. NumBlocks |-> k * outside[k]], NumBlocks)

\* histogram_quantile_int of 0.999, whose rank is rounded up.
OutsideQuantile ==
    CHOOSE k \in 0 .. NumBlocks :
        /\ 1000 * SumUpTo(outside, k) >= 999 * OutsideCount
        /\ k = 0 \/ 1000 * SumUpTo(outside, k - 1) < 999 * OutsideCount

GStream ==
    /\ Mode(streamCfg) # "iid_dense"
    /\ 10 * OutsideChanged <= 12 * OutsideCount
    /\ OutsideQuantile <= OutsideLimit
    /\ insideOk

\* The projector never clears the active mask, so clears are always 0.
G6 == structured /\ ~opts.forceFullRescan => initCalls = 1

G4Close == compared > 0 /\ gapsOk /\ g2Violations = 0

\* The gates as bench_baselines writes them.  It refuses a claim about an
\* unstructured or a dense run beforehand.
Judge(a) ==
    /\ phase = "judge"
    /\ a.claim => structured /\ Mode(streamCfg) # "iid_dense"
    /\ phase' = "judged"
    /\ args' = a
    /\ \E g1 \in BOOLEAN, g3 \in BOOLEAN, g5 \in BOOLEAN :
        gates' = [gStream |-> GStream, g1 |-> g1, g2 |-> g2Violations, g3 |-> g3,
                  g4Status |-> IF ~osqpAvailable THEN "SKIPPED"
                               ELSE IF G4Close THEN "PASS" ELSE "FAIL",
                  g4 |-> IF osqpAvailable THEN G4Close ELSE a.allowSkip,
                  g5 |-> g5, g6 |-> G6]
    /\ UNCHANGED <<vars, structured, streamVars, plan, t, running, qOut, initCalls,
                   countVars, passed>>

\* Bug: a skipped comparison passes a claim like it passes a development run.
G4AcceptedAsDev == gates.g4Status = "PASS" => gates.g4

\* The script's view of G4: development runs may skip the comparison.
G4Accepted ==
    IF args.claim THEN gates.g4 /\ (gates.g4Status = "SKIPPED" => args.allowSkip)
    ELSE gates.g4Status # "FAIL"

\* run_stage6_gates.sh: the latencies it compares itself are those of another outcome.
Decide ==
    /\ phase = "judged"
    /\ phase' = "decided"
    /\ \E equivalent \in BOOLEAN :
        passed' = (/\ gates.g1 /\ gates.g2 = 0 /\ gates.g5 /\ gates.g6
                   /\ args.claim => gates.gStream
                   /\ G4Accepted
                   /\ structured /\ args.enforceG3 =>
                        IF args.macosEquiv THEN equivalent ELSE gates.g3)
    /\ UNCHANGED <<vars, structured, streamVars, plan, t, running, qOut, initCalls,
                   countVars, gates, args>>

BenchNext ==
    \/ Configure
    \/ NextTick
    \/ Work
    \/ Measure
    \/ EndPhase
    \/ \E a \in ScriptArgs : Judge(a)
    \/ Decide

BenchSpec == BenchInit /\ [][BenchNext]_<<vars, benchVars>>

\* One thread that runs until the program ends.
FairBench == BenchSpec /\ WF_<<vars, benchVars>>(BenchNext)

-----------------------------------------------------------------------------
\* Properties.

Measured == IF phase \in {"latency", "feas", "judge", "judged", "decided"} THEN t ELSE 0

\* A structured run scans all rows in its first tick only, whatever its ticks went
\* through, falling back included: gate G6 holds of every structured run with a tick.
OneFullScan ==
    /\ structured => initCalls <= 1
    /\ phase \in {"judged", "decided"} =>
          (gates.g6 <=> ~structured \/ plan.warmup + plan.latency + plan.feas > 0)

\* The ticks below n that a schedule of bursts covers.
BurstTicks(c, n) ==
    IF Mode(c) # "correlated_block_sparse_burst" \/ ~c.enabled
       \/ c.every = 0 \/ c.length = 0 THEN 0
    ELSE (n \div c.every) * Smaller(c.length, c.every) + Smaller(n % c.every, c.length)

\* The measured phases meet the bursts of the schedule, neither once too often nor
\* once too seldom: tick numbers go on from warmup to latency to feas (global_tick).
BurstsOnSchedule ==
    Measured - OutsideCount =
        BurstTicks(streamCfg, plan.warmup + Measured) - BurstTicks(streamCfg, plan.warmup)

\* With every tick rescanned, G2 counts no tick but one whose call was refused, and none
\* at all with fallbacks on.  A refused call leaves q_out with its refused point or that
\* of an earlier tick, which is scanned as its own; no later call that succeeds or falls
\* back is charged with it.
CountsOnlyRefused ==
    [][opts.forceFullRescan /\ Certified(Origin) =>
           ret.kind = "refused" /\ ~opts.fallbackEnabled]_g2Violations

\* The samples fit twice the number asked for, however the stride is rounded down.
SamplesBounded == plan.sample > 0 => samples < 2 * plan.sample

\* A claim that passes rests on evidence: no violated output, a single full scan, a
\* sparse stream, and a comparison with OSQP unless skipping it was asked for.
ClaimHasEvidence ==
    phase = "decided" /\ passed /\ args.claim =>
        /\ g2Violations = 0 /\ initCalls = 1 /\ gates.gStream
        /\ osqpAvailable \/ args.allowSkip
        /\ osqpAvailable => compared > 0 /\ gapsOk

\* Every run comes to its verdict, also when the feas phase is shorter than latency.
BenchEnds == <>(phase = "decided")
=============================================================================
