# TLA+ verification of spqs

`spqs` projects a stream of proposals onto a polyhedron `A q <= b` with a block
structure. Each call of `StreamingProjector::project` takes a proposal, runs an
active-set loop driven by a violator oracle, and ends with a point whose
feasibility is certified in floating point, or with a scaled-back fallback. The
library is single-threaded; what is hard about it is state that survives from
one call to the next (a warm active set, a Cholesky factor, the oracle's cached
entries and mask) and that each turn updates only in part.

This directory holds TLA+ modules of that core, of the stream, the benchmark and
its gates, the configuration loader and the allocation counters around it, TLC
runs over small instances, and proofs checked by TLAPS. All paths below are relative to the repository.

## 1. Inventory

| component | state it keeps | operations | modelled |
|---|---|---|---|
| order and reference scan (`src/brute_force_scan.cpp`) | none | `prefer_lhs`, `max_violation`, `certified_feasible` | `Violators` |
| certified arithmetic (`src/fp_cert.cpp`) | none | `dot_certified_fma`, `certified_violation_from_dot` | `Geometry` (exact integers with error terms) |
| violator oracle (`src/violator_oracle.cpp`) | mask, best row per block, tournament tree, best global row, last answer | `activate/deactivate_constraint_id`, `set_active_*`, `clear_active`, `init_tick`, `update_blocks` | `Oracle`, `OracleSpec` |
| projector (`src/projector.cpp`) | options, right-hand side, warm ids, factor (three lists and a flag), record of the oracle's mask, point at the last tick's start | `set_options`, `set_rhs`, `project` | `Projector` |
| active-set rows (`include/spqs/active_set.hpp`, `src/linalg_small.cpp`) | none | dot products, Gram matrix, factorize, solve | `Geometry` |
| rank-one Cholesky (`src/chol_rank1.cpp`) | thread-local scratch; the triangle is the caller's | `chol_append`, `chol_remove` | `Cholesky`; as list operations in `Projector` |
| safe fallback (`src/safefallback.cpp`) | none | ray scaling to the anchor | `SafeFallback` in `Projector`, `RayScaled` in `Geometry` |
| layout and validator (`src/block_layout.cpp`, `src/structure_validator.cpp`) | none | build and validate | `Startup` |
| generators (`src/constraints_*.cpp`) | none | random rows, right-hand sides | `Startup` (shapes, numbering, checks) |
| stream generator (`src/stream_gen.cpp`) | configuration, previous proposal, rng | `next` | `Stream` |
| configuration (`src/config_loader.cpp`) | none across calls; a section stack and a map while a file is read | `load_config` | `ConfigLoader` |
| allocation counters (`src/alloc_counter.cpp`) | one flag and a record of counters, global | wrapped requests, reset, enable, snapshot | `AllocCounter` |
| bench and gate script (`benches/bench_baselines.cpp`, `tools/run_stage6_gates.sh`) | phase and tick, what each gate accumulates | start, measure, gate verdicts, pass or fail | `Startup` (the start), `Bench`, `AllocCounter` (gate G5) |
| `bench_projector`, `bench_feasibility_only` | settings | the same loop without gates | `Startup` (the start) |
| baselines, logs, hardware counters, timing, arena, other scripts | | | not modelled |

The bench or test owns everything and calls the projector; the projector calls
the oracle (mask edits, `init_tick`, `update_blocks`) and the linear algebra;
it ends in `finalize_with_safety`, which certifies the active rows only and
trusts the oracle for the rest, or in `fallback_to_anchor`, which certifies all
rows by the reference scan.

What makes each part correct:

* order: a strict total order even with ties, NaN rows and the two sentinels at
  `-infinity`, so that scan, tree and merge choose the same row;
* oracle: whatever was recomputed incrementally, the answer is the worst
  unmasked row at the current point, provided the caller names every block it
  touched;
* projector: it does name them; its mask, its record of the mask and its active
  ids agree; its factor is the factor of its active ids; an accepted output is
  certified in every row and is the (shrunk) exact projection; a fallback is
  certified if the anchor is; every call returns;
* Cholesky: however a triangle came about, it is the factor of its rows, and an
  append fails only for a dependent row;
* stream: proposals stay in a range, and what is reported as changed includes
  every jump, so that the sparsity the gates measure is that of the workload;
* bench: its verdict is about the calls it made: tick numbers meet the burst
  schedule, no scanned output belongs to another tick, one full scan is counted
  as one, and a claim passes on evidence only;
* loader: a file means what its indentation shows, and a failed load leaves the
  caller's configuration alone;
* allocation counters: although they see the whole program, the gate's numbers
  are those of `project`;
* start: validator, layout builder and generators agree, so that a configuration
  is either refused for its own fault or runs on what it asks for.

Single-threaded code has no interleavings; the hard behaviours are stale
cached state across calls, factorizations that fail half-way, refusals on many
early returns, and long sequences of calls. `PROJECT.json` lists them under
`hazards`, each at its line with the properties that look for it.

## 2. Modules

**`Violators`** — ids, blocks, violators, `Prefer` (`prefer_lhs`), the best row
of a set, the per-block and global scans, the merge and the reference scan. The
floating-point value of a row is a constant operator, so everything built on
this module holds for any arithmetic. Loops of the form
`if (prefer_lhs(cand, best)) best = cand` become `Best(S)`, the one element
preferred to all others; `ViolatorsProofs` shows that it exists and is unique.
A violator keeps scope, id and violation; `block_id`, `row_in_block` and
`global_row` are functions of the id.

**`Oracle`** — `ViolatorOracle` with its tournament tree as an array of winners,
replayed along one path per named block (`update_tree_leaf`) or rebuilt
(`rebuild_tree`). The caller is the environment: `MovePoint`, `ReplaceRhs` and
the mask edits mark blocks in `dirty`, and `UpdateBlocks` may be called only with
a set that contains the dirty blocks; that is the contract of `update_blocks`.
`last_` stays readable while stale; `answered` says when it is current.

**`OracleSpec`** — the promise: an answer is the worst unmasked row, with no
cache at all. `Oracle!ImplementsOracleSpec` is the refinement, with
`answer <- last` and every other variable mapped to itself.

**`Projector`** — `project` as `StartTick` and one action per outcome of a turn
of its loop:

| action | `src/projector.cpp` |
|---|---|
| `SetOptions`, `SetRhs` | 86-117, 119-145 |
| `StartTick` | 536-601: warm solve, mask synchronization, rescan or update |
| `Finish` | 607-658: no violated row; finalize accepts, falls back or refuses silently |
| `FinishSolveFails`, `DropAtConvergence` | 611-614, 616-649 |
| `EnterRejected` | 671-678: already active, or no room |
| `EnterSolveFails`, `EnterDrop`, `EnterMove` | 679-696, 698-730, 732-757 |
| `BudgetExhausted` | 760 |

Each action is the whole turn with every call it makes: the factor update
(`Solve`, with keep, append, remove and rebuild and what each leaves behind when
it fails), the mask edits, the oracle's recomputation of exactly the blocks the
code names, and the fallback. The oracle inside is `Oracle` without its tree:
`AnswerIsWorst`'s run shows that the root is the best entry. Numerics are
constant operators. Two simplifications to keep in mind: whether a Gram matrix
factorizes is a function of the list of rows, not of the path (append, remove,
rebuild) that led to it, and scratch vectors are reset between calls.

**`Geometry`** — the constant operators for the runs, in integers: rows with
error terms, Gram determinants and Cramer's rule for the multipliers, the tau
bound, the shrink and the ray scaling with a rounding error of its own.

**`Nearest`** — `Projector` and `Geometry` side by side: the distance that a
projection minimizes (`AcceptedIsNearest`) and what it takes to get there
(`ExactArithmetic`: exact data, a zero tolerance, a solve that ends on its active
rows, certificates that do not lie).

**`ProjectorHistory`** — `Projector` with the active lists and points the call
has passed through, to ask about cycling.

**`Cholesky`** (over `Rationals`, exact fractions) — `chol_append` and `chol_remove`
as they are written: forward substitution and the new pivot; the shift of the
upper triangle and the Givens rotations; the exits into a refactoring of
`L * L^T` when a pivot is not above `diag_eps`. A triangle is the list of its
columns, each a vector times the square root of a fraction, so no root is taken
and results can be compared exactly. It justifies the first simplification of
`Projector`: `MatchesRefactor` and `FailsOnlyIfDependent` say that the outcome
of a solve depends on the rows only. What exactness leaves out is growth of
rounding errors along a long sequence of updates.

**`Startup`** — the start of `bench_baselines` and `bench_projector`:

| action | code |
|---|---|
| `Validate` | `validate_structure_from_config` and the claim guard, exit code 8 |
| `BuildLayout` | one block for a rejected structure, `make_block_layout`, exit code 3 |
| `GenerateLocal`, `GenerateGlobal`, `GenerateRhs` | the generators and their `SPQS_CHECK`s, which abort |

Matrices are their shapes. The result, a layout with numbered rows, is what
`Violators` takes as its constants.

**`Stream`** — `CorrelatedBlockSparseStream::next`: `DenseTick` redraws every
block; `CorrelatedTick` draws the churn (`Churn`, inside a burst window or not),
picks any sample of that many blocks, lets *every* block drift by `ar_rho`,
adds noise to the sample, clamps, and reports the sample. Draws are
nondeterministic, blocks have one coordinate in integer units, and the drift is
rounded towards zero. `next` keeps no tick number, so `NextProposal` takes the
caller's; `StreamSpec` allows any.

**`Bench`** — `bench_baselines` after its start, over `Stream` and `Projector`:

| action | code |
|---|---|
| `Configure` | `set_rhs`, once: the discipline `RhsPerTick` does not hold here |
| `NextTick` | `stream.next` on the global tick number, then `StartTick` of `project` |
| `Work` | a turn of the projector's loop |
| `Measure` | the bookkeeping after the call: fallbacks, the scan of `q_out` (G2), the churn counts (G_stream), samples and the outcome of the reference solvers (G4) |
| `EndPhase` | warmup, latency, feas, verdict; feas goes on counting from latency |
| `Judge` | the gates as written to `gates.json` |
| `Decide` | `run_stage6_gates.sh` passes or fails |

`q_out` is one buffer for the whole run: a call that is refused without a fallback
leaves the point of an earlier tick in it, and that point is scanned. Outcomes
that come from elsewhere are chosen freely: the reference solver's answers and
their distance from ours, latencies (G3), allocations (G5, see `AllocCounter`)
and the trials of G1.

**`ConfigLoader`** — `load_config` one line, then one field at a time: `SkipLine`,
`RefuseLine`, `OpenSection` and `StorePair` are `parse_scalar_map` with its section
stack and its map in which the first value wins; `SetField` and `RefuseField` are
the calls of `maybe_set` with the conversion of each kind, where a `long` is cut to
an `int` and `strtoull` takes a negative number; `Deliver` writes `*out`. Widths are
constants. What a line is (its indentation, header, pair, list) is an input; how
characters make it up is left out.

**`AllocCounter`** — the counters with a program that may make any wrapped request
at any time (`Request`), and the bench's use of them: reset and enable before the
warmup, a snapshot after it, and one before and one after every measured
`project`, from which it accumulates the loop's counters, the trap and the totals.
History variables (`inside`, `asked`, `around`) record what was requested where.

Composition: `Bench` extends `Projector` and `Stream`; `Projector` extends
`Violators` and contains the oracle without its tree; `Oracle` is shown to
implement `OracleSpec`; the MC modules add `Geometry`.

## 3. Runs

Bounds appear in the MC modules; all passing runs are exhaustive.

| run | instance | checks |
|---|---|---|
| `oracle` | 3 blocks (so the tree has an empty leaf) of 2 rows, 1 global row, 9 points of which one holds a NaN, 2 right-hand sides, mask of at most 1 row | `TreeIsTournament`, `AnswerIsWorst`, `NaNHidesNoViolation`, refinement |
| `projector_tests` | 2 blocks, 4 local rows, 1 coupling row; 6 proposals, 3 right-hand sides (one excludes the anchor), 5 option sets (budget 2, capacity 1, a kappa bound that fails, full rescans, non-strict) | `OracleFresh`, `OutputCertified`, `AcceptedIsSolved`, `AcceptedIsNearest`, `NonStrictOutputIsProposal` |
| `projector_rounding` | 3 blocks of one row and a coupling row, error terms zero, some lists that fail to factorize, fallback on and off, capacity 2 and 3 | `TypeOK`, `MaskCoherent`, `FactorCoherent` |
| `cholesky` | 6 integer rows in 3 dimensions, two parallel, three coplanar; at most 4 active; `diag_eps` of 1/2, so that updates degenerate | `MatchesRefactor`, `FailsOnlyIfDependent` |
| `startup` | 1512 configurations: each rule of the validator broken alone or with others; all command lines | `ExitOnlyWithoutVariables`, `ValidRuns`, `LayoutPartitions`, `ContractHolds`, `IdsDecode`, `ClaimIsStructured` |
| `bench` | 2 blocks, structured or not; 4 plans of up to 4 ticks (feas longer and shorter than latency, no tick at all); calls that succeed, exhaust a budget of one turn, or are refused; a bursty stream, one without a clamp, one of an unknown mode; 4 command lines | `OneFullScan`, `BurstsOnSchedule`, `SamplesBounded`, `ClaimHasEvidence`, `StreamingOutput`, `ProposalsBounded`, `UnreportedOnlyDrift` |
| `bench_ends` | 1 block, with and without a rescan in every tick and the fallback, 2 plans, under `FairBench` | `BenchEnds`, `Returns`, `CountsOnlyRefused` |
| `config_loader` | all files of up to 4 of 16 lines over two section names and 5 fields, one of each numeric kind; ints of 4 bits, longs of 6 | `LoadedAsShown`, `FailureIsClean`, `NumbersWrap` |
| `alloc_counter` | 1 latency tick and 2 feas ticks, requests of 0 and 2 bytes, at most 4 requests | `LoopCountsProject`, `TrapNamesFirst`, `TotalsSplit` |

Two blocks with a coupling row are enough for the interaction the properties
are about: a turn moves one block, both or none while a row of the same, the
other or no block enters or leaves. Three active rows exercise removal at the
first, a middle and the last position. Coordinates are integers, one data unit
being 80 (or 6) units, so that the error terms 1 and 3 are small against it.

`RhsPerTick` names a discipline of the caller: a right-hand side is set before
every `project` that does not force a full rescan. `tests/test_projector_vs_reference.cpp`
follows it; `tests/test_stage6_baselines_and_logs.cpp` (250 proposals) and the
benchmarks set one right-hand side and stream. It resets `have_prev_tick_`, so
each tick starts with `init_tick`. `OracleFresh` and `OutputCertified` are stated of
ticks that are rescanned (`Rescanned`): under that discipline, or because
`force_full_rescan` is set. Without either the stale answers of `stale_oracle` are
possible, and `StreamingOutput` says what is left.

In `bench` a stream unit is 80 units, drift 1/2, and proposals reach two units
around a box of one, so that ticks need no row, one row or two. Ticks 0 to 4 with
a burst every three ticks put a burst on either side of each phase boundary. Four
lines are what a section that is opened, left and followed by a key needs. Four
requests leave one for each measured tick and one around them.

Fairness: `FairBench` is `WF` of the whole next-state relation of the bench: one
thread that runs until the program ends. Under it every call returns (`Returns`:
a turn of the loop uses up budget or leaves) and the run comes to a verdict.

Deadlock is not checked where the program ends: `startup` (a running bench, an
exit or an abort), `bench` and `bench_ends` (the verdict), `config_loader` (the
return) and `alloc_counter` (the end of the run).

Three runs are expected to find a violation, each a disagreement between the
code and what the repository says of it:

* `stale_oracle`: without `RhsPerTick`, an infeasible point is reported as
  certified. A tick that is not rescanned names the blocks whose point differs
  from `q_prev_tick_`, which is the point at the start of the previous tick, not
  the one the oracle last saw; nor does it name blocks whose mask was changed by
  `sync_oracle_active_set` or `fallback_to_anchor`.
* `silent_refusal`: with `fallback_enabled = false` a refused call leaves `q_out`
  unwritten and `max_violation_certified <= 0`.
* `anti_cycling`: `bland_rule` is configured everywhere and read nowhere; a row
  can be dropped and re-added at the same point until the budget is used up.

Other differences between the code and its descriptions follow from the modules
directly, without a run of their own:

* `chol_remove` shifts rows of the upper triangle where it should delete a
  column (`ShiftedUp`). All pivots from the removed one on become zero, no rotation
  does anything, and any removal but the last row's is a refactoring, although
  `include/spqs/chol_rank1.hpp:25` names Givens rotations. The result is right
  (`MatchesRefactor`).
* A structure rejected for its `m_local_per_block` is "routed to BRUTEFORCE_ONLY"
  (`src/structure_validator.cpp:39`) and then aborts in `generate_local_constraints`
  (`GenerateLocal`). Structures that pass never abort (`ValidRuns`).
* In the "block-sparse" stream modes every block with a nonzero proposal moves in
  every tick by `ar_rho`, while `changed_blocks_out` and G_stream know the sample
  only. `UnreportedOnlyDrift` says what remains true.
* `README.md:49` says an enforced run without a claim still requires G_stream and
  G4; the script asks for G_stream of claims only and lets G4 be skipped
  (`G4Accepted`, `Decide`).
* The loader takes any indentation by a multiple of two blanks
  (`src/config_loader.cpp:94`), but depth is half the indentation, so in a file
  indented by four a key after a subsection is filed under the subsection and its
  field keeps the default. `LoadedAsShown` is therefore about files indented by two.
* A number in a file that is no `int` but still a `long` loads without an error as
  another `int` (`src/config_loader.cpp:161`), and a negative one loads into an
  unsigned field. `LoadedAsShown` converts on both sides with the same operator;
  `NumbersWrap` says it without the conversions: in range, and the shown number
  wrapped around.
* A refused call that wrote nothing leaves an earlier point in `q_out`, and gate G2
  scans that one (`src/benches/bench_baselines.cpp:725`): a tick without an output
  counts as clean if the point left there is. `CountsOnlyRefused` says what the count
  still means in a rescanned run: only refused ticks are in it.

## 4. Proofs

`ViolatorsProofs` proves, for any constraint system: `prefer_lhs` is total,
asymmetric and transitive (`PreferTotal`, `PreferAsymmetric`,
`PreferTransitive`), every finite nonempty set has its `Best` (`BestExists`),
and merging the best local entry with the best global one is the best of all
unmasked rows (`MergedIsWorst`).

`ProjectorProofs` proves for every value of the constants that satisfies the
assumptions of `Violators` and `Projector`:

* `TypeCorrect`: `Spec => []TypeOK`, including that a call's active list never
  outgrows `a_max` except by having been warm-started longer;
* `MaskAgrees`: `Spec => []MaskCoherent`;
* `FactorAgrees`: `Spec => []FactorCoherent`;
* `OracleStaysFresh`: `Spec => []OracleFresh`.

None of these is inductive alone. `IInv` adds that the factor's lists agree
between calls as well, so that a rebuild, append or removal from the stored
lists yields lists that agree again, and that the oracle's entries are
violators, so that the row that enters is a constraint. The proof has one lemma
per action; `Solve`'s cases are lemmas about lists (`RemoveAt`, `Append`,
`RemovalPos`), each citing the previous ones.

`OracleFresh` speaks of the answer; `Fresh` adds the entry of every block. `StartTick` establishes it with a rescan; a turn keeps it because
a block it does not name has neither moved (`UnmovedAssumption`) nor a changed
mask, so that its best row is the one the oracle remembers (`UntouchedBlock`).

The module goes on to what a call returns:

* `OutputsAreCertified`: `Spec => []OutputCertified`;
* `StreamingOutputsHold`: `Spec => []StreamingOutput`.

`finalize_with_safety` certifies the rows of the factor. The others are certified
because the loop ended: the oracle's answer is not positive, it is the worst of
the unmasked rows (`Fresh`, `MergedIsWorst`), and the masked rows are those of the
factor (`MaskCoherent`, `FactorCoherent`). Two more invariants: `KappaKept` (the
cached kappa verdict is that of the right-hand side under some options), and
`GlobalFresh` (every call of the oracle rescans the global rows), from which the
streaming theorem follows when the local entries are stale.

And to where the accepted point comes from, whatever the caller's discipline:

* `AcceptedAreSolved`: `Spec => []AcceptedIsSolved`, under `BoundRowsViolated` and
  `OrderFree`;
* `NonStrictOutputsAreProposals`: `Spec => []NonStrictOutputIsProposal`, under
  `BoundRowsViolated`.

The two hypotheses say that a row solved to lie on its bound counts as violated (a
positive `tau_abs`) and that the order of the rows does not matter to the solution.
Both follow where the solve is exact (`SolvedInAnyOrder`, `SolvedRowsAreViolated`,
below), and TLC evaluates them on the instance with positive error terms;
with the zero error terms of `projector_rounding` the first is false, and so the
theorems name them instead of every run assuming them. Between turns the point need
not be the solution of `ids`: a drop at convergence shortens the list and leaves the point. The
invariant `Solved` says that it is the solution of some list, the base, at least as
long as `ids`, and that the blocks of the base's rows that have left are not stale,
since a drop names the block of the row it takes out. So a base row that is no longer
active is unmasked and known to be violated, the loop cannot end there, and when it
does end the base and `ids` hold the same rows.

`NearestProofs` says what such a solution is worth: `AcceptedAreNearest`, the theorem
`Spec => []AcceptedIsNearest` under `ExactArithmetic`. Of what it assumes, the solve
is the one promise about the code's numerics: `SolvesExactly`, a point that lies on
its active rows and is reached along them by the multipliers, which is Cramer's rule
for the matrices of `Geometry`; TLC evaluates it for every list, proposal and
right-hand side of the instance (`ExactAssumption`). A positive `lambda_negative_tol`
would let slightly negative multipliers pass, so it is zero here. The rest is proved of
`Geometry`'s rows: `CertifiedRowsHold` (a certificate errs on one side only),
`SolvedRowsAreViolated` (with a positive `tau_abs` a solved row is violated by its
certificate, which is why strict mode shrinks) and `SolvedInAnyOrder`. The argument has two
halves. The accepted point satisfies every row: the active ones with equality, the
others because the oracle found none of them violated (`ConvergedRows`, so the
ticks have to be rescanned). And no feasible point is nearer. On its active rows a
feasible point is nowhere beyond the accepted one, and the accepted one was reached
along these rows with multipliers that are not negative; so the way from the feasible
point to it does not go back along the way from it to the proposal (`ShiftOutward`,
`SolutionWay`), and the square of the distance can only be smaller (`NoFarther`). That
the code never finishes right after a drop is what `AcceptedAreSolved` contributes.
The sums are `MapThenSumSet`, a recursion over subsets that takes some element first;
`SubsetInduction` and `SumsExist` turn it into `Total`, which is linear, respects
order and may be taken by rows or by columns (`TotalLinear`, `TotalOrdered`,
`TotalsSwap`).

`OracleProofs` proves the oracle for any number of blocks and any arithmetic, NaN
rows included: `OracleTypes`, `TreeStaysTournament`, `AnswersAreWorst`,
`NaNNeverHides` and the refinement `OracleImplementsSpec`. The tree's functions
are defined from larger nodes to smaller ones; `NodeRecursion` shows that such a
definition has a value and `NodeInduction` carries a fact down to the root, both
from well-founded induction on node numbers. `Rebuilt` and `Replayed` say which
nodes `rebuild_tree` and `update_tree_leaf` write, `ReplayedIsTournament` that
replaying the one path of a changed leaf leaves a tournament, since off that path
no match had the leaf in it, and `RootIsBest` that its root is the best entry. The
invariant `IInv` says that entries of blocks that are not dirty are up to date,
that the tree is a tournament over the entries, and that a node only names a block
below it; without the last a replay could keep a name from elsewhere.

The first part of `BenchProofs` proves `ProposalsStayBounded` and `UnreportedDrift` for every
configuration. The drift keeps the sign and scales the size by at most rho
(`DriftScales`); with noise of at most `m` a coordinate at most `m / (1 - rho)`
stays there (`Contracts`), and the clamp never adds to it.

The rest of `BenchProofs` proves, for every system, stream, option set and plan:

* `OneFullScanAlways`: `BenchSpec => []OneFullScan`;
* `ClaimsHaveEvidence`: `BenchSpec => []ClaimHasEvidence`;
* `BenchRunsStream`: `BenchSpec => StreamSpec`, so that `BenchProposalsBounded` and
  `BenchUnreportedDrift` follow from the stream's theorems;
* `BenchRunsProjector`: `BenchSpec => Spec`, the bench is one of the projector's
  callers, so that every theorem about `Spec` holds in it, `BenchOutputsHold` among
  them;
* `CountsOnlyRefusals`: `BenchSpec => CountsOnlyRefused`;
* `SamplesStayBounded`: `BenchSpec => []SamplesBounded`;
* `BurstsStayOnSchedule`: `BenchSpec => []BurstsOnSchedule`.

Neither of the first two is inductive. `BInv` adds `TicksInPhase` (where the tick
counter can be in each phase: that the run had a tick is read off the plan at its
end), `ScansCounted` (the only full scan of a structured run came with its first
tick, because no turn of the loop forgets `have_prev_tick_`, `LoopKeepsHistory`),
`Judged` (the gates written are those of the state, which no longer changes) and
`Decided`.

The last three have invariants of their own. For `CountsOnlyRefused` it is that a
tick that is measured has its answer (`TickAnswered`): an accepted point or a
fallback's is the one scanned and is certified (`MeasureCounts`), whatever `q_out`
held before. `SamplesCounted` says that every stride of latency
ticks that was begun has had its one sample, which with the division that chooses the
stride bounds their number (`StridesFit`). `BurstsCounted` says that the burst ticks
counted are those of a prefix of each phase: the phases' sums are split at the current
tick (`PartialSums`, `SumOfOneMore`, by `RangeInduction` over the ticks of one sum),
and one measured tick moves the split by one (`BurstTicksStep`).

`AllocProofs` proves `LoopIsProject`, `TotalsAreSplit` and `TrapNamesFirstTick` for
any number of ticks and whatever the program requests. `AInv` says that the
counters and the snapshots differ by what was requested in between: since the
start of the call by what the current tick asked for, since the warmup by what was
asked inside and around `project`. `TrapKept` is the trap's part over the ticks that
are over; its bytes are zero exactly when no such tick asked for any, which is why
filling them in later names the first that did.

`StartupProofs` proves, for every set of configurations and launches,
`ClaimsAreStructured`, `ContractAlwaysHolds`, `IdsAlwaysDecode`, `ExitsOnlyWithoutVariables`,
`ValidStructuresRun` and `LayoutsPartition`. `StartInv` lists
what each step of the start has established for the ones behind it; decoding rests
on two facts about division (`DivisionDecodes`, `DivisionStaysBelow`). The sums of
`make_block_layout` and the layout it builds are recursive functions over the blocks;
`LoopExists` shows that such a loop has a value at every turn. Sums of sizes are prefix
sums (`PrefixSums`, `SumsIncrease`), and after each turn of the loop the variables
below the running offset are owned by the blocks placed so far (`AfterBlocks`,
`LayoutPlaced`), from which the last three theorems follow. The sums are taken not to
overflow an `int`: sizes come from a list of ints whose sum has to be `n`.

`ConfigProofs` proves `LoadsAsShown` and `FailuresAreClean` for every set of lines and
fields. The stack is not the sections around the line that was read last but those
a next line could be in (`StillOpen`); `LoadInv` says that, as far as the file is
indented by two blanks, the stack lists exactly these in the order of their lines, the
e-th indented e - 1 times (`OpenAt`), that the map holds the first value of each shown
path (`MapShown`), and which fields are set (`FieldsShown`). A new line is in those that
are indented less, which are the first `Depth(l)` of the list (`StackAtNewLine`): the
number of sections around it is the number popping leaves, so that its path is the
shown one (`PathAtNewLine`). `ListingCounts` and `ListingNth` tie a list of line
numbers to the cardinalities `ShownPath` is stated with. Indentation is judged line by
line (`IndentedBefore`), so that the invariant may assume it of the part read.

Assumptions: `SystemAssumption` (sizes, a number `NegInf`, a `NaN` that is not a
number), `ParameterAssumption` (types of the parameters), `UnmovedAssumption`
(a part that did not move beyond `q_change_tol` keeps its rows' violations:
exact for tolerance 0, an idealization above), `NumericAssumption` (rows
evaluate to numbers above `NegInf`; solving a factorable system gives
multipliers and a point), and `OutputAssumption` (a shrink that passes the checks
of `finalize_with_safety` moves a certified row strictly inside, which is what
`tau_required` is computed for; that rounding keeps it so is taken from there).
TLC evaluates all of them on the runs' instances.

`TreeAssumption` (the leaf count is the power of two, at most 2^30, that the code
picks for the number of blocks),
`RowAssumption` (rows evaluate to numbers or to `NaN`),
`StreamAssumption`, `BenchAssumption`, `AllocAssumption`, `StartupAssumption` and
`LoaderAssumption` (types; the stream's blocks are the system's) play the same part in
the newer modules,
and `ProposalAssumption` says that the proposals a stream can reach are among those
the projector is modelled for.

Only model-checked: `NumbersWrap` (powers of two, which the provers do not know),
`SolvesExactly` on the instance (determinants of matrices of any
size), `Cholesky` (`MatchesRefactor` and `FailsOnlyIfDependent`:
linear algebra on fractions, for any number of columns), and liveness (`Returns`,
`BenchEnds`), which the prover does not reach.

## 5. Not modelled, and why

* IEEE rounding: that `gamma_s` and `tau_abs` bound it is numerical analysis;
  `Geometry` takes the bounds as error terms.
* NaN and infinities in the projector: rows evaluate to numbers there. The
  oracle's run does contain NaN rows. `certified_feasible` of a system whose
  rows are all NaN is true, see the hazards.
* `min_slack_certified` and the other statistics: output only.
* A positive `q_change_tol` between grid points: it is 1e-15, no configuration sets
  it, and how far an entry lags behind many drifts below it is a question of
  floating point.
* Solver wrappers (`baselines/`): they call OSQP, SCS or a dense reference and
  return a point; in `Bench` they are an outcome (`Compare`).
* `Arena`, logs, hardware counters, histograms and timing: no decision of the
  projector depends on them; the latency quantiles of G3 are an outcome.
* The loops of `bench_projector` and `bench_feasibility_only`: those of
  `bench_baselines` without its gates.
* The Python and shell scripts besides the gate script: they start processes and
  draw figures. Of the gate script, building and running the bench.
* `strip_comment`, quoting and number syntax in the loader: string work on one
  line; its outcome is an input. The fractions, infinities and `nan` that `strtod`
  takes for a double are left out: nothing in the loader tells them apart.
* The platform checks of a claim (`bench_baselines.cpp:499-506`, exit 8 off Linux
  on x86_64): the model is that platform, elsewhere every claim is refused. No
  property of `Startup` is about how often claims run.
* Singular systems in doubles: `Cholesky` is exact, so that a parallel row never
  passes the test `sum > 0.0`, and a list factorizes or not whatever built it.
  `OutputsAreCertified` holds for any choice of the lists that factorize.

## 6. Plan

Done: `Violators`, `Oracle` with `OracleSpec`, `Projector` with `Geometry` and `Nearest`,
`Cholesky`, `Startup`, `Stream`, `Bench`, `ConfigLoader`, `AllocCounter`, their runs,
and the proofs above. What would come next:

1. NaN proposals in the projector, which needs a NaN among the parts of a point.
