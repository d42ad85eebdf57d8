------------------------------ MODULE Startup ------------------------------
(***************************************************************************)
(* How a bench starts (main of src/benches/bench_baselines.cpp and         *)
(* bench_projector.cpp): the loaded configuration is validated, routed to  *)
(* STRUCTURED_FAST or to BRUTEFORCE_ONLY with a single block, laid out,    *)
(* and given generated rows and right-hand sides, until a projector can be *)
(* called.  Each step may end the program with an exit code or an abort.   *)
(*                                                                         *)
(* Blocks, rows and variables are numbered from 0 as in the code.  Matrix  *)
(* entries and right-hand sides are left out: a matrix is its shape.       *)
(***************************************************************************)
EXTENDS Integers, Sequences

CONSTANTS
    Configs,     \* configurations that load_config may return
    Launches,    \* command lines, and whether pinning the thread is verified
    OsqpEnabled  \* SPQS_ENABLE_OSQP

ASSUME StartupAssumption ==
    /\ \A c \in Configs :
        /\ c.n \in Int /\ c.B \in Int /\ c.mLocal \in Int /\ c.mGlobal \in Int
        /\ c.sizes \in Seq(Int)
    /\ \A l \in Launches : l.claim \in BOOLEAN

VARIABLES
    pc,     \* the step to take, or how the program ended
    cfg, cli,
    valid,  \* structure_valid; the mode is STRUCTURED_FAST exactly then
    layout, local, global, rhs

vars == <<pc, cfg, cli, valid, layout, local, global, rhs>>

Sum(sizes) ==
    LET upto[k \in 0 .. Len(sizes)] == IF k = 0 THEN 0 ELSE upto[k - 1] + sizes[k]
    IN  upto[Len(sizes)]

AllPositive(sizes) == \A b \in DOMAIN sizes : sizes[b] > 0

-----------------------------------------------------------------------------
\* validate_structure_from_config

\* Bug: the sizes are not summed.
StructureValidWithoutSum(c) ==
    /\ c.mode = "block_sparse"
    /\ c.B > 0 /\ Len(c.sizes) = c.B /\ AllPositive(c.sizes)
    /\ c.mLocal > 0 /\ c.mGlobal >= 0

\* Bug: a block may be without rows.
StructureValidWithoutRows(c) ==
    /\ c.mode = "block_sparse"
    /\ c.B > 0 /\ Len(c.sizes) = c.B /\ AllPositive(c.sizes)
    /\ Sum(c.sizes) = c.n
    /\ c.mGlobal >= 0

StructureValid(c) ==
    /\ c.mode = "block_sparse"
    /\ c.B > 0
    /\ Len(c.sizes) = c.B
    /\ AllPositive(c.sizes)
    /\ Sum(c.sizes) = c.n
    /\ c.mLocal > 0
    /\ c.mGlobal >= 0

-----------------------------------------------------------------------------
\* make_block_layout

\* Bug: the loop over the variables of a block starts at the first variable.
PlaceFromZero(acc, size) ==
    [running |-> acc.running + size,
     offsets |-> Append(acc.offsets, acc.running),
     owner   |-> [j \in DOMAIN acc.owner |->
                    IF j < acc.running + size THEN Len(acc.offsets) ELSE acc.owner[j]]]

\* The next block takes the next variables.
PlaceBlock(acc, size) ==
    [running |-> acc.running + size,
     offsets |-> Append(acc.offsets, acc.running),
     owner   |-> [j \in DOMAIN acc.owner |->
                    IF j \in acc.running .. acc.running + size - 1
                    THEN Len(acc.offsets) ELSE acc.owner[j]]]

LayoutOf(n, sizes) ==
    LET nothing == [running |-> 0, offsets |-> <<>>, owner |-> [j \in 0 .. n - 1 |-> -1]]
        placed[k \in 0 .. Len(sizes)] ==
            IF k = 0 THEN nothing ELSE PlaceBlock(placed[k - 1], sizes[k])
    IN  [n |-> n, B |-> Len(sizes), sizes |-> sizes,
         offsets |-> placed[Len(sizes)].offsets, varToBlock |-> placed[Len(sizes)].owner]

SizeOf(lay, b) == lay.sizes[b + 1]
OffsetOf(lay, b) == lay.offsets[b + 1]

\* BlockLayout::invariant_ok
LayoutOk(lay) ==
    /\ lay.n > 0 /\ lay.B > 0
    /\ Len(lay.sizes) = lay.B /\ Len(lay.offsets) = lay.B
    /\ OffsetOf(lay, 0) = 0
    /\ \A b \in 1 .. lay.B - 1 : OffsetOf(lay, b) > OffsetOf(lay, b - 1)
    /\ AllPositive(lay.sizes)
    /\ Sum(lay.sizes) = lay.n
    /\ DOMAIN lay.varToBlock = 0 .. lay.n - 1
    /\ \A j \in 0 .. lay.n - 1 : lay.varToBlock[j] \in 0 .. lay.B - 1

\* make_block_layout succeeds.
LaysOut(n, sizes) ==
    /\ n > 0
    /\ sizes # <<>>
    /\ AllPositive(sizes)
    /\ Sum(sizes) = n
    /\ LayoutOk(LayoutOf(n, sizes))

-----------------------------------------------------------------------------
\* generate_local_constraints, generate_global_constraints, generate_rhs

\* Bug: ids advance by the columns of a block.
RowIdBaseByColumns(lay, m) == [b \in 0 .. lay.B - 1 |-> OffsetOf(lay, b)]

RowIdBase(lay, m) == [b \in 0 .. lay.B - 1 |-> b * m]

\* Bug: every block has a column for every variable.
LocalConstraintsDense(lay, m) ==
    [layout |-> lay, mLocal |-> m, rowIdBase |-> RowIdBase(lay, m),
     blocks |-> [b \in 0 .. lay.B - 1 |-> [rows |-> m, cols |-> lay.n]]]

LocalConstraints(lay, m) ==
    [layout |-> lay, mLocal |-> m, rowIdBase |-> RowIdBase(lay, m),
     blocks |-> [b \in 0 .. lay.B - 1 |-> [rows |-> m, cols |-> SizeOf(lay, b)]]]

GlobalConstraints(n, m) == [n |-> n, mGlobal |-> m, rows |-> m]

RhsOf(loc, glob) ==
    [local |-> [b \in 0 .. loc.layout.B - 1 |-> [rows |-> loc.mLocal]], global |-> glob.mGlobal]

\* validate_structure_contract, which no bench calls
ContractOk(loc, glob) ==
    /\ LayoutOk(loc.layout)
    /\ DOMAIN loc.blocks = 0 .. loc.layout.B - 1
    /\ \A b \in DOMAIN loc.blocks :
        loc.blocks[b] = [rows |-> loc.mLocal, cols |-> SizeOf(loc.layout, b)]
    /\ glob.n = loc.layout.n
    /\ glob.mGlobal >= 0
    /\ glob.rows = glob.mGlobal

-----------------------------------------------------------------------------
\* main

\* parse_stream_mode_or_default
StreamMode(mode) ==
    IF mode \in {"correlated_block_sparse", "correlated_block_sparse_burst"} THEN mode ELSE "iid_dense"

\* Bug: a claim does not ask for a valid structure.
ClaimRefusedLate(l, c, v) ==
    l.claim /\ (StreamMode(c.streamMode) = "iid_dense" \/ ~l.pinned)

\* A claim is refused unless all its preconditions hold.  The platform is the Linux on
\* x86_64 that the claim also asks for; elsewhere every claim is refused.
ClaimRefused(l, c, v) ==
    /\ l.claim
    /\ \/ ~v
       \/ StreamMode(c.streamMode) = "iid_dense"
       \/ ~OsqpEnabled /\ ~l.allowG4Skip
       \/ ~l.pinned

ForceFullRescan == ~valid

Init ==
    /\ pc = "load"
    /\ cfg \in Configs
    /\ cli \in Launches
    /\ valid = FALSE
    /\ layout = <<>> /\ local = <<>> /\ global = <<>> /\ rhs = <<>>

Ends(how) == pc' = how /\ UNCHANGED <<cfg, cli, layout, local, global, rhs>>

\* load_config has returned; the structure is validated and claims are judged.
Validate ==
    /\ pc = "load"
    /\ valid' = StructureValid(cfg)
    /\ Ends(IF ClaimRefused(cli, cfg, valid') THEN "exit8" ELSE "layout")

\* A structure that is not valid becomes a single block.
BuildLayout ==
    /\ pc = "layout"
    /\ LET sizes == IF valid THEN cfg.sizes ELSE <<cfg.n>>
       IN  \/ /\ LaysOut(cfg.n, sizes)
              /\ layout' = LayoutOf(cfg.n, sizes)
              /\ pc' = "local"
              /\ UNCHANGED <<cfg, cli, valid, local, global, rhs>>
           \/ ~LaysOut(cfg.n, sizes) /\ Ends("exit3") /\ UNCHANGED valid

GenerateLocal ==
    /\ pc = "local"
    /\ \/ /\ cfg.mLocal > 0
          /\ local' = LocalConstraints(layout, cfg.mLocal)
          /\ pc' = "global"
          /\ UNCHANGED <<cfg, cli, valid, layout, global, rhs>>
       \/ cfg.mLocal <= 0 /\ Ends("aborted") /\ UNCHANGED valid

GenerateGlobal ==
    /\ pc = "global"
    /\ \/ /\ cfg.mGlobal >= 0
          /\ global' = GlobalConstraints(cfg.n, cfg.mGlobal)
          /\ pc' = "rhs"
          /\ UNCHANGED <<cfg, cli, valid, layout, local, rhs>>
       \/ cfg.mGlobal < 0 /\ Ends("aborted") /\ UNCHANGED valid

GenerateRhs ==
    /\ pc = "rhs"
    /\ rhs' = RhsOf(local, global)
    /\ pc' = "running"
    /\ UNCHANGED <<cfg, cli, valid, layout, local, global>>

Next == Validate \/ BuildLayout \/ GenerateLocal \/ GenerateGlobal \/ GenerateRhs

Spec == Init /\ [][Next]_vars

-----------------------------------------------------------------------------
\* Properties.

\* The validator and the layout builder agree: whatever the configuration, building a
\* layout fails (exit code 3) only if there are no variables.
ExitOnlyWithoutVariables == pc = "exit3" => cfg.n <= 0

\* A structure that the validator passes ends in none of the steps behind it, each of
\* which has conditions of its own: only rejected ones abort in a generator.
ValidRuns == valid => pc \notin {"exit3", "aborted"}

\* In a layout that was built, a variable belongs to a block exactly if it lies in the
\* block's range; invariant_ok checks only that it belongs to some block.
LayoutPartitions ==
    layout # <<>> =>
        \A j \in 0 .. layout.n - 1 : \A b \in 0 .. layout.B - 1 :
            layout.varToBlock[j] = b <=>
                j \in OffsetOf(layout, b) .. OffsetOf(layout, b) + SizeOf(layout, b) - 1

\* What is generated satisfies validate_structure_contract in both modes, although no
\* bench calls it.
ContractHolds == pc = "running" => ContractOk(local, global)

\* decode_constraint_id (active_set.hpp:27-53), which divides, inverts
\* ConstraintsLocal::constraint_id, which adds to row_id_base, and every id below
\* total_constraints has a right-hand side.
IdsDecode ==
    pc = "running" =>
        LET m == local.mLocal
            total == local.layout.B * m
        IN  /\ \A b \in 0 .. local.layout.B - 1 : \A i \in 0 .. m - 1 :
                /\ (local.rowIdBase[b] + i) \div m = b
                /\ (local.rowIdBase[b] + i) % m = i
            /\ \A id \in 0 .. total - 1 :
                /\ id \div m \in DOMAIN rhs.local
                /\ id % m < rhs.local[id \div m].rows
            /\ rhs.global = global.rows

\* A run that makes a claim runs in STRUCTURED_FAST mode on the configured blocks with a
\* correlated stream, whatever order its preconditions are tested in.
ClaimIsStructured ==
    pc = "running" /\ cli.claim =>
        /\ ~ForceFullRescan
        /\ layout.sizes = cfg.sizes /\ layout.B = cfg.B
        /\ StreamMode(cfg.streamMode) # "iid_dense"
=============================================================================
