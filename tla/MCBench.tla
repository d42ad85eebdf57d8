------------------------------ MODULE MCBench ------------------------------
(***************************************************************************)
(* The bench over the exact numerics of Geometry: a stream of one or two   *)
(* blocks with rho 1/2 that is clamped at two units, and a box of one unit *)
(* whose sum is bounded by one unit too.                                   *)
(***************************************************************************)
EXTENDS Bench, Geometry

MCNegInf == -100000

U == 80

\* In every block the first row bounds x from above and the second from below; the
\* global row bounds the sum.
MCCoef ==
    [id \in Ids |-> [b \in Blocks |->
        IF id \in GlobalIds THEN 1
        ELSE IF b # BlockOf(id) THEN 0
        ELSE IF id % MLocal = 0 THEN 1 ELSE -1]]

MCParts == {20 * k : k \in -24 .. 24}

MCProposals == [Blocks -> {U * k : k \in -2 .. 2}]

MCRightHandSides == {[id \in Ids |-> U]}

Opt(full, fallback, iMax, tauMax) ==
    [warmStart |-> TRUE, forceFullRescan |-> full, strictInterior |-> TRUE,
     fallbackEnabled |-> fallback, aMax |-> 2, iMax |-> iMax,
     kappaMin |-> 1, tauShrinkMin |-> 0, tauShrinkMax |-> tauMax]

\* Calls that succeed; a budget of one turn; a shrink that is always refused, with
\* and without the fallback.
StructuredOptions ==
    {Opt(FALSE, TRUE, 6, 8), Opt(FALSE, TRUE, 1, 8), Opt(FALSE, FALSE, 6, 1)}

\* With the fallback off, strict calls are refused before they write a point, and the
\* other ones with an infeasible point written.
RescanOptions ==
    {Opt(TRUE, TRUE, 6, 8), Opt(TRUE, TRUE, 1, 8), Opt(FALSE, TRUE, 6, 1),
     Opt(TRUE, FALSE, 6, 1), [Opt(TRUE, FALSE, 6, 8) EXCEPT !.strictInterior = FALSE]}

Stream0 ==
    [mode |-> "correlated_block_sparse", rhoNum |-> 1, rhoDen |-> 2, clampInf |-> 2,
     kSmall |-> 1, kSmallAlt |-> 1, kJump |-> 2, pAlt |-> 0, pJump |-> 0,
     deltaSmall |-> 2, deltaJump |-> 2, qSmall |-> 1, qBig |-> 1, pBig |-> 0,
     enabled |-> TRUE, every |-> 3, length |-> 1, kBurst |-> 0, kJumpInBurst |-> 2,
     pJumpInBurst |-> 0, deltaBurst |-> 1, deltaJumpInBurst |-> 2]

\* One block at a time, with a quiet tick in every three; small steps that only the
\* drift bounds; a mode nobody knows, whose proposals are redrawn.
MCStreamConfigs ==
    {[Stream0 EXCEPT !.mode = "correlated_block_sparse_burst"],
     [Stream0 EXCEPT !.clampInf = 0, !.deltaSmall = 1, !.deltaJump = 1, !.deltaBurst = 1,
                     !.deltaJumpInBurst = 1],
     [Stream0 EXCEPT !.mode = "iid-dense"]}

OneStream == {c \in MCStreamConfigs : c.mode = "correlated_block_sparse_burst"}

Plan(warmup, latency, feas, sample) ==
    [warmup |-> warmup, latency |-> latency, feas |-> feas, sample |-> sample]

MCPlans == {Plan(1, 1, 2, 1), Plan(0, 3, 1, 1), Plan(0, 3, 0, 2), Plan(0, 0, 0, 0)}
ShortPlans == {Plan(1, 1, 2, 1), Plan(0, 1, 0, 0)}

Arg(g3, claim, skip, equiv) ==
    [enforceG3 |-> g3, claim |-> claim, allowSkip |-> skip, macosEquiv |-> equiv]

MCScriptArgs ==
    {Arg(FALSE, FALSE, FALSE, FALSE), Arg(TRUE, FALSE, FALSE, TRUE),
     Arg(TRUE, TRUE, FALSE, FALSE), Arg(FALSE, TRUE, TRUE, FALSE)}

\* The numerics of every active list, computed once.
FactorableLists == {list \in IdLists : GramFactorable(list)}

IsFactorable(list) == list \in FactorableLists

MultiplierTable ==
    [k \in FactorableLists \X MCProposals \X MCRightHandSides |->
        SolvedMultipliers(k[1], k[2], k[3])]

SolutionTable ==
    [k \in FactorableLists \X MCProposals \X MCRightHandSides |->
        ActiveSolution(k[1], k[2], k[3])]

TabledMultipliers(list, p, r) == MultiplierTable[<<list, p, r>>]
TabledSolution(list, p, r)    == SolutionTable[<<list, p, r>>]
=============================================================================
