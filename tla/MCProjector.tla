---------------------------- MODULE MCProjector ----------------------------
(***************************************************************************)
(* The projector over the exact numerics of Geometry: two blocks of one    *)
(* coordinate, each bounded from both sides, and one row that bounds their *)
(* sum.  One data unit is 80 units of Geometry.                            *)
(***************************************************************************)
EXTENDS Nearest

MCNegInf == -100000

U == 80

\* Rows 0 and 2 bound x from above, 1 and 3 from below, row 4 bounds the sum.
MCCoef ==
    [id \in Ids |-> [b \in Blocks |->
        IF id \in GlobalIds THEN 1
        ELSE IF b # BlockOf(id) THEN 0
        ELSE IF id % MLocal = 0 THEN 1 ELSE -1]]

MCParts == {20 * k : k \in -24 .. 24}

Point(x, y) == [b \in Blocks |-> IF b = 0 THEN x ELSE y]

\* Proposals inside, beyond one row, beyond two, on a boundary.
MCProposals ==
    {Point(40, 0), Point(3 * U, 0), Point(3 * U, 3 * U), Point(40, 3 * U),
     Point(U, U), Point(-3 * U, 40)}

\* A box with a binding sum, one with a wide sum, and one that excludes the anchor.
Bounds(box, sum) == [id \in Ids |-> IF id \in GlobalIds THEN sum ELSE box]

MCRightHandSides == {Bounds(U, U), Bounds(U, 4 * U), Bounds(2 * U, 0)}

Opt(warmStart, full, strict, aMax, iMax, kappaMin) ==
    [warmStart |-> warmStart, forceFullRescan |-> full, strictInterior |-> strict,
     fallbackEnabled |-> TRUE, aMax |-> aMax, iMax |-> iMax,
     kappaMin |-> kappaMin, tauShrinkMin |-> 0, tauShrinkMax |-> 8]

\* Structured and full-rescan calls, warm and cold, strict and not; a budget of 2
\* turns and a capacity of 1 row that run out; a kappa_min that a box of U misses.
DisciplinedOptions ==
    {Opt(TRUE,  FALSE, TRUE,  3, 6, 1), Opt(TRUE,  TRUE, TRUE,  3, 6, 1),
     Opt(FALSE, FALSE, TRUE,  3, 6, 1), Opt(TRUE, FALSE, FALSE, 1, 2, 1),
     Opt(TRUE,  FALSE, TRUE,  3, 6, U + 1)}

\* The same without the fallback.
SilentOptions ==
    {[o EXCEPT !.fallbackEnabled = FALSE] : o \in DisciplinedOptions}

WarmOption ==
    {o \in DisciplinedOptions :
        o.warmStart /\ ~o.forceFullRescan /\ o.strictInterior /\ o.kappaMin = 1}

\* The numerics of every active list the runs can meet, computed once.
FactorableLists == {list \in IdLists : GramFactorable(list)}

IsFactorable(list) == list \in FactorableLists

MultiplierTable ==
    [k \in FactorableLists \X MCProposals \X MCRightHandSides |->
        SolvedMultipliers(k[1], k[2], k[3])]

SolutionTable ==
    [k \in FactorableLists \X MCProposals \X MCRightHandSides |->
        ActiveSolution(k[1], k[2], k[3])]

TabledMultipliers(list, p, r) == MultiplierTable[<<list, p, r>>]
TabledSolution(list, p, r)    == SolutionTable[<<list, p, r>>]

\* The exact numerics satisfy what the theorems about accepted outputs assume.
ASSUME ExactAssumption == ExactArithmetic /\ RowsOfGeometry /\ Margin > 0
=============================================================================
