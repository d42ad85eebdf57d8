------------------------ MODULE MCProjectorRounding ------------------------
(***************************************************************************)
(* The projector where rounding decides: the error terms are zero, so a    *)
(* row left on its bound counts as satisfied and a drop can be followed by *)
(* a finish; and the Gram matrices of some dependent-looking lists fail to *)
(* factorize although the larger list they come from did not.  Three       *)
(* blocks with one row each and one row over the sum; one data unit is 6.  *)
(***************************************************************************)
EXTENDS Projector, Geometry

MCNegInf == -100000

MCCoef ==
    [id \in Ids |-> [b \in Blocks |->
        IF id \in GlobalIds \/ b = BlockOf(id) THEN 1 ELSE 0]]

MCParts == -30 .. 30

Point(x, y, z) == [b \in Blocks |-> IF b = 0 THEN x ELSE IF b = 1 THEN y ELSE z]

MCProposals ==
    {Point(18, 12, 0), Point(6, 0, 12), Point(18, 18, -30), Point(9, 18, 6)}

MCRightHandSides ==
    {[id \in Ids |-> IF id \in GlobalIds THEN sum ELSE 6] : sum \in {6, 12}}

\* Three active rows of four at most; fallbacks on and off.
MCOptionSets ==
    {[warmStart |-> warmStart, forceFullRescan |-> FALSE, strictInterior |-> FALSE,
      fallbackEnabled |-> fallback, aMax |-> aMax, iMax |-> 8,
      kappaMin |-> 1, tauShrinkMin |-> 0, tauShrinkMax |-> 8] :
        warmStart \in {TRUE}, fallback \in BOOLEAN, aMax \in {2, 3}}

NoisyFactorable(list) ==
    GramFactorable(list) /\ list \notin {<<1, 3>>, <<3, 1>>}
=============================================================================
