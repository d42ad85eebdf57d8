------------------------------ MODULE MCOracle ------------------------------
(***************************************************************************)
(* Oracle over three blocks (so the tree has an empty fourth leaf) of two  *)
(* rows and one global row.  A part is 0, 1 or the value NaNPart whose     *)
(* rows evaluate to NaN; violations are small, so ties are frequent.       *)
(***************************************************************************)
EXTENDS Oracle

MCNegInf == -1000

NaNPart == 2

MCLocalViolation(id, x, b) ==
    IF x = NaNPart THEN NaN
    ELSE IF id % 2 = 0 THEN 2 * x - b ELSE 1 - x - b

MCGlobalViolation(id, p, b) ==
    IF \E r \in Blocks : p[r] = NaNPart THEN NaN
    ELSE p[0] + p[1] + p[2] - b

MCPoints ==
    [Blocks -> {0, 1}] \cup {[b \in Blocks |-> IF b = 1 THEN NaNPart ELSE 1]}

MCRightHandSides ==
    {[id \in Ids |-> 1], [id \in Ids |-> IF id \in {2, 3} THEN 0 ELSE 2]}
=============================================================================
