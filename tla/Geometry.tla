------------------------------ MODULE Geometry ------------------------------
(***************************************************************************)
(* The numerics of one tick in exact integer arithmetic, for the runs of   *)
(* the projector: certified violations, Gram matrices, multipliers, the    *)
(* shrink to the strict interior and the ray scaling of the fallback.      *)
(*                                                                         *)
(* Every block has one coordinate.  Coordinates, bounds and error terms    *)
(* are integers in a unit far below any data value: DotError stands for    *)
(* gamma_s * t_abs, Margin for tau_abs, BoundError for the norm bound of   *)
(* finalize_with_safety, which is no smaller than DotError.                *)
(***************************************************************************)
EXTENDS Violators, Sequences, FiniteSets, FiniteSetsExt, Functions

CONSTANTS
    Coef,       \* Coef[id][b]: coefficient of block b's coordinate in row id
    DotError,   \* rounding bound of a dot product with a nonzero term
    Margin,     \* tau_abs
    BoundError, \* the bound finalize_with_safety uses instead of DotError
    TauDen,     \* taus are in units of 1 / TauDen
    TauInfinite,
    RayRounding, \* how far a rounded ray point may end below its exact position
    ChangeTol   \* q_change_tol

ASSUME GeometryAssumption ==
    /\ \A id \in Ids : Coef[id] \in [Blocks -> Int]
    \* a local row reads its own block only
    /\ \A id \in LocalIds : \A b \in Blocks \ {BlockOf(id)} : Coef[id][b] = 0
    /\ DotError \in Nat /\ Margin \in Nat /\ BoundError >= DotError

Zero == [b \in Blocks |-> 0]

-----------------------------------------------------------------------------
\* Rows.

\* dot_constraint_q
RowDot(id, q) == MapThenSumSet(LAMBDA b : Coef[id][b] * q[b], Blocks)

\* certified_violation_from_dot: the products are all zero only if t_abs is.
CertifiedViolation(s, touches, bound) ==
    s - bound + (IF touches THEN DotError ELSE 0) + Margin

LocalRow(id, x, bound) ==
    LET s == Coef[id][BlockOf(id)] * x
    IN  CertifiedViolation(s, s # 0, bound)

GlobalRow(id, q, bound) ==
    CertifiedViolation(RowDot(id, q), \E b \in Blocks : Coef[id][b] * q[b] # 0, bound)

\* changed_blocks' test on one block.
PartMoved(x, y) == x - y > ChangeTol \/ y - x > ChangeTol

-----------------------------------------------------------------------------
\* The active system.

\* dot_constraint_constraint
Gram(i, j) == MapThenSumSet(LAMBDA b : Coef[i][b] * Coef[j][b], Blocks)

GramMatrix(list) == [i \in DOMAIN list |-> [j \in DOMAIN list |-> Gram(list[i], list[j])]]

\* Determinant of a square matrix, by permutations.
Det(A) ==
    LET n == DOMAIN A
        Inversions(f) == {p \in n \X n : p[1] < p[2] /\ f[p[1]] > f[p[2]]}
        Term(f) == (IF Cardinality(Inversions(f)) % 2 = 0 THEN 1 ELSE -1)
                   * FoldFunction(LAMBDA x, y : x * y, 1, [i \in n |-> A[i][f[i]]])
    IN  MapThenSumSet(Term, Bijection(n, n))

\* cholesky_factorize_lower succeeds on a Gram matrix iff its rows are independent;
\* more rows than coordinates never are.
GramFactorable(list) == Len(list) <= NumBlocks /\ Det(GramMatrix(list)) > 0

\* rhs_scratch_: how far the proposal lies beyond each active row.
Residual(list, p, rhs) == [i \in DOMAIN list |-> RowDot(list[i], p) - rhs[list[i]]]

\* The solution of Gram * lambda = residual, each multiplier times Det(Gram) > 0.
SolvedMultipliers(list, p, rhs) ==
    LET r == Residual(list, p, rhs)
        A == GramMatrix(list)
    IN  [i \in DOMAIN list |-> Det([k \in DOMAIN list |-> [A[k] EXCEPT ![i] = r[k]]])]

\* How far a block's coordinate moves, times the determinant.
Shift(list, lambda, b) == MapThenSumSet(LAMBDA i : lambda[i] * Coef[list[i]][b], DOMAIN list)

\* apply_active_solution: the proposal minus each row times its multiplier.
ActiveSolution(list, p, rhs) ==
    LET lambda == SolvedMultipliers(list, p, rhs)
        d      == Det(GramMatrix(list))
    IN  [b \in Blocks |-> p[b] - Shift(list, lambda, b) \div d]

-----------------------------------------------------------------------------
\* The strict interior and the fallback.

\* tau_required_bound: the error bound over the kappa floor, rounded up.
RequiredTau(q, rhs, kappaMin) ==
    LET floor == Max({kappaMin, Min({rhs[id] : id \in Ids})})
        error == Margin + (IF q = Zero THEN 0 ELSE BoundError)
    IN  IF floor <= 0 THEN TauInfinite ELSE -((-(error * TauDen)) \div floor)

ShrunkPoint(q, tau) == [b \in Blocks |-> q[b] - (tau * q[b]) \div TauDen]

\* ray_scale_alpha_to_anchor_certified and the scaling by alpha: the anchor if a
\* bound leaves no margin, else the proposal cut back to the row it meets first,
\* landing up to RayRounding below it.
RayScaled(p, rhs) ==
    LET Numer(id, r) == rhs[id] - Margin - r
        Beyond(r) == {id \in Ids : RowDot(id, p) > Numer(id, r)}
        First(r) == CHOOSE i \in Beyond(r) : \A j \in Beyond(r) :
                        Numer(i, r) * RowDot(j, p) <= Numer(j, r) * RowDot(i, p)
        Toward0(n, d) == IF n >= 0 THEN n \div d ELSE -((-n) \div d)
        Scaled(r) == IF Beyond(r) = {} THEN p
                     ELSE [b \in Blocks |-> Toward0(p[b] * Numer(First(r), r), RowDot(First(r), p))]
    IN  IF \E id \in Ids : Numer(id, 0) <= 0 THEN {Zero}
        ELSE {Scaled(r) : r \in 0 .. RayRounding}
=============================================================================
