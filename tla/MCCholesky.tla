----------------------------- MODULE MCCholesky -----------------------------
(***************************************************************************)
(* Six rows in three dimensions: unit and longer ones, correlated with     *)
(* both signs, two that are parallel and three that span a plane.          *)
(***************************************************************************)
EXTENDS Cholesky

Vector == <<<<1, 0, 0>>, <<2, 0, 0>>, <<1, 1, 0>>, <<1, -1, 0>>, <<0, 1, 1>>, <<1, 1, 2>>>>

MCRows == DOMAIN Vector

Dot(i, j) == FoldFunction(+, 0, [k \in 1 .. 3 |-> Vector[i][k] * Vector[j][k]])

\* Above some of the pivots these rows have, so that updates degenerate.
Half == Frac(1, 2)
=============================================================================
