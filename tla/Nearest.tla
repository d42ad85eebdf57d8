------------------------------ MODULE Nearest ------------------------------
(***************************************************************************)
(* What an accepted call of the projector means where the numerics are     *)
(* exact: its candidate is the projection of the proposal.  Projector and  *)
(* Geometry side by side, and what an exact solve promises.                *)
(***************************************************************************)
EXTENDS Projector, Geometry

Distance2(p, x) == MapThenSumSet(LAMBDA b : (p[b] - x[b]) * (p[b] - x[b]), Blocks)

ExactlyFeasible(x) == \A id \in Ids : RowDot(id, x) <= rhs[id]

-----------------------------------------------------------------------------
\* What exact arithmetic gives.

\* The proposal moves along its active rows, by their multipliers (which Geometry gives
\* times the determinant), to a point where each of them holds with equality.
SolvesExactly ==
    \A list \in IdLists : Factorable(list) =>
        \A p \in Proposals : \A r \in RightHandSides :
            LET x      == Combine(list, p, r)
                lambda == Multipliers(list, p, r)
                d      == Det(GramMatrix(list))
            IN  /\ d \in Nat \ {0}
                /\ \A b \in Blocks : d * (p[b] - x[b]) = Shift(list, lambda, b)
                /\ \A i \in DOMAIN list : RowDot(list[i], x) = r[list[i]]

\* A certified row holds.
CertificatesSound ==
    \A r \in RightHandSides : \A p \in Points : \A id \in Ids :
        RowViolation(id, p, r) <= 0 => RowDot(id, p) <= r[id]

\* The parameters of Projector for the rows are Geometry's.
RowsOfGeometry ==
    \A r \in RightHandSides :
        /\ \A id \in LocalIds : \A x \in Parts :
              LocalViolation(id, x, r[id]) = LocalRow(id, x, r[id])
        /\ \A id \in GlobalIds : \A p \in Points :
              GlobalViolation(id, p, r[id]) = GlobalRow(id, p, r[id])

IntegerData ==
    /\ Parts \subseteq Int
    /\ RightHandSides \subseteq [Ids -> Int]

ExactArithmetic ==
    /\ IntegerData
    /\ LambdaNegativeTol = 0
    /\ SolvesExactly
    /\ CertificatesSound
    /\ BoundRowsViolated

-----------------------------------------------------------------------------
\* Properties.

\* A caller whose ticks are rescanned gets accepted candidates that satisfy every row
\* exactly, and no point that does is nearer to the proposal: the loop, which adds and
\* drops one row at a time, ends in the projection
\* (tests/test_projector_vs_reference.cpp enumerates active sets for the same
\* comparison).
AcceptedIsNearest ==
    Rescanned /\ ret.kind = "accepted" =>
        /\ ExactlyFeasible(ret.cand)
        /\ \A x \in Points :
              ExactlyFeasible(x) => Distance2(ret.prop, ret.cand) <= Distance2(ret.prop, x)
=============================================================================
