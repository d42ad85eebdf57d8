------------------------------ MODULE Cholesky ------------------------------
(***************************************************************************)
(* The factor of the active rows as src/src/chol_rank1.cpp maintains it:   *)
(* chol_append and chol_remove with their early exits into a refactoring,  *)
(* over cholesky_factorize_lower of src/src/linalg_small.cpp, in exact     *)
(* arithmetic.                                                             *)
(*                                                                         *)
(* A triangle L with L * L^T = Gram is the list of the rows of L^T, each a *)
(* vector v of fractions times the square root of a fraction s: L[i][j] is *)
(* sqrt(l[j].s) * l[j].v[i].  A row scaled so that v[j] = 1 has l[j].s as  *)
(* its squared pivot, so no root is ever taken.                            *)
(***************************************************************************)
EXTENDS Rationals, SequencesExt

CONSTANTS
    Rows,        \* the rows that may become active
    Gram(_, _),  \* (row, row): their dot product, an integer
    DiagEps,     \* diag_eps, a fraction
    MaxActive    \* bound on the active rows

VARIABLES
    active, \* the rows whose Gram matrix is factorized, in order
    l,      \* factor_l_
    op      \* the last call, how it ended, and the row it was about

vars == <<active, l, op>>

Total(f(_), S) == MapThenFoldSet(++, Zero, f, LAMBDA T : CHOOSE x \in T : TRUE, S)

\* l * l^T
Product(r) ==
    [i \in DOMAIN r |-> [j \in DOMAIN r |->
        Total(LAMBDA k : r[k].s ** (r[k].v[i] ** r[k].v[j]), DOMAIN r)]]

Result(ok, r) == [ok |-> ok, l |-> r]

-----------------------------------------------------------------------------
\* cholesky_factorize_lower

\* The column below a pivot once the columns before it are known.
PivotOf(a, r, j) == a[j][j] -- Total(LAMBDA k : r[k].s ** (r[k].v[j] ** r[k].v[j]), DOMAIN r)

ColumnOf(a, r, j) ==
    LET s == PivotOf(a, r, j)
        Below(i) == a[i][j] -- Total(LAMBDA k : r[k].s ** (r[k].v[i] ** r[k].v[j]), DOMAIN r)
    IN  [s |-> s, v |-> [i \in DOMAIN a |-> IF i < j THEN Zero
                                            ELSE IF i = j THEN One ELSE Below(i) // s]]

\* A pivot that is not positive ends the factorization.
Factorize(a) ==
    FoldLeft(LAMBDA acc, j :
                IF acc.ok /\ PivotOf(a, acc.l, j) \succ Zero
                THEN Result(TRUE, Append(acc.l, ColumnOf(a, acc.l, j)))
                ELSE Result(FALSE, <<>>),
             Result(TRUE, <<>>), [j \in DOMAIN a |-> j])

-----------------------------------------------------------------------------
\* chol_append

\* Forward substitution: y[j] is sqrt(r[j].s) times this.
Substituted(r, g) ==
    LET w[j \in DOMAIN r] ==
            (g[j] -- Total(LAMBDA k : r[k].s ** (r[k].v[j] ** w[k]), 1 .. j - 1)) // r[j].s
    IN  w

\* alpha
LastPivot(r, g, diag) ==
    diag -- Total(LAMBDA k : r[k].s ** (Substituted(r, g)[k] ** Substituted(r, g)[k]), DOMAIN r)

\* Some pivot is not above diag_eps, or the new one is not.
AppendIsDegenerate(r, g, diag) ==
    \/ \E j \in DOMAIN r : ~(r[j].s \succ (DiagEps ** DiagEps))
    \/ ~(LastPivot(r, g, diag) \succ DiagEps)

\* The triangle bordered by y and sqrt(alpha).
Bordered(r, g, diag) ==
    LET n == Len(r)
        Longer(v, x) == [i \in 1 .. n + 1 |-> IF i <= n THEN v[i] ELSE x]
    IN  Append([j \in 1 .. n |-> [s |-> r[j].s, v |-> Longer(r[j].v, Substituted(r, g)[j])]],
               [s |-> LastPivot(r, g, diag), v |-> Longer([i \in 1 .. n |-> Zero], One)])

\* Bug: the bordered Gram matrix gets no border.
AppendRefactorForgets(r, g, diag) ==
    LET n == Len(r)
    IN  Factorize([i \in 1 .. n + 1 |-> [j \in 1 .. n + 1 |->
            IF i <= n /\ j <= n THEN Product(r)[i][j] ELSE IF i = j THEN diag ELSE Zero]])

\* chol_append_refactor_fallback
AppendRefactor(r, g, diag) ==
    LET n == Len(r)
    IN  Factorize([i \in 1 .. n + 1 |-> [j \in 1 .. n + 1 |->
            IF i <= n /\ j <= n THEN Product(r)[i][j]
            ELSE IF i <= n THEN g[i] ELSE IF j <= n THEN g[j] ELSE diag]])

-----------------------------------------------------------------------------
\* chol_remove

\* From the removed position on, every row of the upper triangle takes the place of
\* the one above it, and the last one is zero.
ShiftedUp(r, p) ==
    LET n == Len(r)
        None == [s |-> Zero, v |-> [i \in 1 .. n |-> Zero]]
    IN  [i \in 1 .. n |-> IF i < p THEN r[i] ELSE IF i < n THEN r[i + 1] ELSE None]

\* The Givens rotation of rows i and i + 1 that clears the pivot column of the second;
\* none if both pivots are zero.  With x and y the two pivots and h the square of
\* their hypotenuse, the rows become (x * row + y * next) / sqrt(h) and
\* (x * next - y * row) / sqrt(h).
Rotated(r, i) ==
    LET this == r[i]
        next == r[i + 1]
        a == this.v[i]
        b == next.v[i]
        h == (this.s ** (a ** a)) ++ (next.s ** (b ** b))
        Up(j)   == ((this.s ** (a ** this.v[j])) ++ (next.s ** (b ** next.v[j]))) // h
        Down(j) == (a ** next.v[j]) -- (b ** this.v[j])
    IN  IF h = Zero THEN r
        ELSE [r EXCEPT ![i] = [s |-> h, v |-> [j \in DOMAIN r |-> Up(j)]],
                       ![i + 1] = [s |-> (this.s ** next.s) // h, v |-> [j \in DOMAIN r |-> Down(j)]]]

AllRotated(r, p) == FoldLeft(Rotated, ShiftedUp(r, p), [k \in 1 .. Len(r) - p |-> p + k - 1])

\* The leading rows and columns, scaled to unit pivots.
Leading(r) ==
    LET n == Len(r) - 1
    IN  [j \in 1 .. n |->
            [s |-> r[j].s ** (r[j].v[j] ** r[j].v[j]),
             v |-> [i \in 1 .. n |-> r[j].v[i] // r[j].v[j]]]]

\* Some pivot of the result is not above diag_eps.
RemoveIsDegenerate(r, p) ==
    \E j \in 1 .. Len(r) - 1 :
        LET row == AllRotated(r, p)[j]
        IN  ~(row.v[j] \succ Zero /\ (row.s ** (row.v[j] ** row.v[j])) \succ (DiagEps ** DiagEps))

\* Bug: the last row goes, whichever was asked for.
RemoveRefactorLast(r, p) ==
    Factorize([i \in 1 .. Len(r) - 1 |-> [j \in 1 .. Len(r) - 1 |-> Product(r)[i][j]]])

\* chol_remove_refactor_fallback
RemoveRefactor(r, p) ==
    LET old(i) == IF i < p THEN i ELSE i + 1
    IN  Factorize([i \in 1 .. Len(r) - 1 |-> [j \in 1 .. Len(r) - 1 |-> Product(r)[old(i)][old(j)]]])

-----------------------------------------------------------------------------

NoOp == [call |-> "none", path |-> "none"]

Init ==
    /\ active = <<>>
    /\ l = <<>>
    /\ op = NoOp

\* A refactoring that fails leaves the triangle alone, and the caller the active rows.
Refactored(call, f, list) ==
    /\ op' = [call |-> call, path |-> IF f.ok THEN "refactored" ELSE "failed"]
    /\ l' = IF f.ok THEN f.l ELSE l
    /\ active' = IF f.ok THEN list ELSE active

\* chol_append of a row that is not active.
AppendRow(id) ==
    LET g == [i \in DOMAIN active |-> Q(Gram(active[i], id))]
        diag == Q(Gram(id, id))
        list == Append(active, id)
    IN  /\ id \notin ToSet(active)
        /\ Len(active) < MaxActive
        /\ \/ /\ AppendIsDegenerate(l, g, diag)
              /\ Refactored("append", AppendRefactor(l, g, diag), list)
           \/ /\ ~AppendIsDegenerate(l, g, diag)
              /\ op' = [call |-> "append", path |-> "updated"]
              /\ l' = Bordered(l, g, diag)
              /\ active' = list

\* chol_remove of the row at a position; the only row leaves an empty triangle.
RemoveRow(p) ==
    LET list == RemoveAt(active, p)
        updated == Len(l) = 1 \/ ~RemoveIsDegenerate(l, p)
    IN  \/ /\ ~updated
           /\ Refactored("remove", RemoveRefactor(l, p), list)
        \/ /\ updated
           /\ op' = [call |-> "remove", path |-> "updated"]
           /\ l' = IF Len(l) = 1 THEN <<>> ELSE Leading(AllRotated(l, p))
           /\ active' = list

Next ==
    \/ \E id \in Rows : AppendRow(id)
    \/ \E p \in DOMAIN active : RemoveRow(p)

Spec == Init /\ [][Next]_vars

-----------------------------------------------------------------------------
\* Properties.

GramMatrix(list) ==
    [i \in DOMAIN list |-> [j \in DOMAIN list |-> Q(Gram(list[i], list[j]))]]

\* Whatever appends, removals and refactorings led to it, the triangle is the one that
\* factorizing the Gram matrix of the active rows from nothing gives, so that a solve
\* does not depend on the history (tests/test_chol_rank1_insert_remove_matches_refactor.cpp
\* compares the products for random rows, none of them dependent).
MatchesRefactor == Factorize(GramMatrix(active)) = Result(TRUE, l)

\* An append fails exactly when the rows with the new one cannot be factorized, in
\* whichever order the others came and went; then the triangle is as before.  A removal
\* never fails.
FailsOnlyIfDependent ==
    [][/\ \A id \in Rows : AppendRow(id) =>
            (op'.path = "failed" <=> ~Factorize(GramMatrix(Append(active, id))).ok)
       /\ op'.path = "failed" => op'.call = "append" /\ l' = l]_vars
=============================================================================
