----------------------------- MODULE OracleSpec -----------------------------
(***************************************************************************)
(* What the violator oracle promises its caller, with no cache and no      *)
(* tree: the caller changes its point, right-hand side and active mask as  *)
(* it likes, and whenever it then asks (init_tick or update_blocks) the    *)
(* answer is the worst row outside the mask at the current point.          *)
(***************************************************************************)
EXTENDS Violators

CONSTANTS Points, RightHandSides

VARIABLES
    q, rhs, active, \* the caller's point and bounds, and the active mask
    answer,         \* max_violation_inactive()
    answered        \* no input changed since the last answer

vars == <<q, rhs, active, answer, answered>>

Init ==
    /\ q \in Points
    /\ rhs \in RightHandSides
    /\ active = {}
    /\ answer = NegativeInfinityGlobal
    /\ answered = FALSE

\* The caller changes its inputs; the previous answer stays readable.
Disturb ==
    /\ q' \in Points
    /\ rhs' \in RightHandSides
    /\ active' \in SUBSET Ids
    /\ answered' = FALSE
    /\ UNCHANGED answer

Answer ==
    /\ answer' = WorstInactive(active, q, rhs)
    /\ answered' = TRUE
    /\ UNCHANGED <<q, rhs, active>>

Next == Disturb \/ Answer

Spec == Init /\ [][Next]_vars
=============================================================================
