----------------------------- MODULE Projector -----------------------------
(***************************************************************************)
(* StreamingProjector (src/src/projector.cpp): set_options, set_rhs and    *)
(* project, with the oracle it drives and the safe fallback it ends in.    *)
(*                                                                         *)
(* project is one StartTick, then one action per turn of its loop, named   *)
(* after the way the turn ends.  The oracle is the record of its mask,     *)
(* its per-block entries, its global entry and last_; its tournament tree  *)
(* is left out (module Oracle shows that its root is the best entry).      *)
(*                                                                         *)
(* What floating point computes is a parameter: the certified violation    *)
(* of a row (Violators), whether a Gram matrix factorizes, the multipliers *)
(* it yields, the combined point, the shrink it needs and the points a     *)
(* ray scaling may round to.  Module Geometry defines them for the runs.   *)
(***************************************************************************)
EXTENDS Violators, Sequences

CONSTANTS
    Parts,                \* what a block's part of a point may be
    Origin,               \* the anchor of the fallback: all zeros
    Proposals,            \* q_prop of the calls
    RightHandSides,       \* rhs of the calls
    OptionSets,           \* options of the calls
    MaxActive,            \* the largest a_max among them
    RhsPerTick,           \* the caller's discipline, see StartTick
    Moved(_, _),          \* (part, part): some coordinate differs by more than q_change_tol
    Factorable(_),        \* (ids): the Gram matrix of the rows factorizes
    Multipliers(_, _, _), \* (ids, proposal, rhs): the solved multipliers
    LambdaNegativeTol,    \* lambda_negative_tol
    Combine(_, _, _),     \* (ids, proposal, rhs): the proposal moved by the multipliers
    TauRequired(_, _, _), \* (point, rhs, kappa_min)
    StrictTauFloor,       \* strict_tau_floor
    Shrink(_, _),         \* (point, tau): (1 - tau) * point
    RayPoints(_, _)       \* (proposal, rhs): roundings of the ray-scaled proposal

Points == [Blocks -> Parts]

Options ==
    [warmStart : BOOLEAN, forceFullRescan : BOOLEAN, strictInterior : BOOLEAN,
     fallbackEnabled : BOOLEAN, aMax : 0 .. MaxActive, iMax : Nat,
     kappaMin : Int, tauShrinkMin : Int, tauShrinkMax : Int]

\* Lists of distinct ids no longer than the reserved capacity.
IdLists ==
    {s \in UNION {[1 .. k -> Ids] : k \in 0 .. MaxActive} :
        \A i, j \in DOMAIN s : s[i] = s[j] => i = j}

ASSUME ParameterAssumption ==
    /\ NegInf < 0
    /\ MaxActive \in Nat
    /\ Origin \in Points
    /\ Proposals \subseteq Points
    /\ RightHandSides # {}
    /\ OptionSets \subseteq Options
    /\ RhsPerTick \in BOOLEAN
    /\ LambdaNegativeTol \in Int

\* A part that did not move keeps the violation of its block's rows.
ASSUME UnmovedAssumption ==
    \A x, y \in Parts : ~Moved(x, y) =>
        \A id \in LocalIds : \A rhs \in RightHandSides :
            LocalViolation(id, x, rhs[id]) = LocalViolation(id, y, rhs[id])

\* Rows evaluate to numbers above -infinity, and solving leads to a point.
ASSUME NumericAssumption ==
    /\ \A rhs \in RightHandSides :
        /\ \A id \in LocalIds : \A x \in Parts :
            /\ LocalViolation(id, x, rhs[id]) \in Int
            /\ LocalViolation(id, x, rhs[id]) > NegInf
        /\ \A id \in GlobalIds : \A p \in Points :
            /\ GlobalViolation(id, p, rhs[id]) \in Int
            /\ GlobalViolation(id, p, rhs[id]) > NegInf
    /\ \A p \in Proposals : \A rhs \in RightHandSides : \A ids \in IdLists :
        Factorable(ids) =>
            /\ Multipliers(ids, p, rhs) \in [DOMAIN ids -> Int]
            /\ Combine(ids, p, rhs) \in Points

Larger(x, y) == IF x > y THEN x ELSE y
Smaller(x, y) == IF x < y THEN x ELSE y

\* The shrink that finalize_with_safety computes under options o.
TauFor(o, q, r) ==
    LET tau == Larger(TauRequired(q, r, o.kappaMin), o.tauShrinkMin)
    IN  IF ~o.strictInterior THEN 0
        ELSE IF tau <= 0 THEN Smaller(o.tauShrinkMax, StrictTauFloor)
        ELSE tau

\* The kappa test of set_rhs, passed under the options of that time.
KappaPassed(r) == \E o \in OptionSets : \A id \in Ids : r[id] >= o.kappaMin

\* A shrink that is not refused moves every certified row into its interior, and rows
\* evaluate to numbers at every point a call may return.
ASSUME OutputAssumption ==
    /\ \A p \in Points : Shrink(p, 0) = p
    /\ \A o \in {o \in OptionSets : o.strictInterior} :
        \A r \in RightHandSides : \A p \in Points : \A id \in Ids :
        LET tau == TauFor(o, p, r)
            after == RowViolation(id, Shrink(p, tau), r)
        IN  /\ after \in Int
            /\ /\ KappaPassed(r)
               /\ ~(TauRequired(p, r, o.kappaMin) > o.tauShrinkMax) /\ ~(tau > o.tauShrinkMax)
               /\ RowViolation(id, p, r) <= 0
               => after < 0
    /\ \A r \in RightHandSides : \A p \in Proposals : \A x \in RayPoints(p, r) : \A id \in Ids :
        RowViolation(id, x, r) \in Int

\* What exact arithmetic with a positive tau_abs gives, and the zero error terms of a
\* rounding study do not: a row that was solved to lie on its bound counts as violated,
\* and the order of the rows in a list does not change the point they lead to.
BoundRowsViolated ==
    \A list \in IdLists : Factorable(list) =>
        \A p \in Proposals : \A r \in RightHandSides : \A i \in DOMAIN list :
            RowViolation(list[i], Combine(list, p, r), r) > 0

OrderFree ==
    \A list, perm \in IdLists :
        /\ Factorable(list) /\ Factorable(perm)
        /\ {list[i] : i \in DOMAIN list} = {perm[i] : i \in DOMAIN perm}
        => \A p \in Proposals : \A r \in RightHandSides :
              Combine(list, p, r) = Combine(perm, p, r)

VARIABLES
    opts, rhs, rhsSet,
    kappaValid, \* rhs_kappa_valid_cached_
    warm,       \* warm_active_ids_
    factor,     \* factor_active_ids_, factor_refs_, factor_l_, factor_valid_
    oracle,     \* the oracle's mask, entries and answer
    oracleIds,  \* oracle_active_ids_, used as a set
    qPrev,      \* q_prev_tick_
    havePrev,   \* have_prev_tick_
    pc,         \* "idle" between calls of project, "loop" at the head of its loop
    prop, qCurr, ids, iter, \* q_prop, q_curr, active_ids and iter of the call
    ret         \* what the last call of project returned

settingVars == <<opts, rhs, rhsSet, kappaValid>>
tickVars    == <<pc, prop, qCurr, ids, iter>>
vars == <<opts, rhs, rhsSet, kappaValid, warm, factor, oracle, oracleIds,
          qPrev, havePrev, pc, prop, qCurr, ids, iter, ret>>

Elems(s) == {s[i] : i \in DOMAIN s}

\* vector::erase at position i.
RemoveAt(s, i) == [j \in 1 .. Len(s) - 1 |-> IF j < i THEN s[j] ELSE s[j + 1]]

-----------------------------------------------------------------------------
\* The factor of the active rows.  Its triangle l is named by the list of rows
\* whose Gram matrix it factorizes, or by a list of NoId when it is none.

EmptyFactor == [ids |-> <<>>, refs |-> <<>>, l |-> <<>>, valid |-> TRUE]

Ok(f)     == [ok |-> TRUE,  factor |-> f]
Failed(f) == [ok |-> FALSE, factor |-> f]

\* rebuild_from_scratch: a failure leaves the overwritten refs and triangle behind.
Rebuild(f, list) ==
    IF Factorable(list)
    THEN Ok([ids |-> list, refs |-> list, l |-> list, valid |-> TRUE])
    ELSE Failed([f EXCEPT !.refs = list, !.l = [i \in DOMAIN list |-> NoId]])

\* chol_append of one more row; a failure changes nothing.
AppendRow(f, id) ==
    IF Factorable(Append(f.refs, id))
    THEN Ok([f EXCEPT !.ids = Append(@, id), !.refs = Append(@, id), !.l = Append(@, id)])
    ELSE Failed(f)

\* Bug: the triangle loses its last row whichever row goes.
DeleteLastOfTriangle(f, i) ==
    IF Factorable(RemoveAt(f.refs, i))
    THEN Ok([f EXCEPT !.ids = RemoveAt(@, i), !.refs = RemoveAt(@, i),
                      !.l = RemoveAt(@, Len(@))])
    ELSE Failed(f)

\* chol_remove of the row at a position.
DeleteRow(f, i) ==
    IF Factorable(RemoveAt(f.refs, i))
    THEN Ok([f EXCEPT !.ids = RemoveAt(@, i), !.refs = RemoveAt(@, i), !.l = RemoveAt(@, i)])
    ELSE Failed(f)

\* The two-pointer scan for the one row that list dropped from prev: the first
\* mismatch, provided the rest of prev matches; 0 if there is no such position.
RemovalPos(prev, list) ==
    LET i == CHOOSE j \in DOMAIN prev :
                /\ j > Len(list) \/ prev[j] # list[j]
                /\ \A h \in 1 .. j - 1 : prev[h] = list[h]
    IN  IF RemoveAt(prev, i) = list THEN i ELSE 0

\* Which of keep, append, remove and rebuild brings the factor to list.
Refactor(f, list) ==
    IF ~f.valid THEN Rebuild(f, list)
    ELSE IF f.ids = list THEN Ok(f)
    ELSE IF Len(f.ids) + 1 = Len(list) THEN
        IF \A i \in DOMAIN f.ids : f.ids[i] = list[i]
        THEN AppendRow(f, list[Len(list)])
        ELSE Rebuild(f, list)
    ELSE IF Len(f.ids) = Len(list) + 1 /\ RemovalPos(f.ids, list) # 0
    THEN DeleteRow(f, RemovalPos(f.ids, list))
    ELSE Rebuild(f, list)

\* solve_active_system: the factor's three lists must end up with list's length.
Solve(f, list) ==
    LET r == Refactor(f, list)
    IN  IF list = <<>> THEN Ok(EmptyFactor)
        ELSE IF r.ok /\ ~(/\ Len(r.factor.ids) = Len(list)
                          /\ Len(r.factor.refs) = Len(list)
                          /\ Len(r.factor.l) = Len(list))
        THEN Failed([r.factor EXCEPT !.valid = FALSE])
        ELSE r

\* Bug: the sign of the multipliers is not looked at.
NoneNegative(lambda) == {}

\* Positions of multipliers below the tolerance, and the most negative of them.
Negative(lambda) == {i \in DOMAIN lambda : lambda[i] < -LambdaNegativeTol}

DropPos(lambda) ==
    CHOOSE i \in Negative(lambda) : \A j \in Negative(lambda) :
        lambda[i] < lambda[j] \/ (lambda[i] = lambda[j] /\ i <= j)

-----------------------------------------------------------------------------
\* The oracle.

\* init_tick (all blocks) and update_blocks: the named blocks and the global
\* rows are recomputed under the mask, then the answer is merged.
Recompute(o, touched, q) ==
    LET best == [b \in Blocks |-> IF b \in touched THEN BlockBest(b, o.active, q, rhs)
                                  ELSE o.blockBest[b]]
        gbest == GlobalBest(o.active, q, rhs)
    IN  [active |-> o.active, blockBest |-> best, globalBest |-> gbest,
         last |-> Merge(Best({best[b] : b \in Blocks}), gbest)]

\* changed_blocks
ChangedBlocks(q1, q2) == {b \in Blocks : Moved(q1[b], q2[b])}

\* Bug: ids that are no longer desired stay masked.
MaskOnlyGrows(desired) == oracle.active \cup desired

\* sync_oracle_active_set: the mask after moving from oracleIds to desired.
SyncedMask(desired) ==
    (oracle.active \ (oracleIds \ desired)) \cup (desired \ oracleIds)

-----------------------------------------------------------------------------
\* The end of a call.

NoReturn == [kind |-> "none"]

Return(kind, out, cand, maxViolation) ==
    [kind |-> kind, prop |-> prop, cand |-> cand, ids |-> ids,
     out |-> out, maxViolation |-> maxViolation]

\* q_out of a call that returned without writing it.
Unwritten == <<>>

\* The scratch vectors of a call are dead between calls.
LeaveLoop ==
    /\ pc' = "idle"
    /\ prop' = Origin
    /\ qCurr' = Origin
    /\ ids' = <<>>
    /\ iter' = 0

\* safe_fallback_ray_scale_to_anchor: the scaled proposal, or the anchor.
SafeFallback(x) == IF CertifiedFeasible(x, rhs) THEN x ELSE Origin

\* Bug: the ray-scaled proposal is returned unchecked.
FallbackUnchecked(x) == x

\* The projector's own check of the fallback's point, which repeats the test.
FallbackOutput(x) ==
    IF CertifiedFeasible(SafeFallback(x), rhs) THEN SafeFallback(x) ELSE Origin

\* Bug: the fallback also forgets the point of its tick.
FallbackForgets(mask, synced) ==
    /\ \E x \in RayPoints(prop, rhs) :
        ret' = Return("fallback", FallbackOutput(x), qCurr,
                      ScanWorst(FallbackOutput(x), rhs).violation)
    /\ warm' = <<>>
    /\ oracle' = [oracle EXCEPT !.active = mask \ synced]
    /\ oracleIds' = {}
    /\ factor' = EmptyFactor
    /\ havePrev' = FALSE
    /\ LeaveLoop
    /\ UNCHANGED <<settingVars, qPrev>>

\* fallback_to_anchor with the mask and the ids that the oracle holds by then.
FallbackToAnchor(mask, synced) ==
    /\ \E x \in RayPoints(prop, rhs) :
        ret' = Return("fallback", FallbackOutput(x), qCurr,
                      ScanWorst(FallbackOutput(x), rhs).violation)
    /\ warm' = <<>>
    /\ oracle' = [oracle EXCEPT !.active = mask \ synced]
    /\ oracleIds' = {}
    /\ factor' = EmptyFactor
    /\ LeaveLoop
    /\ UNCHANGED <<settingVars, qPrev, havePrev>>

\* tau_use of finalize_with_safety.
TauUse(q) == TauFor(opts, q, rhs)

\* The refusals of finalize_with_safety before q_out is written.
KappaRefused == opts.strictInterior /\ ~kappaValid
TauRefused(q) ==
    /\ opts.strictInterior
    /\ TauRequired(q, rhs, opts.kappaMin) > opts.tauShrinkMax \/ TauUse(q) > opts.tauShrinkMax

\* The worst certified violation of the factor's rows at the shrunk point.
WorstActive(refs, out) ==
    LET v == {RowViolation(id, out, rhs) : id \in Elems(refs)} \cup {NegInf}
    IN  CHOOSE x \in v : \A y \in v : y <= x

MinActiveSlack(refs, out) ==
    IF refs = <<>> THEN IF opts.strictInterior THEN opts.kappaMin ELSE 0
    ELSE -WorstActive(refs, out)

\* Bug: the active rows are looked at in strict mode only.
ActiveRefusedIfStrict(refs, out) ==
    opts.strictInterior /\ ~(MinActiveSlack(refs, out) > 0)

\* The refusals after q_out is written: only the rows of the factor are checked.
ActiveRefused(refs, out) ==
    \/ WorstActive(refs, out) > 0
    \/ opts.strictInterior /\ ~(MinActiveSlack(refs, out) > 0)

Refused(f) ==
    \/ KappaRefused
    \/ TauRefused(qCurr)
    \/ ActiveRefused(f.refs, Shrink(qCurr, TauUse(qCurr)))

\* finalize_with_safety succeeds: the shrunk candidate is the output.
Accept(f) ==
    /\ ~Refused(f)
    /\ LET out == Shrink(qCurr, TauUse(qCurr))
       IN  ret' = Return("accepted", out, qCurr, WorstActive(f.refs, out))
    /\ warm' = ids
    /\ factor' = f
    /\ LeaveLoop
    /\ UNCHANGED <<settingVars, oracle, oracleIds, qPrev, havePrev>>

\* finalize_with_safety refuses and fallbacks are off: project returns as is,
\* with q_out unwritten or holding the refused point.
RefuseSilently(f) ==
    /\ Refused(f)
    /\ ~opts.fallbackEnabled
    /\ LET out == Shrink(qCurr, TauUse(qCurr))
       IN  ret' = IF KappaRefused \/ TauRefused(qCurr)
                  THEN Return("refused", Unwritten, qCurr, oracle.last.violation)
                  ELSE IF WorstActive(f.refs, out) > 0
                  THEN Return("refused", out, qCurr, oracle.last.violation)
                  ELSE Return("refused", out, qCurr, WorstActive(f.refs, out))
    /\ factor' = f
    /\ LeaveLoop
    /\ UNCHANGED <<settingVars, warm, oracle, oracleIds, qPrev, havePrev>>

RefuseToFallback(f) ==
    /\ Refused(f)
    /\ opts.fallbackEnabled
    /\ FallbackToAnchor(oracle.active, oracleIds)

-----------------------------------------------------------------------------

Init ==
    /\ opts \in OptionSets
    /\ rhs \in RightHandSides
    /\ rhsSet = FALSE
    /\ kappaValid = TRUE
    /\ warm = <<>>
    /\ factor = [EmptyFactor EXCEPT !.valid = FALSE]
    /\ oracle = [active |-> {}, blockBest |-> [b \in Blocks |-> NegativeInfinityLocal],
                 globalBest |-> NegativeInfinityGlobal, last |-> NegativeInfinityGlobal]
    /\ oracleIds = {}
    /\ qPrev = Origin
    /\ havePrev = FALSE
    /\ pc = "idle"
    /\ prop = Origin
    /\ qCurr = Origin
    /\ ids = <<>>
    /\ iter = 0
    /\ ret = NoReturn

\* set_options: the cached kappa verdict, the warm ids and the mask survive.
SetOptions(o) ==
    /\ pc = "idle"
    /\ opts' = o
    /\ havePrev' = FALSE
    /\ factor' = [factor EXCEPT !.valid = FALSE]
    /\ ret' = NoReturn
    /\ UNCHANGED <<rhs, rhsSet, kappaValid, warm, oracle, oracleIds, qPrev, tickVars>>

\* set_rhs
SetRhs(r) ==
    /\ pc = "idle"
    /\ rhs' = r
    /\ rhsSet' = TRUE
    /\ havePrev' = FALSE
    /\ kappaValid' = \A id \in Ids : r[id] >= opts.kappaMin
    /\ ret' = NoReturn
    /\ UNCHANGED <<opts, warm, factor, oracle, oracleIds, qPrev, tickVars>>

\* project up to its loop: the warm active set is solved for the new proposal
\* (or dropped), the mask is synchronized, and the oracle is rescanned, or
\* updated in the blocks that moved since the start of the previous tick.
\* With RhsPerTick the caller sets a right-hand side before every project
\* that does not force a full rescan, as tests/test_projector_vs_reference.cpp
\* does; the stage-6 test and the benches set one and stream.
StartTick(p) ==
    /\ pc = "idle"
    /\ rhsSet
    /\ RhsPerTick => opts.forceFullRescan \/ ~havePrev
    /\ LET start == IF opts.warmStart THEN warm ELSE <<>>
           s    == Solve(factor, start)
           list == IF s.ok THEN start ELSE <<>>
           q    == IF list = <<>> THEN p ELSE Combine(list, p, rhs)
           o    == [oracle EXCEPT !.active = SyncedMask(Elems(list))]
           full == opts.forceFullRescan \/ ~havePrev
       IN  /\ factor' = IF list = <<>> THEN EmptyFactor ELSE s.factor
           /\ oracle' = Recompute(o, IF full THEN Blocks ELSE ChangedBlocks(qPrev, q), q)
           /\ oracleIds' = Elems(list)
           /\ qPrev' = q
           /\ qCurr' = q
           /\ ids' = list
    /\ havePrev' = TRUE
    /\ pc' = "loop"
    /\ prop' = p
    /\ iter' = 0
    /\ ret' = NoReturn
    /\ UNCHANGED <<settingVars, warm>>

Turn == pc = "loop" /\ iter < opts.iMax

Converged == oracle.last.violation <= 0

\* The factor that finalize_with_safety finds: nothing is solved for no active row.
FinalSolve == IF ids = <<>> THEN Ok(factor) ELSE Solve(factor, ids)

\* No inactive row is violated and the solved multipliers are not negative.
Finish ==
    /\ Turn
    /\ Converged
    /\ LET s == FinalSolve
       IN  /\ s.ok
           /\ ids = <<>> \/ Negative(Multipliers(ids, prop, rhs)) = {}
           /\ Accept(s.factor) \/ RefuseSilently(s.factor) \/ RefuseToFallback(s.factor)

\* No inactive row is violated but the active system cannot be solved.
FinishSolveFails ==
    /\ Turn
    /\ Converged
    /\ ~FinalSolve.ok
    /\ FallbackToAnchor(oracle.active, oracleIds)

\* Bug: a turn that drops a row is not counted.
DropUncounted(list, f, i, mask, synced, entered) ==
    LET r == list[i]
    IN  /\ ids' = RemoveAt(list, i)
        /\ factor' = IF ids' = <<>> THEN EmptyFactor ELSE f
        /\ oracle' = Recompute([oracle EXCEPT !.active = mask \ {r}],
                               MaskBlocks({r} \cup entered), qCurr)
        /\ oracleIds' = synced \ {r}
        /\ UNCHANGED <<iter, settingVars, warm, qPrev, havePrev, pc, prop, qCurr, ret>>

\* Row r leaves the active ids, the mask and oracleIds; the point stays where it
\* is, and the blocks whose mask changed are recomputed there.
Drop(list, f, i, mask, synced, entered) ==
    LET r == list[i]
    IN  /\ ids' = RemoveAt(list, i)
        /\ factor' = IF ids' = <<>> THEN EmptyFactor ELSE f
        /\ oracle' = Recompute([oracle EXCEPT !.active = mask \ {r}],
                               MaskBlocks({r} \cup entered), qCurr)
        /\ oracleIds' = synced \ {r}
        /\ iter' = iter + 1
        /\ UNCHANGED <<settingVars, warm, qPrev, havePrev, pc, prop, qCurr, ret>>

\* No inactive row is violated: the row with the most negative multiplier goes.
DropAtConvergence ==
    /\ Turn
    /\ Converged
    /\ ids # <<>>
    /\ LET s == FinalSolve
           lambda == Multipliers(ids, prop, rhs)
       IN  /\ s.ok
           /\ Negative(lambda) # {}
           /\ Drop(ids, s.factor, DropPos(lambda), oracle.active, oracleIds, {})

Entering == oracle.last.id

\* The worst row is already active, or there is no room for it.
EnterRejected ==
    /\ Turn
    /\ ~Converged
    /\ Entering \in Elems(ids) \/ Len(ids) >= opts.aMax
    /\ FallbackToAnchor(oracle.active, oracleIds)

\* Bug: a_max is not enforced.
EntersWithoutRoom ==
    /\ Turn
    /\ ~Converged
    /\ Entering \notin Elems(ids)

Enters ==
    /\ Turn
    /\ ~Converged
    /\ Entering \notin Elems(ids)
    /\ Len(ids) < opts.aMax

EnterSolveFails ==
    /\ Enters
    /\ ~Solve(factor, Append(ids, Entering)).ok
    /\ FallbackToAnchor(oracle.active \cup {Entering}, oracleIds \cup {Entering})

\* The worst row enters and a row with a negative multiplier goes, in one turn.
EnterDrop ==
    /\ Enters
    /\ LET list == Append(ids, Entering)
           s == Solve(factor, list)
           lambda == Multipliers(list, prop, rhs)
       IN  /\ s.ok
           /\ Negative(lambda) # {}
           /\ Drop(list, s.factor, DropPos(lambda), oracle.active \cup {Entering},
                   oracleIds \cup {Entering}, {Entering})

\* Bug: the block whose mask changed is forgotten.
TouchedByPointOnly(q1, q2, entered) ==
    IF opts.forceFullRescan THEN Blocks ELSE ChangedBlocks(q1, q2)

\* The blocks whose point or mask changes when a row enters and the point moves.
TouchedByMove(q1, q2, entered) ==
    IF opts.forceFullRescan THEN Blocks
    ELSE ChangedBlocks(q1, q2) \cup MaskBlocks({entered})

\* The worst row enters and the point moves to the solution of the active rows.
EnterMove ==
    /\ Enters
    /\ LET list == Append(ids, Entering)
           s == Solve(factor, list)
           q == Combine(list, prop, rhs)
       IN  /\ s.ok
           /\ Negative(Multipliers(list, prop, rhs)) = {}
           /\ ids' = list
           /\ factor' = s.factor
           /\ qCurr' = q
           /\ oracle' = Recompute([oracle EXCEPT !.active = @ \cup {Entering}],
                                  TouchedByMove(qCurr, q, Entering), q)
    /\ oracleIds' = oracleIds \cup {Entering}
    /\ iter' = iter + 1
    /\ UNCHANGED <<settingVars, warm, qPrev, havePrev, pc, prop, ret>>

\* The loop ends without an answer.
BudgetExhausted ==
    /\ pc = "loop"
    /\ iter >= opts.iMax
    /\ FallbackToAnchor(oracle.active, oracleIds)

Loop ==
    \/ Finish
    \/ FinishSolveFails
    \/ DropAtConvergence
    \/ EnterRejected
    \/ EnterSolveFails
    \/ EnterDrop
    \/ EnterMove
    \/ BudgetExhausted

Next ==
    \/ \E o \in OptionSets : SetOptions(o)
    \/ \E r \in RightHandSides : SetRhs(r)
    \/ \E p \in Proposals : StartTick(p)
    \/ Loop

Spec == Init /\ [][Next]_vars

-----------------------------------------------------------------------------
\* Properties.

Factors == [ids : IdLists, refs : IdLists, l : IdLists, valid : BOOLEAN]

OracleStates ==
    [active : SUBSET Ids, blockBest : [Blocks -> Violator],
     globalBest : Violator, last : Violator]

\* The types, and the capacity: a call's active list outgrows a_max only by being a
\* warm list kept from before set_options lowered a_max.
TypeOK ==
    /\ opts \in OptionSets
    /\ rhs \in RightHandSides
    /\ rhsSet \in BOOLEAN
    /\ kappaValid \in BOOLEAN
    /\ warm \in IdLists
    /\ factor \in Factors
    /\ oracle \in OracleStates
    /\ oracleIds \subseteq Ids
    /\ qPrev \in Points
    /\ havePrev \in BOOLEAN
    /\ pc \in {"idle", "loop"}
    /\ prop \in Points /\ (pc = "loop" => prop \in Proposals)
    /\ qCurr \in Points
    /\ ids \in IdLists
    /\ pc = "loop" => Len(ids) <= Larger(opts.aMax, Len(warm))
    /\ iter \in Nat
    /\ ret.kind \in {"none", "accepted", "fallback", "refused"}

\* The mask in the oracle, the projector's record of it (oracle_active_ids_) and
\* the active ids of the running call never drift apart, although each of them is
\* edited on its own in sync_oracle_active_set, on entering, on dropping and in
\* fallback_to_anchor: a masked row that is not active would never be seen again.
MaskCoherent ==
    /\ oracle.active = oracleIds
    /\ pc = "loop" => oracleIds = Elems(ids)

\* The three lists of the factor always describe the same rows, so multipliers
\* are solved from the triangle of the rows they are applied to, across ticks and
\* whichever of keep, append, remove and rebuild ran last (solve_active_system);
\* with no active row finalize_with_safety finds no row of an earlier factor.
FactorCoherent ==
    /\ factor.refs = factor.ids
    /\ factor.l = factor.ids
    /\ pc = "loop" /\ ids = <<>> => factor = EmptyFactor

\* Every tick starts with a rescan: the options ask for it, or the caller's discipline does.
Rescanned == RhsPerTick \/ opts.forceFullRescan

\* At every head of the loop the incrementally updated oracle answers what a scan
\* of all inactive rows at the current point would: each turn names every block
\* whose point or mask it changed.  Needs ticks that start with a rescan.
OracleFresh ==
    Rescanned /\ pc = "loop" => oracle.last = WorstInactive(Elems(ids), qCurr, rhs)

Certified(p) == \A id \in Ids : RowViolation(id, p, rhs) <= 0

StrictlyCertified(p) == \A id \in Ids : RowViolation(id, p, rhs) < 0

\* A call that does not fall back returns a point whose every row is certified,
\* strictly so in strict mode, although finalize_with_safety checks active rows only.
\* A fallback's output is certified whenever the anchor is (README, "fail-closed").
OutputCertified ==
    Rescanned =>
        /\ ret.kind = "accepted" =>
              IF opts.strictInterior THEN StrictlyCertified(ret.out) ELSE Certified(ret.out)
        /\ ret.kind = "fallback" /\ Certified(Origin) => Certified(ret.out)

\* What an accepted call certified is the solution of its own active set with no
\* negative multiplier.  A drop leaves q_curr where the larger set put it, so this
\* needs every drop to be followed by a move before the call can finish.
AcceptedIsSolved ==
    ret.kind = "accepted" =>
        IF ret.ids = <<>> THEN ret.cand = ret.prop
        ELSE /\ ret.cand = Combine(ret.ids, ret.prop, rhs)
             /\ \A i \in DOMAIN ret.ids :
                    Multipliers(ret.ids, ret.prop, rhs)[i] >= -LambdaNegativeTol

\* Out of strict mode nothing shrinks the candidate off the active rows, whose
\* certified violation is then positive: only an untouched proposal is accepted.
NonStrictOutputIsProposal ==
    ret.kind = "accepted" /\ ~opts.strictInterior => ret.ids = <<>> /\ ret.out = ret.prop

\* A reported max_violation_certified <= 0 means that q_out is certified feasible
\* (tests/test_projector_vs_reference.cpp checks the report as if it did).
ReportIsHonest ==
    ret.kind # "none" /\ ret.maxViolation <= 0 =>
        ret.out # Unwritten /\ Certified(ret.out)

\* Whatever the caller does, an accepted output certifies the global rows (they are
\* rescanned by every oracle call) and a fallback's output certifies all rows
\* whenever the anchor does: a stale block entry can only hide local rows.
StreamingOutput ==
    /\ ret.kind = "accepted" => \A id \in GlobalIds : RowViolation(id, ret.out, rhs) <= 0
    /\ ret.kind = "fallback" /\ Certified(Origin) => Certified(ret.out)

\* Every call of project returns: each turn of the loop uses up budget or leaves.
Returns == pc = "loop" ~> pc = "idle"
=============================================================================
