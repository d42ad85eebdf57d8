------------------------------- MODULE Oracle -------------------------------
(***************************************************************************)
(* ViolatorOracle (src/src/violator_oracle.cpp): per-block best rows, a    *)
(* tournament tree over the blocks, a full rescan of the global rows, and  *)
(* the active mask.  The caller is the environment: it moves the point,    *)
(* replaces the right-hand side, edits the mask, and must name in          *)
(* update_blocks every block whose inputs changed ("dirty").  init_tick    *)
(* recomputes everything.                                                  *)
(***************************************************************************)
EXTENDS Violators, FiniteSets

CONSTANTS
    Points, RightHandSides, \* what the caller may pass
    TreeLeafCount,          \* tree_leaf_count_ = ceil_pow2(B)
    MaxActive               \* bound on the size of the mask

ASSUME TreeAssumption ==
    /\ TreeLeafCount \in Nat /\ \E k \in 0 .. 30 : TreeLeafCount = 2 ^ k
    /\ TreeLeafCount >= NumBlocks
    /\ TreeLeafCount = 1 \/ TreeLeafCount \div 2 < NumBlocks

\* A certified violation is a number or NaN.
ASSUME RowAssumption ==
    \A p \in Points, r \in RightHandSides, id \in Ids :
        RowViolation(id, p, r) \in Int \cup {NaN}

VARIABLES
    q, rhs,      \* the caller's point and right-hand side
    dirty,       \* blocks whose part, bounds or mask changed since they were recomputed
    active,      \* local_active_ and global_active_, as a set of ids
    blockBest,   \* block_best_
    tree,        \* tree_winner_block_, nodes 1 .. 2 * TreeLeafCount - 1
    globalBest,  \* global_best_
    last,        \* last_
    initialized, \* every entry has been computed
    answered     \* no input changed since last_ was computed

callerVars == <<q, rhs, active>>
cacheVars  == <<blockBest, tree, globalBest, last, initialized>>
vars       == <<q, rhs, dirty, active, blockBest, tree, globalBest, last, initialized, answered>>

NoBlock == -1
Nodes   == 1 .. 2 * TreeLeafCount - 1
Leaf(b) == TreeLeafCount + b

-----------------------------------------------------------------------------
\* The tournament.

\* The winner of two child nodes; a child without a block loses.
Winner(best, left, right) ==
    IF left = NoBlock THEN right
    ELSE IF right = NoBlock THEN left
    ELSE IF Prefer(best[left], best[right]) THEN left ELSE right

\* rebuild_tree: all leaves, then every inner node from its children.
RebuiltTree(best) ==
    LET t[n \in Nodes] ==
            IF n >= TreeLeafCount
            THEN IF n - TreeLeafCount < NumBlocks THEN n - TreeLeafCount ELSE NoBlock
            ELSE Winner(best, t[2 * n], t[2 * n + 1])
    IN  t

\* The nodes that update_tree_leaf visits for a block: the least set with its leaf and,
\* of every visited node but the root, the parent.
Climbs(S, b) == Leaf(b) \in S /\ \A m \in S : m > 1 => m \div 2 \in S

Path == [b \in Blocks |-> {n \in Nodes : \A S \in SUBSET Nodes : Climbs(S, b) => n \in S}]

\* Bug: the replay stops below the root.
ReplayedBelowRoot(t, best, b) ==
    LET u[n \in Nodes] ==
            IF n = 1 \/ n \notin Path[b] THEN t[n]
            ELSE IF n = Leaf(b) THEN b
            ELSE Winner(best, u[2 * n], u[2 * n + 1])
    IN  u

\* update_tree_leaf: the leaf and its ancestors are replayed, the rest is kept.
ReplayedPath(t, best, b) ==
    LET u[n \in Nodes] ==
            IF n \notin Path[b] THEN t[n]
            ELSE IF n = Leaf(b) THEN b
            ELSE Winner(best, u[2 * n], u[2 * n + 1])
    IN  u

\* best_local
BestLocal(t, best) ==
    IF t[1] = NoBlock THEN NegativeInfinityLocal ELSE best[t[1]]

\* Bug: the path is replayed before the block's new entry is stored.
ReplayThenStore(s, b) ==
    [best |-> [s.best EXCEPT ![b] = BlockBest(b, active, q, rhs)],
     tree |-> ReplayedPath(s.tree, s.best, b)]

\* One turn of the loop of update_blocks: recompute a block, then replay its path.
RecomputeOne(s, b) ==
    LET best == [s.best EXCEPT ![b] = BlockBest(b, active, q, rhs)]
    IN  [best |-> best, tree |-> ReplayedPath(s.tree, best, b)]

\* update_blocks visits the named blocks in ascending order.
RecomputeBlocks(s, ids) ==
    LET upto[b \in -1 .. NumBlocks - 1] ==
            IF b = -1 THEN s
            ELSE IF b \in ids THEN RecomputeOne(upto[b - 1], b) ELSE upto[b - 1]
    IN  upto[NumBlocks - 1]

-----------------------------------------------------------------------------

Init ==
    /\ q \in Points
    /\ rhs \in RightHandSides
    /\ dirty = Blocks
    /\ active = {}
    /\ blockBest = [b \in Blocks |-> NegativeInfinityLocal]
    /\ tree = [n \in Nodes |-> NoBlock]
    /\ globalBest = NegativeInfinityGlobal
    /\ last = NegativeInfinityGlobal
    /\ initialized = FALSE
    /\ answered = FALSE

\* The caller computes another point.
MovePoint ==
    /\ q' \in Points
    /\ dirty' = dirty \cup {b \in Blocks : q'[b] # q[b]}
    /\ answered' = FALSE
    /\ UNCHANGED <<rhs, active>>
    /\ UNCHANGED cacheVars

\* The caller takes another right-hand side: every row's bound may have changed.
ReplaceRhs ==
    /\ rhs' \in RightHandSides \ {rhs}
    /\ dirty' = Blocks
    /\ answered' = FALSE
    /\ UNCHANGED <<q, active>>
    /\ UNCHANGED cacheVars

\* Bug: the id's range is not checked.
ActivateUnchecked(id) ==
    /\ active' = active \cup {id}
    /\ Cardinality(active') <= MaxActive
    /\ dirty' = dirty \cup MaskBlocks({id})
    /\ answered' = FALSE
    /\ UNCHANGED <<q, rhs>>
    /\ UNCHANGED cacheVars

\* activate_constraint_id: the mask only; an id out of range is ignored.
ActivateConstraintId(id) ==
    /\ active' = active \cup ({id} \cap Ids)
    /\ Cardinality(active') <= MaxActive
    /\ dirty' = dirty \cup MaskBlocks({id})
    /\ answered' = FALSE
    /\ UNCHANGED <<q, rhs>>
    /\ UNCHANGED cacheVars

\* deactivate_constraint_id
DeactivateConstraintId(id) ==
    /\ active' = active \ {id}
    /\ dirty' = dirty \cup MaskBlocks({id})
    /\ answered' = FALSE
    /\ UNCHANGED <<q, rhs>>
    /\ UNCHANGED cacheVars

\* set_active_ids, set_active_ids_bulk and set_active_from_pos_of_id: clear the
\* mask, then mark the given ids that are in range.  clear_active is S = {}.
SetActiveIds(S) ==
    /\ active' = S \cap Ids
    /\ Cardinality(active') <= MaxActive
    /\ dirty' = dirty \cup MaskBlocks(active \cup S)
    /\ answered' = FALSE
    /\ UNCHANGED <<q, rhs>>
    /\ UNCHANGED cacheVars

\* init_tick
InitTick ==
    /\ blockBest' = [b \in Blocks |-> BlockBest(b, active, q, rhs)]
    /\ tree' = RebuiltTree(blockBest')
    /\ globalBest' = GlobalBest(active, q, rhs)
    /\ last' = Merge(BestLocal(tree', blockBest'), globalBest')
    /\ dirty' = {}
    /\ initialized' = TRUE
    /\ answered' = TRUE
    /\ UNCHANGED callerVars

\* update_blocks by a caller that names every dirty block (and perhaps others).
\* It may come before any init_tick, when all blocks are dirty.
UpdateBlocks(ids) ==
    /\ dirty \subseteq ids
    /\ LET s == RecomputeBlocks([best |-> blockBest, tree |-> tree], ids)
       IN  /\ blockBest' = s.best
           /\ tree' = s.tree
           /\ globalBest' = GlobalBest(active, q, rhs)
           /\ last' = Merge(BestLocal(s.tree, s.best), globalBest')
    /\ dirty' = dirty \ ids
    /\ initialized' = TRUE
    /\ answered' = TRUE
    /\ UNCHANGED callerVars

Next ==
    \/ MovePoint
    \/ ReplaceRhs
    \/ \E id \in Ids \cup {NoId} : ActivateConstraintId(id)
    \/ \E id \in Ids \cup {NoId} : DeactivateConstraintId(id)
    \/ \E S \in SUBSET Ids : SetActiveIds(S)
    \/ InitTick
    \/ \E ids \in SUBSET Blocks : UpdateBlocks(ids)

Spec == Init /\ [][Next]_vars

-----------------------------------------------------------------------------
\* Properties.

TypeOK ==
    /\ q \in Points
    /\ rhs \in RightHandSides
    /\ dirty \subseteq Blocks
    /\ active \subseteq Ids
    /\ blockBest \in [Blocks -> Violator]
    /\ tree \in [Nodes -> Blocks \cup {NoBlock}]
    /\ globalBest \in Violator
    /\ last \in Violator
    /\ initialized \in BOOLEAN
    /\ answered \in BOOLEAN

\* Once the entries have been computed, every inner node names the winner of its two children
\* under the current block entries: replaying only the paths of the named blocks,
\* one after the other and with later blocks of the batch not yet recomputed,
\* leaves the tournament that rebuild_tree would build (update_blocks).
TreeIsTournament ==
    initialized =>
        \A n \in 1 .. TreeLeafCount - 1 :
            tree[n] = Winner(blockBest, tree[2 * n], tree[2 * n + 1])

\* A caller that names every block it disturbed reads, right after the call, the
\* worst row outside the mask that a scan of all rows would find, ties and NaN
\* rows included, although only the named blocks were recomputed
\* (max_violation_inactive).
AnswerIsWorst ==
    answered => last = WorstInactive(active, q, rhs)

\* A row that evaluates to NaN hides no violated row: the answer's violation is a number
\* at least as large as that of every violated row outside the mask, so that an answer of
\* at most 0 means that every unmasked row is satisfied or NaN (the sentinels at -infinity
\* win over NaN rows: a system of NaN rows only counts as satisfied).
NaNHidesNoViolation ==
    answered => \A id \in Ids \ active :
        LET v == RowViolation(id, q, rhs)
        IN  Greater(v, 0) => last.violation # NaN /\ last.violation >= v

\* The oracle with its caches implements the oracle without: every init_tick and
\* update_blocks is an Answer of OracleSpec, everything else leaves the answer alone.
Promise == INSTANCE OracleSpec WITH answer <- last

ImplementsOracleSpec == Promise!Spec
=============================================================================
