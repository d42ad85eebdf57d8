------------------------------ MODULE Violators ------------------------------
(***************************************************************************)
(* Violators of the constraint system and the order in which they are      *)
(* preferred: constraint ids, prefer_lhs, the per-block and global scans   *)
(* of the oracle, and the brute-force scan that serves as the reference.   *)
(*                                                                         *)
(* A constraint system has NumBlocks blocks of MLocal rows each, then      *)
(* MGlobal rows that couple the blocks.  A point q gives every block its   *)
(* part q[b]; a right-hand side gives every constraint id its bound.  The  *)
(* floating-point evaluation of one row is the pair of constant operators  *)
(* LocalViolation and GlobalViolation: a local row reads its own block's   *)
(* part only.                                                              *)
(***************************************************************************)
EXTENDS Integers

CONSTANTS
    NumBlocks,               \* layout.B
    MLocal,                  \* m_local_per_block
    MGlobal,                 \* m_global
    NegInf,                  \* -infinity: below every violation of a row
    NaN,                     \* the violation of a row that reads a NaN
    LocalViolation(_, _, _), \* (id, part of the block, bound)
    GlobalViolation(_, _, _) \* (id, point, bound)

ASSUME SystemAssumption ==
    /\ NumBlocks \in Nat \ {0}
    /\ MLocal \in Nat \ {0}
    /\ MGlobal \in Nat
    /\ NegInf \in Int
    /\ NaN \notin Int

Blocks    == 0 .. NumBlocks - 1
LocalIds  == 0 .. NumBlocks * MLocal - 1
GlobalIds == NumBlocks * MLocal .. NumBlocks * MLocal + MGlobal - 1
Ids       == LocalIds \cup GlobalIds

\* numeric_limits<int>::max() in a sentinel: larger than every id.
NoId == NumBlocks * MLocal + MGlobal

\* The block of a local constraint id.
BlockOf(id) == id \div MLocal

RowsOf(b) == {id \in LocalIds : BlockOf(id) = b}

\* The blocks whose part of the active mask holds an id of S: a global id has none.
MaskBlocks(S) == {BlockOf(id) : id \in S \cap LocalIds}

Scope(id) == IF id \in LocalIds THEN "LOCAL" ELSE "GLOBAL"

Violator == [scope : {"LOCAL", "GLOBAL"}, id : Ids \cup {NoId}, violation : Int \cup {NaN}]

NegativeInfinityLocal  == [scope |-> "LOCAL",  id |-> NoId, violation |-> NegInf]
NegativeInfinityGlobal == [scope |-> "GLOBAL", id |-> NoId, violation |-> NegInf]

-----------------------------------------------------------------------------

\* `>' of doubles: false as soon as a side is NaN.
Greater(x, y) == x # NaN /\ y # NaN /\ x > y

\* The tie-break of equal (or equally NaN) violations: local rows first, then ids.
TiePrefer(l, r) ==
    IF l.scope # r.scope THEN l.scope = "LOCAL" ELSE l.id < r.id

\* Bug: NaN is taken for the largest violation.
PreferNaN(l, r) ==
    \/ l.violation = NaN /\ r.violation # NaN
    \/ /\ l.violation = NaN <=> r.violation = NaN
       /\ \/ Greater(l.violation, r.violation)
          \/ ~Greater(r.violation, l.violation) /\ TiePrefer(l, r)

\* prefer_lhs: a number beats NaN, then the larger violation, then the tie-break.
Prefer(l, r) ==
    \/ l.violation # NaN /\ r.violation = NaN
    \/ /\ l.violation = NaN <=> r.violation = NaN
       /\ \/ Greater(l.violation, r.violation)
          \/ ~Greater(r.violation, l.violation) /\ TiePrefer(l, r)

\* What a loop `if (prefer_lhs(cand, best)) best = cand' leaves in best.
Best(S) == CHOOSE v \in S : \A w \in S \ {v} : Prefer(v, w)

-----------------------------------------------------------------------------

RowViolation(id, q, rhs) ==
    IF id \in LocalIds
    THEN LocalViolation(id, q[BlockOf(id)], rhs[id])
    ELSE GlobalViolation(id, q, rhs[id])

Candidate(id, q, rhs) ==
    [scope |-> Scope(id), id |-> id, violation |-> RowViolation(id, q, rhs)]

Candidates(S, q, rhs) == {Candidate(id, q, rhs) : id \in S}

\* recompute_block: the block's worst row outside the active mask.
BlockBest(b, active, q, rhs) ==
    Best(Candidates(RowsOf(b) \ active, q, rhs) \cup {NegativeInfinityLocal})

\* recompute_global: the worst global row outside the active mask.
GlobalBest(active, q, rhs) ==
    Best(Candidates(GlobalIds \ active, q, rhs) \cup {NegativeInfinityGlobal})

\* Bug: an equal violation goes to the global side.
MergeWithoutTies(local, global) ==
    IF Greater(local.violation, global.violation) THEN local ELSE global

\* merge_local_global: a local winner is returned only if it is preferred.
Merge(local, global) == IF Prefer(local, global) THEN local ELSE global

\* The answer the oracle is meant to give: the worst row outside the mask.
WorstInactive(active, q, rhs) ==
    Best(Candidates(Ids \ active, q, rhs) \cup {NegativeInfinityLocal, NegativeInfinityGlobal})

\* BruteForceScan::max_violation: the worst of all rows, masked or not.
ScanWorst(q, rhs) ==
    Best(Candidates(Ids, q, rhs) \cup {NegativeInfinityGlobal})

CertifiedFeasible(q, rhs) == ScanWorst(q, rhs).violation <= 0
=============================================================================
