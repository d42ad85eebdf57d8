-------------------------- MODULE ProjectorHistory --------------------------
(***************************************************************************)
(* The projector with a history of the active lists and points its running *)
(* call has been through, to ask whether an anti-cycling rule is at work:  *)
(* the options carry `bland_rule = true', which no code reads.             *)
(***************************************************************************)
EXTENDS Projector

VARIABLE seen \* <<ids, qCurr>> at the earlier heads of the running call's loop

HistoryInit == Init /\ seen = {}

HistoryNext ==
    /\ Next
    /\ seen' = IF pc = "loop" /\ pc' = "loop" THEN seen \cup {<<ids, qCurr>>} ELSE {}

HistorySpec == HistoryInit /\ [][HistoryNext]_<<vars, seen>>

\* A call never comes back to an active list and a point it has already had, as the
\* anti-cycling rule that configs/default_block256.yaml and projector.hpp switch on
\* would guarantee; from the same list and point the loop repeats itself exactly.
NeverCycles == pc = "loop" => <<ids, qCurr>> \notin seen
=============================================================================
