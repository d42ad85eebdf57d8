--------------------------- MODULE MCAllocCounter ---------------------------
(***************************************************************************)
(* One latency tick and two feas ticks; requests of zero and of two bytes, *)
(* at most four requests and frees: one can be made around project and     *)
(* there is still one for each of the three ticks.                         *)
(***************************************************************************)
EXTENDS AllocCounter

MCSizes == {0, 2}
=============================================================================
