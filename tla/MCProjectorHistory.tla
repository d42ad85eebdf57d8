------------------------- MODULE MCProjectorHistory -------------------------
(***************************************************************************)
(* ProjectorHistory over the instance of MCProjector.                      *)
(***************************************************************************)
EXTENDS MCProjector, ProjectorHistory
=============================================================================
