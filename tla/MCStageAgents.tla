--------------------------- MODULE MCStageAgents ---------------------------
(* Instances of StageAgents for TLC. *)
EXTENDS StageAgents

AllKinds == {"single", "brand", "website", "campaign"}
=============================================================================
