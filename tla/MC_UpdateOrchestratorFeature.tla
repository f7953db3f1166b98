------------------- MODULE MC_UpdateOrchestratorFeature -------------------
(* Model values for UpdateOrchestratorFeature: the two features that call  *)
(* the orchestrator's Apply.                                               *)
EXTENDS UpdateOrchestratorFeature

MCCallers == {"uoFeature", "suFeature"}
=============================================================================
