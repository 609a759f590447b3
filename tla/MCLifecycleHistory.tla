-------------------------- MODULE MCLifecycleHistory --------------------------
(***************************************************************************)
(* The programs of MCSimulationRuntime with the history of their hooks.    *)
(***************************************************************************)
EXTENDS MCSimulationRuntime, LifecycleHistory

==============================================================================
