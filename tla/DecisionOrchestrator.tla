------------------------- MODULE DecisionOrchestrator -------------------------
(***************************************************************************)
(* One DecisionOrchestrator: calls of decide and arbitrations run side by  *)
(* side.  Its lock is around single steps of either, never around a call.  *)
(***************************************************************************)
EXTENDS Orchestrator, Arbitration

OrchestratorInit == Init /\ ArbitrationInit

OrchestratorNext ==
    \/ Next /\ UNCHANGED arbitrationVars
    \/ ArbitrationNext /\ UNCHANGED vars

OrchestratorSpec == OrchestratorInit /\ [][OrchestratorNext]_<<vars, arbitrationVars>>
=============================================================================
