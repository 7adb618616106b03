----------------------------- MODULE Definitions -------------------------------
(*****************************************************************************)
(* What a rollout is made of, side by side: pipelines, topology files, their *)
(* combination and the search for cycles are read in the same process and    *)
(* share no state.                                                           *)
(*****************************************************************************)
EXTENDS PipelineDefinition, TopologyValidation, CombinedTopology, CycleDetection

DefinitionsSpec == DefSpec /\ TopoSpec /\ Spec /\ CycleSpec

\* Each of them is where its code can be, and holds what it can hold.
TypesOK == DefTypeOK /\ TopoTypeOK /\ TypeOK /\ CycleTypeOK
=============================================================================
