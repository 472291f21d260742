----------------------------- MODULE MCPipeline -----------------------------
(* The instance of Pipeline for TLC: the controller and one command.         *)
EXTENDS PipelineRefinements, TLC

CONSTANTS controller, c1, o1, o2, none

BothProcs == {controller, c1}

(* Identities are interchangeable: an observation takes any that is free.    *)
ObsSymmetry == Permutations(Obs)
=============================================================================
