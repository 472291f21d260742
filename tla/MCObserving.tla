----------------------------- MODULE MCObserving -----------------------------
(* Instances of Observing for TLC: the controller and one command.           *)
EXTENDS Observing, TLC

CONSTANTS controller, c1, o1, o2, o3, none

BothProcs == {controller, c1}

(* Identities are interchangeable: an observation takes any that is free.    *)
ObsSymmetry == Permutations(Obs)
=============================================================================
