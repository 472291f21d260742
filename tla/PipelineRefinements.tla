------------------------- MODULE PipelineRefinements -------------------------
(***************************************************************************)
(* The composed controller implements each of the two modules it is made   *)
(* of: what Processing leaves to its environment -- how an observation     *)
(* comes to be STORED -- and what Observing leaves to the commands -- when *)
(* a verdict may come -- is what the other one really does.  So what the   *)
(* runs and proofs of either module show holds of the whole.               *)
(***************************************************************************)
EXTENDS Pipeline

(* Processing does not see an observation before it is STORED, nor how      *)
(* large it is.                                                             *)
Unseen(o) ==
    observations[o].state \in {"ABSENT", "PLANNED", "OBSERVING", "OBSERVE_FAILED"}

SeenRow(o) ==
    [state    |-> IF Unseen(o) THEN "ABSENT" ELSE observations[o].state,
     size     |-> IF Unseen(o) \/ observations[o].size = 0 THEN 0 ELSE 1,
     reserved |-> 0]

AsProcessing == INSTANCE Processing WITH
    LegacyObs    <- {},
    Losable      <- Obs,
    observations <- [o \in Obs |-> SeenRow(o)],
    raw          <- [o \in Obs |-> IF Unseen(o) THEN {} ELSE raw[o]]

(* Observing does not see the runs; of a command it sees the verdict, once  *)
(* it is given, and the deletion that follows.                              *)
Deleting(p) == step[p] \in P!FinishSteps \cup P!DropSteps

AsObserving == INSTANCE Observing WITH
    phase  <- ophase,
    runs   <- [r \in P!RunIds |-> P!NoRun],
    step   <- [p \in Procs |-> IF Deleting(p) THEN step[p] ELSE "idle"],
    target <- [p \in Procs |-> IF Deleting(p) THEN <<target[p][1], 1>> ELSE None]

(* Every step of the whole is a step of Processing, or changes nothing it   *)
(* sees: admission, observing and quarantine never touch a row, a directory *)
(* or a container that processing relies on, in any order of ticks, crashes *)
(* and commands (scheduler.py, reconcile.py).                               *)
ImplementsProcessing == AsProcessing!Spec

(* Every step of the whole is a step of Observing, or changes nothing it    *)
(* sees: retries, repairs, verdicts and processing containers never change  *)
(* what is charged, measured or quarantined (scheduler.py, reconcile.py).   *)
ImplementsObserving == AsObserving!Spec
=============================================================================
