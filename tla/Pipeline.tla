------------------------------ MODULE Pipeline ------------------------------
(***************************************************************************)
(* The whole controller: Processing and Observing on one database, one     *)
(* disk and one event loop.                                                *)
(*                                                                         *)
(* Each of the two replaces the other by a few actions of its environment: *)
(* Processing lets observations appear STORED, Observing lets commands     *)
(* give verdicts at any time.  Here every action is an action of one of    *)
(* them, or one of each taken together, in the order scheduler.py's tick   *)
(* and reconcile.py's startup_reconcile prescribe; a worker task of either *)
(* kind runs only when no tick does.  PipelineRefinements says that what   *)
(* each module assumes of the other is what the other does.                *)
(***************************************************************************)
EXTENDS Naturals, FiniteSets

CONSTANTS
    Obs, MaxRuns, Procs, None, Controller, DockerFaults,                \* of both
    MaxProcessingAttempts, MaxParallel,                                 \* Processing
    Threshold, Reservation, MaxObservations, OverrunActions, MaxBytes,  \* Observing
    OsFaults, CoarseMtimes

(* What the two modules assume of their constants. *)
ASSUME PipelineAssumption ==
    /\ MaxRuns \in Nat \ {0}
    /\ None \notin Obs \X (1 .. MaxRuns)
    /\ Controller \in Procs
    /\ MaxProcessingAttempts \in Nat \ {0}
    /\ MaxParallel \in Nat \ {0}
    /\ IsFiniteSet(Obs)
    /\ Threshold \in Nat /\ Reservation \in Nat /\ Reservation <= Threshold
    /\ MaxObservations \in Nat /\ MaxObservations <= Cardinality(Obs)
    /\ OverrunActions \subseteq {"abort", "warn"}
    /\ MaxBytes \in Nat \ {0}
    /\ DockerFaults \in BOOLEAN /\ OsFaults \in BOOLEAN /\ CoarseMtimes \in BOOLEAN

VARIABLES
    observations, runs, raw, step, target,                              \* of both
    lost, products, phase, todoRuns, todoObs, worker, containers,       \* Processing
    disk, quarantined, writers, ophase, todo, charged, aux, overrun, task

sharedVars == <<observations, runs, raw, step, target>>
processingVars == <<lost, products, phase, todoRuns, todoObs, worker, containers>>
observingVars == <<disk, quarantined, writers, ophase, todo, charged, aux, overrun, task>>
vars == <<sharedVars, processingVars, observingVars>>

(* No observation is left by an older version, and nothing outside the      *)
(* program removes raw data.                                                *)
P == INSTANCE Processing WITH LegacyObs <- {}, Losable <- {}
O == INSTANCE Observing WITH phase <- ophase

Init == P!Init /\ O!Init

-----------------------------------------------------------------------------
(* Between two ticks. *)

Between == phase = "idle" /\ ophase = "idle"

(* A worker task of an observation.  What it stores without an MS is        *)
(* nothing a verdict took away.                                             *)
StoredWithoutMS(o) ==
    /\ observations[o].state = "OBSERVING" /\ observations'[o].state = "STORED"
    /\ raw[o] = {}

ObservingTask(o) ==
    /\ Between
    /\ O!TaskMoves(o)
    /\ lost' = IF StoredWithoutMS(o) THEN lost \cup {o} ELSE lost
    /\ UNCHANGED <<products, phase, todoRuns, todoObs, worker, containers>>

ProcessingTask(r) ==
    /\ Between
    /\ P!WorkerMoves(r)
    /\ UNCHANGED observingVars

Containers ==
    \/ /\ \E r \in P!RunIds : P!ContainerWrites(r) \/ P!ContainerExits(r)
       /\ UNCHANGED observingVars
    \/ O!Containers /\ UNCHANGED processingVars

-----------------------------------------------------------------------------
(* The tick, from its sweep to its last task: scheduler.py, tick.           *)

TickSweepObservations ==
    /\ Between
    /\ O!TickSweep
    /\ UNCHANGED processingVars

TickSweepRuns ==
    /\ ophase = "sweep"
    /\ P!TickSweep
    /\ UNCHANGED observingVars

TickRetry ==
    /\ \/ P!TickMarkExhausted
       \/ P!TickListRetryable
       \/ \E r \in P!RunIds : P!TickCleanup(r) \/ P!TickCleanupFails(r)
       \/ P!TickRequeue
    /\ UNCHANGED observingVars

TickResume ==
    /\ phase = "retry" /\ todoRuns = {}
    /\ O!TickResume
    /\ UNCHANGED processingVars

TickAdmission ==
    /\ O!TickSignature \/ O!TickMeasure \/ O!TickAdmit
    /\ UNCHANGED processingVars

TickRepair ==
    /\ ophase = "idle"
    /\ \/ P!TickListWithoutRuns
       \/ \E o \in Obs : P!TickCreateRun(o)
       \/ P!TickSpawn
    /\ UNCHANGED observingVars

-----------------------------------------------------------------------------
(* Crash, start and recovery: cli.py, run; reconcile.py, startup_reconcile. *)

ControllerCrash == P!ControllerCrash /\ O!ControllerCrash

ControllerStart == P!ControllerStart /\ O!ControllerStart

(* Mutants: the gate looks for containers of one kind only.                 *)
KillManaged_Processing ==
    /\ P!KillManaged
    /\ ophase' = "recObserving"
    /\ todo' = P!ObservationsIn({"OBSERVING"})
    /\ UNCHANGED <<disk, quarantined, writers, charged, aux, overrun, task>>

KillManaged_Observing ==
    /\ O!KillManaged
    /\ phase' = "recRuns"
    /\ todoRuns' = P!RunsIn({"RUNNING"})
    /\ UNCHANGED <<lost, products, todoObs, worker, containers>>

(* One `docker ps` names the containers of both kinds.                      *)
KillManaged ==
    /\ P!KillManaged
    /\ O!KillManaged
    /\ (containers' = {} /\ writers' = {}) \/ UNCHANGED <<containers, writers>>

RecoverObserving ==
    /\ \E o \in Obs : O!RecoverObserving(o) \/ O!RecoverObservingFails(o)
    /\ UNCHANGED processingVars

RecoverRuns ==
    /\ ophase = "recObserving" /\ todo = {}
    /\ \/ \E r \in P!RunIds : P!RecoverRun(r) \/ P!RecoverRunFails(r)
       \/ P!RecoverRunsDone
    /\ UNCHANGED observingVars

(* A database of this version holds no STORED row with an ACCEPTED run (both *)
(* change in one transaction), so resuming accepted runs changes no row.    *)
RecoverAccepted == P!RecoverAccepted /\ O!RecoverObservingDone

RecoverDeletion == \E o \in Obs : P!RecoverDeletion(o) /\ O!RecoverDeletion(o)

RecoverDeletionsDone == P!RecoverDeletionsDone /\ UNCHANGED observingVars

RecoverStored == P!RecoverStored /\ O!RecoverStored

-----------------------------------------------------------------------------
(* The operator's commands: qa.py, cli.py, storage.py.                      *)

Verdict(p) ==
    /\ \/ \E r \in P!RunIds :
              P!BeginAccept(p, r) \/ P!BeginReprocess(p, r) \/ P!BeginDiscard(p, r)
       \/ P!CommitAccept(p) \/ P!CommitReprocess(p) \/ P!CommitDiscard(p)
    /\ UNCHANGED observingVars

Resolve(p) == \E o \in Obs : P!BeginResolve(p, o) /\ O!CommandResolve(p, o)

DeletionStep(p) == (P!FinishDeletion(p) \/ P!ForceDrop(p)) /\ O!DeletionStep(p)

DeletionPart(p) == O!DeletionPart(p) /\ UNCHANGED processingVars

CommandEnds(p) == P!CommandEnds(p) /\ O!CommandEnds(p)

Purge == (\E o \in Obs : O!Purge(o)) /\ UNCHANGED processingVars

-----------------------------------------------------------------------------

Tick ==
    \/ TickSweepObservations
    \/ TickSweepRuns
    \/ TickRetry
    \/ TickResume
    \/ TickAdmission
    \/ TickRepair

Recovery ==
    \/ KillManaged
    \/ RecoverObserving
    \/ RecoverRuns
    \/ RecoverAccepted
    \/ RecoverDeletion
    \/ RecoverDeletionsDone
    \/ RecoverStored

Command(p) ==
    Verdict(p) \/ Resolve(p) \/ DeletionStep(p) \/ DeletionPart(p) \/ CommandEnds(p)

Next ==
    \/ \E o \in Obs : ObservingTask(o)
    \/ \E r \in P!RunIds : ProcessingTask(r)
    \/ Containers
    \/ Tick
    \/ ControllerCrash
    \/ ControllerStart
    \/ Recovery
    \/ \E p \in Procs : Command(p)
    \/ Purge

Spec == Init /\ [][Next]_vars

(* Fairness.  The controller's own code is sequential and awaits nothing    *)
(* but sleeps and bounded waits: up, it goes on.  Tasks and containers as   *)
(* in Processing and Observing.                                             *)
FairSpec ==
    /\ Spec
    /\ WF_vars(\/ Tick \/ Recovery
               \/ DeletionStep(Controller) \/ CommandEnds(Controller))
    /\ \A o \in Obs :
          /\ SF_vars(ObservingTask(o) /\ task[o] = "spawned" /\ task'[o] = "watching")
          /\ SF_vars(ObservingTask(o) /\ task[o] # "spawned")
          /\ WF_vars(O!WriterExits(o) /\ UNCHANGED processingVars)
    /\ \A r \in P!RunIds :
          /\ SF_vars(ProcessingTask(r) /\ worker'[r] = "running")
          /\ SF_vars(ProcessingTask(r) /\ worker[r] = "running")
          /\ WF_vars(P!ContainerExits(r) /\ UNCHANGED observingVars)

-----------------------------------------------------------------------------
(* Properties. *)

(* A processing container never reads an MS that an observing container     *)
(* still writes: not after a crash that left both, nor through a repair     *)
(* that takes an observation for stored too early (store.py,                *)
(* list_stored_observations_without_runs; reconcile.py).                    *)
InputIsComplete == \A r \in containers : r[1] \notin writers

(* From the first byte on, raw data leaves the disk only by the operator:   *)
(* after a run of it was accepted or discarded, by a drop of a row that was *)
(* found without its MS, or by a purge of what is in quarantine (README.md; *)
(* qa.py, storage.py, cli.py).                                              *)
BytesGoOnlyByOperator ==
    [][\A o \in Obs :
          disk'[o] + quarantined'[o] < disk[o] + quarantined[o] =>
              \/ P!HasVerdict(o)
              \/ observations[o].state = "INCONSISTENT"
              \/ quarantined'[o] < quarantined[o] /\ disk'[o] = disk[o]]_vars

(* Whatever the controller admits comes to an end the operator sees, as     *)
(* long as the controller stays up: the observation fails, or it is stored  *)
(* and a run of it awaits a verdict or is reported as exhausted             *)
(* (scheduler.py, tick).                                                    *)
StaysUp == <>[](phase # "down")

AdmittedReachesOperator ==
    StaysUp => \A o \in Obs :
        (observations[o].state = "PLANNED") ~>
            \/ P!Actionable(o)
            \/ observations[o].state \in
                   {"OBSERVE_FAILED", "DELETING", "DELETED", "INCONSISTENT"}
=============================================================================
