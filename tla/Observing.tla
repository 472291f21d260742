------------------------------ MODULE Observing ------------------------------
(***************************************************************************)
(* Admission and observing: how raw data comes to be on the disk, and what *)
(* is charged for it (src/sdpctl/scheduler.py: can_admit, tick, _observe;  *)
(* store.py: logical_storage; storage.py: quarantine_path).                *)
(*                                                                         *)
(* The controller admits an observation when the bytes charged so far and  *)
(* one more reservation fit under the threshold; a worker task runs the    *)
(* observing container and watches its size; data that must not be kept is *)
(* moved to quarantine, where it stays charged until the operator purges   *)
(* it.  The sizes of quarantine and trash are cached in the controller;    *)
(* the commands, which change both directories, cannot reach its cache.    *)
(* What follows STORED is Processing's: here a verdict is one step of a    *)
(* command, followed by the deletion's own steps.                          *)
(*                                                                         *)
(* Sizes are small numbers: bytes in units of a reservation's fraction.    *)
(***************************************************************************)
EXTENDS Deletion

CONSTANTS
    Controller,
    Threshold,          \* cfg.storage_threshold
    Reservation,        \* cfg.observation_reservation
    MaxObservations,    \* cfg.max_observations
    OverrunActions,     \* what cfg.reservation_overrun_action may be at a start
    MaxBytes,           \* bound of the model: bytes there are of one observation
    DockerFaults,       \* may docker commands fail while a container goes on?
    OsFaults,           \* may a move to quarantine raise where the code goes on?
    CoarseMtimes        \* may two changes of a directory leave it one mtime?

ASSUME ObservingAssumption ==
    /\ Controller \in Procs
    /\ IsFiniteSet(Obs)
    /\ Threshold \in Nat /\ Reservation \in Nat /\ Reservation <= Threshold
    /\ MaxObservations \in Nat /\ MaxObservations <= Cardinality(Obs)
    /\ OverrunActions \subseteq {"abort", "warn"}
    /\ MaxBytes \in Nat \ {0}
    /\ DockerFaults \in BOOLEAN /\ OsFaults \in BOOLEAN /\ CoarseMtimes \in BOOLEAN

VARIABLES
    disk,           \* disk[o]: bytes of the MS of o, at its live or its trash path
    quarantined,    \* quarantined[o]: bytes of o in quarantine
    writers,        \* the observations whose observing container exists
    phase,          \* where the controller is in its recovery or its tick
    todo,           \* the rows recovery's current loop has still to visit
    charged,        \* the sum can_admit read from the database
    aux,            \* the controller's cache of the auxiliary sizes
    overrun,        \* the overrun action of the configuration in force
    task            \* task[o]: where the worker task of o waits

obsVars == <<disk, quarantined, writers, phase, todo, charged, aux, overrun, task>>
vars == <<dbVars, raw, step, target, obsVars>>

Cli == Procs \ {Controller}

Phases ==
    {"down", "kill", "recObserving", "recDeleting",
     "idle", "sweep", "admit", "measure", "decide"}

(* A task that is spawned has not run yet; watching, it runs the container  *)
(* and polls its size; stopping, it aborts an overrun; failing, it is in    *)
(* the handler of an exception.                                             *)
Tasks == {"none", "spawned", "watching", "stopping", "failing"}

TypeOK ==
    /\ StoreTypeOK
    /\ raw \in [Obs -> SUBSET Places]
    /\ step \in [Procs -> FinishSteps \cup DropSteps \cup {"idle"}]
    /\ target \in [Procs -> RunIds \cup {None}]
    /\ \A p \in Procs : step[p] # "idle" => target[p] \in RunIds
    /\ disk \in [Obs -> Nat]
    /\ quarantined \in [Obs -> Nat]
    /\ writers \subseteq Obs
    /\ phase \in Phases
    /\ todo \subseteq Obs
    /\ charged \in Nat
    /\ aux \in [match : BOOLEAN, quarantine : Nat, trash : Nat]
    /\ overrun \in OverrunActions \cup {"unset"}
    /\ task \in [Obs -> Tasks]

(* The cache: match says that neither directory has shown a change since    *)
(* the signature that goes with the sizes was taken.                        *)
NoCache == [match |-> FALSE, quarantine |-> 0, trash |-> 0]

Init ==
    /\ observations = [o \in Obs |-> NoObservation]
    /\ runs = [r \in RunIds |-> NoRun]
    /\ raw = [o \in Obs |-> {}]
    /\ step = [p \in Procs |-> "idle"]
    /\ target = [p \in Procs |-> None]
    /\ disk = [o \in Obs |-> 0]
    /\ quarantined = [o \in Obs |-> 0]
    /\ writers = {}
    /\ phase = "down"
    /\ todo = {}
    /\ charged = 0
    /\ aux = NoCache
    /\ overrun = "unset"
    /\ task = [o \in Obs |-> "none"]

-----------------------------------------------------------------------------
(* What is charged: store.py, logical_storage; storage.py,                  *)
(* auxiliary_charged_storage, as it is when its cache is fresh.             *)

(* The sum of sizes over the observations in S, as the number of bytes they *)
(* have: unlike a fold over S it can be reasoned about without induction.   *)
Bytes(sizes, S) == Cardinality(UNION {{o} \X (1 .. sizes[o]) : o \in S})

LogicalUsed ==
    Bytes([o \in Obs |-> observations[o].size],
          ObservationsIn({"STORED", "DELETING", "INCONSISTENT"}))

LogicalReserved ==
    Bytes([o \in Obs |-> observations[o].reserved],
          ObservationsIn({"PLANNED", "OBSERVING"}))

TrashBytes ==
    Bytes(disk, {o \in Obs : "trash" \in raw[o] /\ "live" \notin raw[o]})

QuarantineBytes == Bytes(quarantined, Obs)

DiskBytes == Bytes(disk, Obs)

-----------------------------------------------------------------------------
(* A command changed an entry of quarantine or trash: the signature of the  *)
(* controller's cache no longer matches, unless the change fell into the    *)
(* same tick of the file system's clock as one before it.  Sizes no one can *)
(* read any more are forgotten.                                             *)
ShowsChange ==
    \/ aux' = IF phase \in {"measure", "decide"} THEN [aux EXCEPT !.match = FALSE]
                                                 ELSE NoCache
    \/ CoarseMtimes /\ UNCHANGED aux

Moves(S) ==
    /\ raw' = [o \in Obs |-> IF o \in S THEN raw[o] \ {"live"} ELSE raw[o]]
    /\ disk' = [o \in Obs |-> IF o \in S THEN 0 ELSE disk[o]]

Invalidates(S) ==
    aux' = IF \E o \in S : "live" \in raw[o] THEN NoCache ELSE aux

(* Mutants: replaces what was quarantined under the same label; trusts the  *)
(* mtimes to show the move.                                                 *)
Quarantine_Replaces(S) ==
    /\ Moves(S)
    /\ quarantined' = [o \in Obs |->
           IF o \in S /\ "live" \in raw[o] THEN disk[o] ELSE quarantined[o]]
    /\ Invalidates(S)

Quarantine_KeepsCache(S) ==
    /\ Moves(S)
    /\ quarantined' = [o \in Obs |->
           IF o \in S THEN quarantined[o] + disk[o] ELSE quarantined[o]]
    /\ ShowsChange

(* quarantine_path of the live MS of the observations in S, where there is  *)
(* one: a target no earlier item has, so what is there stays.  It drops the *)
(* cache of the controller, which alone quarantines.                        *)
Quarantine(S) ==
    /\ Moves(S)
    /\ quarantined' = [o \in Obs |->
           IF o \in S THEN quarantined[o] + disk[o] ELSE quarantined[o]]
    /\ Invalidates(S)

NothingMoved == UNCHANGED <<raw, quarantined, disk, aux>>

(* The callers that suppress an exception of quarantine_path go on as if    *)
(* the MS had been moved.                                                   *)
TriesToQuarantine(o) ==
    Quarantine({o}) \/ (OsFaults /\ "live" \in raw[o] /\ NothingMoved)

FailObserving(o) ==
    TransitionObservation(o, "OBSERVING", "OBSERVE_FAILED", observations[o].size, 0)

-----------------------------------------------------------------------------
(* The observing container. *)

(* It writes to the live path; when docker let it outlive the move of its   *)
(* data, also into files it holds open, which moved with the directory.     *)
WriterWrites(o) ==
    /\ o \in writers
    /\ disk[o] + quarantined[o] < MaxBytes
    /\ \/ /\ disk' = [disk EXCEPT ![o] = @ + 1]
          /\ raw' = [raw EXCEPT ![o] = @ \cup {"live"}]
          /\ UNCHANGED quarantined
       \/ /\ quarantined[o] > 0
          /\ quarantined' = [quarantined EXCEPT ![o] = @ + 1]
          /\ UNCHANGED <<disk, raw>>
    /\ UNCHANGED <<dbVars, step, target, writers, phase, todo, charged, aux, overrun, task>>

WriterExits(o) ==
    /\ o \in writers
    /\ writers' = writers \ {o}
    /\ UNCHANGED <<dbVars, raw, step, target, disk, quarantined, phase, todo,
                   charged, aux, overrun, task>>

-----------------------------------------------------------------------------
(* The worker task: scheduler.py, _observe.  It moves only between ticks.   *)

TaskTurn(o, where) == phase = "idle" /\ task[o] = where

TaskGoesTo(o, where) ==
    /\ task' = [task EXCEPT ![o] = where]
    /\ UNCHANGED <<step, target, phase, todo, charged, overrun>>

(* PLANNED -> OBSERVING, then the container is started.                     *)
ObserveStarts(o) ==
    /\ TaskTurn(o, "spawned")
    /\ TransitionObservation(o, "PLANNED", "OBSERVING",
                             observations[o].size, observations[o].reserved)
    /\ writers' = writers \cup {o}
    /\ TaskGoesTo(o, "watching")
    /\ NothingMoved

(* The database raised before the transition.                               *)
ObserveRaisesBeforeStart(o) ==
    /\ TaskTurn(o, "spawned")
    /\ TaskGoesTo(o, "failing")
    /\ NothingMoved
    /\ UNCHANGED <<dbVars, writers>>

(* The watchdog: more than was reserved.                                    *)
WatchdogAborts(o) ==
    /\ TaskTurn(o, "watching")
    /\ disk[o] > Reservation
    /\ overrun = "abort"
    /\ TaskGoesTo(o, "stopping")
    /\ NothingMoved
    /\ UNCHANGED <<dbVars, writers>>

(* abort_observation removes the container and waits until it is gone; an   *)
(* exception of it is suppressed.                                           *)
StopsWriter(o) == writers' = writers \ {o} \/ (DockerFaults /\ UNCHANGED writers)

(* ... then the partial MS is quarantined and the row fails.                *)
ObserveAborted(o) ==
    /\ TaskTurn(o, "stopping")
    /\ StopsWriter(o)
    /\ Quarantine({o})
    /\ FailObserving(o)
    /\ TaskGoesTo(o, "none")

RunnerReturned(o) == TaskTurn(o, "watching") /\ o \notin writers

(* Mutant: records the size the row had before.                             *)
ObserveCompletes_StaleSize(o) ==
    /\ RunnerReturned(o)
    /\ disk[o] > Reservation => overrun = "warn"
    /\ TransitionObservation(o, "OBSERVING", "STORED", observations[o].size, 0)
    /\ TaskGoesTo(o, "none")
    /\ NothingMoved
    /\ UNCHANGED writers

(* Exit code 0, and no more than was reserved or only a warning.  The MS    *)
(* itself is not looked for: a container that wrote nothing is STORED too.  *)
ObserveCompletes(o) ==
    /\ RunnerReturned(o)
    /\ disk[o] > Reservation => overrun = "warn"
    /\ TransitionObservation(o, "OBSERVING", "STORED", disk[o], 0)
    /\ TaskGoesTo(o, "none")
    /\ NothingMoved
    /\ UNCHANGED writers

(* A non-zero exit code, or an overrun found only after completion.         *)
ObserveFails(o) ==
    /\ RunnerReturned(o) \/ (DockerFaults /\ TaskTurn(o, "watching"))
    /\ Quarantine({o})
    /\ FailObserving(o)
    /\ TaskGoesTo(o, "none")
    /\ UNCHANGED writers

(* Measuring, moving or the last transition raised.                         *)
ObserveRaises(o) ==
    /\ \/ TaskTurn(o, "watching") /\ NothingMoved /\ UNCHANGED writers
       \/ RunnerReturned(o) /\ Quarantine({o}) /\ UNCHANGED writers
       \/ TaskTurn(o, "stopping") /\ StopsWriter(o) /\ (NothingMoved \/ Quarantine({o}))
    /\ TaskGoesTo(o, "failing")
    /\ UNCHANGED dbVars

(* Mutant: fails the row while the container goes on.                       *)
HandlerFails_LeavesWriter(o) ==
    /\ TaskTurn(o, "failing")
    /\ \/ /\ TriesToQuarantine(o)
          /\ FailObserving(o)
       \/ /\ NothingMoved
          /\ TransitionObservation(o, "PLANNED", "OBSERVE_FAILED", observations[o].size, 0)
    /\ TaskGoesTo(o, "none")
    /\ UNCHANGED writers

(* The handler: stop the container, then _fail_observation.  Its quarantine *)
(* suppresses exceptions; when the database raises again, the task is gone  *)
(* and the row stays as it is.                                              *)
HandlerFails(o) ==
    /\ TaskTurn(o, "failing")
    /\ StopsWriter(o)
    /\ \/ /\ TriesToQuarantine(o)
          /\ FailObserving(o) \/ (observations[o].state = "OBSERVING" /\ UNCHANGED dbVars)
       \/ /\ NothingMoved
          /\ \/ TransitionObservation(o, "PLANNED", "OBSERVE_FAILED", observations[o].size, 0)
             \/ UNCHANGED dbVars
    /\ TaskGoesTo(o, "none")

-----------------------------------------------------------------------------
(* The tick: scheduler.py, tick.                                            *)

Advance(from, to) ==
    /\ phase = from
    /\ step[Controller] = "idle"
    /\ phase' = to

(* OBSERVING rows without a task: quarantine what there is, fail the row.   *)
Orphaned == {o \in ObservationsIn({"OBSERVING"}) : task[o] = "none"}

(* Mutant: quarantines the data and leaves the row.                         *)
TickSweep_LeavesRows ==
    /\ Advance("idle", "sweep")
    /\ Quarantine(Orphaned)
    /\ UNCHANGED <<dbVars, step, target, writers, todo, charged, overrun, task>>

TickSweep ==
    /\ Advance("idle", "sweep")
    /\ Quarantine(Orphaned) \/ (OsFaults /\ Orphaned # {} /\ NothingMoved)
    /\ observations' = [o \in Obs |->
           IF o \in Orphaned
             THEN [observations[o] EXCEPT !.state = "OBSERVE_FAILED", !.reserved = 0]
             ELSE observations[o]]
    /\ UNCHANGED <<runs, step, target, writers, todo, charged, overrun, task>>

(* Mutant: an observation in the plan is not one in progress.               *)
MayAdmit_IgnoresPlanned ==
    /\ ObservationsIn({"OBSERVING"}) = {}
    /\ Cardinality({o \in Obs : observations[o].state # "ABSENT"}) < MaxObservations

(* Spawn a task for every PLANNED row that has none.  When nothing is       *)
(* PLANNED or OBSERVING and the campaign has observations left, can_admit   *)
(* adds up the database's part of the charge, ...                           *)
MayAdmit ==
    /\ ObservationsIn({"PLANNED", "OBSERVING"}) = {}
    /\ Cardinality({o \in Obs : observations[o].state # "ABSENT"}) < MaxObservations

(* Mutant: spawns no task for a PLANNED row an earlier task left behind.    *)
TickResume_AdmitsOnly ==
    /\ Advance("sweep", IF MayAdmit THEN "admit" ELSE "idle")
    /\ charged' = IF MayAdmit THEN LogicalUsed + LogicalReserved ELSE 0
    /\ UNCHANGED <<dbVars, raw, step, target, disk, quarantined, writers, todo,
                   aux, overrun, task>>

TickResume ==
    /\ Advance("sweep", IF MayAdmit THEN "admit" ELSE "idle")
    /\ task' = [o \in Obs |->
           IF observations[o].state = "PLANNED" /\ task[o] = "none"
             THEN "spawned" ELSE task[o]]
    /\ charged' = IF MayAdmit THEN LogicalUsed + LogicalReserved ELSE 0
    /\ UNCHANGED <<dbVars, raw, step, target, disk, quarantined, writers, todo, aux, overrun>>

(* ... then compares the mtimes of quarantine and trash with the cache's;   *)
(* when they differ it walks both directories and keeps the sizes with the  *)
(* mtimes read before the walk, ...                                         *)
TickSignature ==
    /\ Advance("admit", IF aux.match THEN "decide" ELSE "measure")
    /\ aux' = [aux EXCEPT !.match = TRUE]
    /\ UNCHANGED <<dbVars, raw, step, target, disk, quarantined, writers, todo,
                   charged, overrun, task>>

TickMeasure ==
    /\ Advance("measure", "decide")
    /\ aux' = [aux EXCEPT !.quarantine = QuarantineBytes, !.trash = TrashBytes]
    /\ UNCHANGED <<dbVars, raw, step, target, disk, quarantined, writers, todo,
                   charged, overrun, task>>

(* Mutants: quarantine is not charged; the reservation is not added.        *)
Fits_NoQuarantine == charged + aux.trash + Reservation <= Threshold

Fits_NoReservation == charged + aux.quarantine + aux.trash <= Threshold

(* ... and adds up.                                                         *)
Fits == charged + aux.quarantine + aux.trash + Reservation <= Threshold

Admit(o) ==
    /\ Fits
    /\ InsertObservation(o, Reservation)
    /\ task' = [task EXCEPT ![o] = "spawned"]

TickAdmit ==
    /\ Advance("decide", "idle")
    /\ \/ \E o \in Obs : Admit(o)
       \/ ~ Fits /\ UNCHANGED <<dbVars, task>>
    /\ charged' = 0
    /\ aux' = IF aux.match THEN aux ELSE NoCache
    /\ UNCHANGED <<raw, step, target, disk, quarantined, writers, todo, overrun>>

-----------------------------------------------------------------------------
(* Crash, start and the part of recovery about interrupted observations:    *)
(* cli.py, run; reconcile.py, startup_reconcile.                            *)

ControllerCrash ==
    /\ phase # "down"
    /\ phase' = "down"
    /\ Leave(Controller)
    /\ todo' = {}
    /\ charged' = 0
    /\ aux' = NoCache
    /\ overrun' = "unset"
    /\ task' = [o \in Obs |-> "none"]
    /\ UNCHANGED <<dbVars, raw, disk, quarantined, writers>>

(* The configuration is read at every start.                                *)
ControllerStart ==
    /\ Advance("down", "kill")
    /\ overrun' \in OverrunActions
    /\ UNCHANGED <<dbVars, raw, step, target, disk, quarantined, writers, todo,
                   charged, aux, task>>

(* The safety gate; a failing `docker ps` names no container and opens it.  *)
KillManaged ==
    /\ Advance("kill", "recObserving")
    /\ writers' = {} \/ (DockerFaults /\ UNCHANGED writers)
    /\ todo' = ObservationsIn({"OBSERVING"})
    /\ UNCHANGED <<dbVars, raw, step, target, disk, quarantined, charged, aux, overrun, task>>

Recovers(o) ==
    /\ Advance("recObserving", "recObserving")
    /\ o \in todo
    /\ todo' = todo \ {o}
    /\ UNCHANGED <<step, target, writers, charged, overrun, task>>

RecoverObserving(o) ==
    /\ Recovers(o)
    /\ Quarantine({o})
    /\ FailObserving(o)

(* The move raised, or the transition after it: recorded, the row stays.    *)
RecoverObservingFails(o) ==
    /\ Recovers(o)
    /\ Quarantine({o}) \/ (OsFaults /\ "live" \in raw[o] /\ NothingMoved)
    /\ UNCHANGED dbVars

RecoverObservingDone ==
    /\ Advance("recObserving", "recDeleting")
    /\ todo = {}
    /\ todo' = ObservationsIn({"DELETING"})
    /\ UNCHANGED <<dbVars, raw, step, target, disk, quarantined, writers, charged,
                   aux, overrun, task>>

(* finish_observation_deletion of one listed row: the steps of Deletion.    *)
RecoverDeletion(o) ==
    /\ Advance("recDeleting", "recDeleting")
    /\ o \in todo
    /\ Become(Controller, "rename", <<o, 1>>)
    /\ todo' = todo \ {o}
    /\ UNCHANGED <<dbVars, raw, disk, quarantined, writers, charged, aux, overrun, task>>

(* STORED rows whose MS is missing become INCONSISTENT, but for those whose *)
(* check or transition raised; recovery is over.                            *)
RecoverStored ==
    /\ Advance("recDeleting", "idle")
    /\ todo = {}
    /\ \E missing \in SUBSET {o \in ObservationsIn({"STORED"}) : "live" \notin raw[o]} :
           observations' = [o \in Obs |->
               IF o \in missing THEN [state |-> "INCONSISTENT", size |-> 0, reserved |-> 0]
                               ELSE observations[o]]
    /\ UNCHANGED <<runs, raw, step, target, disk, quarantined, writers, todo,
                   charged, aux, overrun, task>>

-----------------------------------------------------------------------------
(* The operator's commands, as far as bytes are concerned.                  *)

CommandVerdict(p, o) ==
    /\ p \in Cli
    /\ step[p] = "idle"
    /\ observations[o].state = "STORED"
    /\ "live" \in raw[o]
    /\ BeginDeletion(o)
    /\ Become(p, "rename", <<o, 1>>)
    /\ UNCHANGED <<runs, raw, obsVars>>

CommandResolve(p, o) ==
    /\ p \in Cli
    /\ BeginDrop(p, o)
    /\ UNCHANGED obsVars

(* A step of a deletion; the bytes go with the last copy.                   *)
DeletionStep(p) ==
    /\ FinishStep(p) \/ DropStep(p)
    /\ disk' = [o \in Obs |-> IF raw'[o] = {} THEN 0 ELSE disk[o]]
    /\ IF \E o \in Obs : ("trash" \in raw[o]) # ("trash" \in raw'[o])
         THEN ShowsChange ELSE UNCHANGED aux
    /\ UNCHANGED <<quarantined, writers, phase, todo, charged, overrun, task>>

(* A recursive removal removes files before their directory: bytes go, and  *)
(* neither directory shows a change.                                        *)
DeletionPart(p) ==
    LET o == target[p][1] IN
    /\ step[p] \in {"remove", "dropLive", "dropTrash"}
    /\ (IF step[p] = "dropLive" THEN "live" ELSE "trash") \in raw[o]
    /\ \E left \in 0 .. disk[o] - 1 : disk' = [disk EXCEPT ![o] = left]
    /\ UNCHANGED <<dbVars, raw, step, target, quarantined, writers, phase, todo,
                   charged, aux, overrun, task>>

CommandEnds(p) == Abandon(p) /\ UNCHANGED obsVars

(* cli.py, quarantine purge: the removal as a whole, or the part of it that *)
(* is done when it is interrupted or raises.                                *)
Purge(o) ==
    /\ quarantined[o] > 0
    /\ \/ quarantined' = [quarantined EXCEPT ![o] = 0] /\ ShowsChange
       \/ /\ \E left \in 0 .. quarantined[o] - 1 :
                 quarantined' = [quarantined EXCEPT ![o] = left]
          /\ UNCHANGED aux
    /\ UNCHANGED <<dbVars, raw, step, target, disk, writers, phase, todo, charged, overrun, task>>

-----------------------------------------------------------------------------

Containers == \E o \in Obs : WriterWrites(o) \/ WriterExits(o)

TaskMoves(o) ==
    \/ ObserveStarts(o)
    \/ ObserveRaisesBeforeStart(o)
    \/ WatchdogAborts(o)
    \/ ObserveAborted(o)
    \/ ObserveCompletes(o)
    \/ ObserveFails(o)
    \/ ObserveRaises(o)
    \/ HandlerFails(o)

Ticks == TickSweep \/ TickResume \/ TickSignature \/ TickMeasure \/ TickAdmit

Recovery ==
    \/ ControllerStart
    \/ KillManaged
    \/ \E o \in Obs : RecoverObserving(o) \/ RecoverObservingFails(o) \/ RecoverDeletion(o)
    \/ RecoverObservingDone
    \/ RecoverStored

Commands ==
    \/ \E p \in Procs :
          \/ \E o \in Obs : CommandVerdict(p, o) \/ CommandResolve(p, o)
          \/ DeletionStep(p) \/ DeletionPart(p)
          \/ CommandEnds(p)
    \/ \E o \in Obs : Purge(o)

Next ==
    Containers \/ (\E o \in Obs : TaskMoves(o)) \/ Ticks \/ Recovery \/ ControllerCrash \/ Commands

Spec == Init /\ [][Next]_vars

(* Fairness: as in Processing.  Observing containers end; a task is ready   *)
(* only between ticks, so its steps are strongly fair; the database does    *)
(* not raise at every start of a task.  A deletion of recovery goes on or   *)
(* raises.                                                                  *)
FairSpec ==
    /\ Spec
    /\ WF_vars(TickSweep) /\ WF_vars(TickResume)
    /\ WF_vars(TickSignature) /\ WF_vars(TickMeasure) /\ WF_vars(TickAdmit)
    /\ WF_vars(KillManaged) /\ WF_vars(RecoverObservingDone) /\ WF_vars(RecoverStored)
    /\ WF_vars(DeletionStep(Controller) \/ CommandEnds(Controller))
    /\ \A o \in Obs :
          /\ WF_vars(RecoverDeletion(o))
          /\ WF_vars(RecoverObserving(o) \/ RecoverObservingFails(o))
          /\ WF_vars(WriterExits(o))
          /\ SF_vars(ObserveStarts(o))
          /\ SF_vars(ObserveCompletes(o) \/ ObserveFails(o) \/ ObserveRaises(o))
          /\ SF_vars(ObserveAborted(o))
          /\ SF_vars(HandlerFails(o))

-----------------------------------------------------------------------------
(* Properties. *)

Excess == IF MaxBytes > Reservation THEN MaxBytes - Reservation ELSE 0

WarnedExcess == IF "warn" \in OverrunActions THEN Excess ELSE 0

(* Raw data never fills the disk beyond the threshold, by more than what    *)
(* the one observation in flight exceeds its reservation: whatever is       *)
(* stored, half deleted, in quarantine or being written, across failures,   *)
(* crashes and purges (ADR-002).                                            *)
BytesWithinThreshold ==
    DiskBytes + QuarantineBytes <= Threshold + Excess

(* ADR-002's logical invariant, also when containers go on and moves fail:  *)
(* what is stored and what is reserved fit while anything is reserved.      *)
(* `warn` relaxes it by what one observation exceeds its reservation, never *)
(* by two overruns on top of each other: the next one is admitted only      *)
(* when all fits again.  With `abort` alone it is never relaxed.            *)
LogicalWithinThreshold ==
    /\ ObservationsIn({"PLANNED", "OBSERVING"}) # {} =>
           LogicalUsed + LogicalReserved <= Threshold
    /\ LogicalUsed + LogicalReserved <= Threshold + WarnedExcess

(* What can_admit decides on covers what is on the disk, although it is put *)
(* together from a query, a cache and two walks while commands delete and   *)
(* purge: an entry the cache may miss is still charged by its row, and the  *)
(* cache can only be behind removals (storage.py, auxiliary_charged_storage *)
(* and its callers of invalidate_auxiliary_cache).                          *)
ChargeCoversDisk ==
    phase = "decide" =>
        DiskBytes + QuarantineBytes <= charged + aux.quarantine + aux.trash

(* An MS at its live path is always charged: by the reservation while it is *)
(* observed, by its recorded size -- which is its size until its removal    *)
(* begins -- from then on.                                                  *)
LiveIsCharged ==
    \A o \in Obs : "live" \in raw[o] =>
        \/ /\ observations[o].state = "OBSERVING"
           /\ observations[o].reserved = Reservation
        \/ observations[o].state = "STORED" /\ observations[o].size = disk[o]
        \/ observations[o].state = "DELETING" /\ observations[o].size >= disk[o]

(* One observation at a time: no two rows are PLANNED or OBSERVING, and no  *)
(* two observing containers exist, even right after a crash.                *)
OneObservationAtATime ==
    /\ Cardinality(ObservationsIn({"PLANNED", "OBSERVING"})) <= 1
    /\ Cardinality(writers) <= 1

(* A container writes only for a row that is OBSERVING: data that is STORED *)
(* or in quarantine does not change any more.                               *)
WritersAreObserved ==
    \A o \in writers : observations[o].state = "OBSERVING"

(* No failure destroys raw data: bytes disappear from an observation only   *)
(* through a deletion that was decided on or by the operator's purge, even  *)
(* when the same observation is quarantined twice (storage.py,              *)
(* quarantine_path).                                                        *)
NothingDestroyed ==
    [][\A o \in Obs :
          disk'[o] + quarantined'[o] < disk[o] + quarantined[o] =>
              \/ observations[o].state \in {"DELETING", "INCONSISTENT"}
              \/ disk'[o] = disk[o] /\ observations' = observations]_vars

(* The controller neither hangs on an observation nor forgets it: as long   *)
(* as it stays up, a PLANNED or OBSERVING row comes to an end.              *)
StaysUp == <>[](phase # "down")

ObservingEnds ==
    StaysUp => \A o \in Obs :
        (observations[o].state \in {"PLANNED", "OBSERVING"}) ~>
            (observations[o].state \notin {"PLANNED", "OBSERVING"})

(* Room for one more, as the cache has it: after a removal that was          *)
(* interrupted inside an entry the cache may charge more than there is, and *)
(* block admission until a change shows.                                    *)
Room ==
    LogicalUsed + Reservation
      + (IF aux.match THEN aux.quarantine + aux.trash ELSE QuarantineBytes + TrashBytes)
    <= Threshold

(* While there is room the campaign goes on to its last observation: a      *)
(* failed observation or an abandoned reservation does not block admission. *)

CampaignCompletes ==
    (StaysUp /\ <>[]Room) =>
        <>(Cardinality({o \in Obs : observations[o].state # "ABSENT"}) = MaxObservations)

-----------------------------------------------------------------------------
(* What a document of the repository says and the code does not do.         *)

(* README.md: interrupted raw visibilities are quarantined.                 *)
FailedLeavesNothingLive ==
    \A o \in ObservationsIn({"OBSERVE_FAILED"}) : "live" \notin raw[o]
=============================================================================
