---------------------------- MODULE StorageProofs ----------------------------
(***************************************************************************)
(* Theorems about the bytes of Observing, for every set of observations,   *)
(* every number of commands and every bound: what is on the disk is        *)
(* charged, and what is charged fits.                                      *)
(***************************************************************************)
EXTENDS ObservingProofs

-----------------------------------------------------------------------------
(* Where docker does what it says, a container has a task, but for the one  *)
(* a crash left, and what it has written was never moved.                   *)

WriterIsWatched(o) ==
    o \in writers =>
        /\ observations[o].state = "OBSERVING" /\ quarantined[o] = 0
        /\ phase \notin {"down", "kill"} => task[o] \in {"watching", "stopping", "failing"}

WatchedInv == \A o \in Obs : WriterIsWatched(o)

LEMMA WatchedKept ==
    ASSUME NEW o, WriterIsWatched(o), observations'[o].state = observations[o].state,
           quarantined'[o] = quarantined[o], task'[o] = task[o],
           o \in writers' => o \in writers,
           phase' \notin {"down", "kill"} => phase \notin {"down", "kill"}
    PROVE  WriterIsWatched(o)'
  BY DEF WriterIsWatched

LEMMA ContainersWatched ==
    ASSUME TypeOK, WatchedInv, Containers
    PROVE  WatchedInv'
<1>1. PICK u \in Obs : WriterWrites(u) \/ WriterExits(u)
  BY DEF Containers
<1>2. UNCHANGED <<observations, phase, task>> /\ writers' \subseteq writers
  BY <1>1 DEF WriterWrites, WriterExits, dbVars
<1>3. WriterIsWatched(u)
  BY DEF WatchedInv
<1>4. UNCHANGED quarantined
  BY <1>1, <1>3 DEF WriterWrites, WriterExits, WriterIsWatched
<1> QED
  BY <1>2, <1>4, WatchedKept DEF WatchedInv

LEMMA TasksWatched ==
    ASSUME TypeOK, ObsInv, WatchedInv, ~ DockerFaults, NEW o \in Obs, TaskMoves(o)
    PROVE  WatchedInv'
<1>1. ASSUME NEW u \in Obs \ {o} PROVE WriterIsWatched(u)'
  <2>1. /\ observations'[u] = observations[u] /\ quarantined'[u] = quarantined[u]
        /\ task'[u] = task[u] /\ phase' = phase
        /\ u \in writers' => u \in writers
    BY TasksFrame
  <2> QED
    BY <2>1, WatchedKept DEF WatchedInv
<1>2. WriterIsWatched(o) /\ RowMatchesDisk(o) /\ TaskMatchesRow(o)
  BY DEF WatchedInv, ObsInv
<1>3. phase = "idle"
  BY TasksFrame
<1>4. \A where : TaskGoesTo(o, where) => task'[o] = where
  BY DEF TaskGoesTo, TypeOK
<1>5. WriterIsWatched(o)'
  <2>1. CASE ObserveStarts(o)
    <3>1. observations'[o].state = "OBSERVING" /\ observations[o].state = "PLANNED"
      BY <2>1 DEF ObserveStarts, TransitionObservation, TypeOK, StoreTypeOK
    <3>2. quarantined'[o] = 0
      BY <1>2, <2>1, <3>1 DEF ObserveStarts, NothingMoved, RowMatchesDisk
    <3> QED
      BY <1>4, <2>1, <3>1, <3>2 DEF ObserveStarts, WriterIsWatched
  <2>2. CASE ObserveRaisesBeforeStart(o)
    BY <1>2, <1>3, <2>2 DEF ObserveRaisesBeforeStart, TaskTurn, WriterIsWatched
  <2>3. CASE WatchdogAborts(o)
    BY <1>2, <1>4, <2>3 DEF WatchdogAborts, NothingMoved, dbVars, WriterIsWatched
  <2>4. CASE ObserveAborted(o) \/ ObserveCompletes(o) \/ ObserveFails(o) \/ HandlerFails(o)
    <3>1. o \notin writers'
      BY <2>4 DEF ObserveAborted, ObserveCompletes, ObserveFails, HandlerFails, StopsWriter,
               RunnerReturned
    <3> QED
      BY <3>1 DEF WriterIsWatched
  <2>5. CASE ObserveRaises(o)
    <3>1. \/ o \notin writers'
          \/ NothingMoved /\ UNCHANGED <<observations, writers>> /\ task'[o] = "failing"
      BY <1>4, <2>5 DEF ObserveRaises, StopsWriter, RunnerReturned, dbVars
    <3> QED
      BY <1>2, <3>1 DEF WriterIsWatched, NothingMoved
  <2> QED
    BY <2>1, <2>2, <2>3, <2>4, <2>5 DEF TaskMoves
<1> QED
  BY <1>1, <1>5 DEF WatchedInv

LEMMA TicksWatched ==
    ASSUME TypeOK, WatchedInv, Ticks
    PROVE  WatchedInv'
<1>1. /\ UNCHANGED writers
      /\ phase \notin {"down", "kill"} /\ phase' \notin {"down", "kill"}
  BY DEF Ticks, TickSweep, TickResume, TickSignature, TickMeasure, TickAdmit, Advance
<1>2. ASSUME NEW o \in Obs, o \in writers PROVE WriterIsWatched(o)'
  <2>1. /\ observations[o].state = "OBSERVING" /\ quarantined[o] = 0
        /\ task[o] \in {"watching", "stopping", "failing"}
    BY <1>1, <1>2 DEF WatchedInv, WriterIsWatched
  <2>2. CASE TickSweep
    <3>1. o \notin Orphaned
      BY <2>1 DEF Orphaned
    <3>2. observations'[o] = observations[o] /\ quarantined'[o] = quarantined[o]
      BY <2>2, <3>1 DEF TickSweep, Quarantine, NothingMoved
    <3>3. task'[o] = task[o]
      BY <2>2 DEF TickSweep
    <3> QED
      BY <1>1, <2>1, <3>2, <3>3 DEF WriterIsWatched
  <2>3. CASE TickResume \/ TickSignature \/ TickMeasure
    <3>1. UNCHANGED <<observations, quarantined>> /\ task'[o] = task[o]
      BY <2>1, <2>3 DEF TickResume, TickSignature, TickMeasure, dbVars
    <3> QED
      BY <1>1, <2>1, <3>1 DEF WriterIsWatched
  <2>4. CASE TickAdmit
    <3>1. observations'[o] = observations[o] /\ task'[o] = task[o]
      BY <2>1, <2>4 DEF TickAdmit, Admit, InsertObservation, dbVars, TypeOK, StoreTypeOK
    <3> QED
      BY <1>1, <2>1, <2>4, <3>1 DEF TickAdmit, WriterIsWatched
  <2> QED
    BY <2>2, <2>3, <2>4 DEF Ticks
<1>3. ASSUME NEW o \in Obs, o \notin writers PROVE WriterIsWatched(o)'
  BY <1>1, <1>3 DEF WriterIsWatched
<1> QED
  BY <1>2, <1>3 DEF WatchedInv

(* Once the safety gate has opened no container is left.                    *)
LEMMA RecoveryWatched ==
    ASSUME TypeOK, ObsInv, WatchedInv, ~ DockerFaults, Recovery \/ ControllerCrash
    PROVE  WatchedInv'
<1>1. CASE ControllerCrash
  BY <1>1 DEF ControllerCrash, dbVars, WatchedInv, WriterIsWatched
<1>2. CASE ControllerStart
  BY <1>2 DEF ControllerStart, Advance, dbVars, WatchedInv, WriterIsWatched
<1>3. CASE KillManaged
  BY <1>3 DEF KillManaged, WatchedInv, WriterIsWatched
<1>4. CASE \/ \E o \in Obs : RecoverObserving(o) \/ RecoverObservingFails(o) \/ RecoverDeletion(o)
           \/ RecoverObservingDone \/ RecoverStored
  <2>1. phase \in Recovering \ {"down", "kill"} /\ UNCHANGED writers
    BY <1>4 DEF RecoverObserving, RecoverObservingFails, RecoverDeletion, RecoverObservingDone,
             RecoverStored, Recovers, Advance, Recovering
  <2>2. \A o \in Obs : o \notin writers
    BY <2>1 DEF ObsInv, TaskMatchesRow, WatchedInv, WriterIsWatched
  <2> QED
    BY <2>1, <2>2 DEF WatchedInv, WriterIsWatched
<1> QED
  BY <1>1, <1>2, <1>3, <1>4 DEF Recovery

LEMMA CommandsWatched ==
    ASSUME TypeOK, ObsInv, WatchedInv, Commands
    PROVE  WatchedInv'
<1>1. UNCHANGED <<writers, phase, task>>
  BY DEF Commands, CommandVerdict, CommandResolve, CommandEnds, DeletionStep, DeletionPart,
         Purge, obsVars
<1>2. ASSUME NEW o \in Obs, o \in writers PROVE WriterIsWatched(o)'
  <2>1. observations[o].state = "OBSERVING" /\ quarantined[o] = 0
    BY <1>2 DEF WatchedInv, WriterIsWatched
  <2>2. observations'[o] = observations[o]
    <3>1. ASSUME NEW p \in Procs, NEW u \in Obs, CommandVerdict(p, u)
          PROVE  observations'[o] = observations[o]
      BY <2>1, <3>1 DEF CommandVerdict, BeginDeletion, TypeOK, StoreTypeOK
    <3>2. ASSUME NEW p \in Procs, DeletionStep(p) PROVE observations'[o] = observations[o]
      <4>1. PICK u \in Obs : u = target[p][1]
        BY <3>2 DEF DeletionStep, FinishStep, FinishRename, FinishRemove, FinishMark, DropStep,
                 DropLive, DropTrash, DropMark, TypeOK, RunIds
      <4>2. observations[u].state \in Removing
        BY <3>2, <4>1, DeletionShape DEF RemovalStep
      <4> QED
        BY <2>1, <3>2, <4>1, <4>2, DeletionShape DEF Removing
    <3>3. CASE UNCHANGED dbVars
      BY <3>3 DEF dbVars
    <3> QED
      BY <3>1, <3>2, <3>3 DEF Commands, CommandResolve, BeginDrop, CommandEnds, Abandon,
                              DeletionPart, Purge
  <2>3. quarantined'[o] = quarantined[o]
    <3>1. ASSUME NEW u \in Obs, Purge(u) PROVE quarantined'[o] = quarantined[o]
      BY <2>1, <3>1 DEF Purge, TypeOK
    <3> QED
      BY <3>1 DEF Commands, CommandVerdict, CommandResolve, CommandEnds, DeletionStep,
                  DeletionPart, obsVars
  <2> QED
    BY <1>1, <2>2, <2>3, WatchedKept DEF WatchedInv
<1>3. ASSUME NEW o \in Obs, o \notin writers PROVE WriterIsWatched(o)'
  BY <1>1, <1>3 DEF WriterIsWatched
<1> QED
  BY <1>2, <1>3 DEF WatchedInv

LEMMA WatchedInvariant == ~ DockerFaults => (Spec => []WatchedInv)
<1> SUFFICES ASSUME ~ DockerFaults PROVE Spec => []WatchedInv
  OBVIOUS
<1>1. Init => WatchedInv
  BY DEF Init, WatchedInv, WriterIsWatched
<1>2. TypeOK /\ ObsInv /\ WatchedInv /\ [Next]_vars => WatchedInv'
  <2> SUFFICES ASSUME TypeOK, ObsInv, WatchedInv, [Next]_vars PROVE WatchedInv'
    OBVIOUS
  <2>1. CASE UNCHANGED vars
    BY <2>1 DEF vars, dbVars, obsVars, WatchedInv, WriterIsWatched
  <2>2. CASE Next
    BY <2>2, ContainersWatched, TasksWatched, TicksWatched, RecoveryWatched, CommandsWatched
       DEF Next
  <2> QED
    BY <2>1, <2>2
<1> QED
  BY <1>1, <1>2, TypeCorrect, ObsInvariant, PTL DEF Spec

(* A container writes only for a row that is OBSERVING: data that is STORED *)
(* or in quarantine does not change any more (scheduler.py, _observe;       *)
(* reconcile.py).  Only where docker does what it is told: a container that *)
(* goes on after its removal failed writes for a row that is OBSERVE_FAILED.*)
THEOREM WritersAreObservedHolds == ~ DockerFaults => (Spec => []WritersAreObserved)
<1> SUFFICES ASSUME ~ DockerFaults PROVE Spec => []WritersAreObserved
  OBVIOUS
<1>1. TypeOK /\ WatchedInv => WritersAreObserved
  BY DEF TypeOK, WatchedInv, WriterIsWatched, WritersAreObserved
<1> QED
  BY <1>1, WatchedInvariant, TypeCorrect, PTL

LEMMA AtMostOne ==
    ASSUME NEW S, \A x \in S, y \in S : x = y
    PROVE  Cardinality(S) <= 1
<1>1. CASE S = {}
  BY <1>1, FS_EmptySet
<1>2. CASE S # {}
  <2>1. PICK x : S = {x}
    BY <1>2
  <2> QED
    BY <2>1, FS_Singleton
<1> QED
  BY <1>1, <1>2

(* One observation at a time, even right after a crash (scheduler.py,       *)
(* can_admit and tick; ADR-002).                                            *)
THEOREM OneObservationAtATimeHolds == ~ DockerFaults => (Spec => []OneObservationAtATime)
<1> SUFFICES ASSUME ~ DockerFaults PROVE Spec => []OneObservationAtATime
  OBVIOUS
<1>1. TypeOK /\ ObsInv /\ WatchedInv => OneObservationAtATime
  <2> SUFFICES ASSUME TypeOK, ObsInv, WatchedInv PROVE OneObservationAtATime
    OBVIOUS
  <2>1. \A x \in ObservationsIn({"PLANNED", "OBSERVING"}),
           y \in ObservationsIn({"PLANNED", "OBSERVING"}) : x = y
    BY DEF ObsInv, OneActive, ObservationsIn
  <2>2. \A x \in writers, y \in writers : x = y
    BY DEF TypeOK, WatchedInv, WriterIsWatched, ObsInv, OneActive
  <2> QED
    BY <2>1, <2>2, AtMostOne DEF OneObservationAtATime
<1> QED
  BY <1>1, WatchedInvariant, ObsInvariant, TypeCorrect, PTL

-----------------------------------------------------------------------------
(* Where no move is refused either, a row that failed has nothing left.     *)

FailedIsMoved(o) == observations[o].state = "OBSERVE_FAILED" => raw[o] = {}

MovedInv == \A o \in Obs : FailedIsMoved(o)

LEMMA MovedKept ==
    ASSUME NEW o, FailedIsMoved(o),
           observations'[o].state = "OBSERVE_FAILED" =>
               observations[o].state = "OBSERVE_FAILED" /\ raw'[o] \subseteq raw[o]
    PROVE  FailedIsMoved(o)'
  BY DEF FailedIsMoved

(* A row fails as its data is moved, or has no data.                        *)
LEMMA FailsMoved ==
    ASSUME NEW o \in Obs, NEW S, o \in S, TypeOK, RowMatchesDisk(o),
           \/ Quarantine(S) /\ observations[o].state = "OBSERVING"
           \/ NothingMoved /\ observations[o].state = "PLANNED"
    PROVE  raw'[o] = {}
<1>1. raw[o] \in SUBSET {"live", "trash"}
  BY DEF TypeOK, Places
<1>2. CASE Quarantine(S) /\ observations[o].state = "OBSERVING"
  <2>1. raw'[o] = raw[o] \ {"live"} /\ "trash" \notin raw[o]
    BY <1>2 DEF Quarantine, Moves, RowMatchesDisk
  <2> QED
    BY <1>1, <2>1
<1>3. CASE NothingMoved /\ observations[o].state = "PLANNED"
  BY <1>3 DEF NothingMoved, RowMatchesDisk
<1> QED
  BY <1>2, <1>3

LEMMA MovedStep ==
    ASSUME TypeOK, ObsInv, WatchedInv, MovedInv, ~ DockerFaults, ~ OsFaults, Next,
           NEW o \in Obs
    PROVE  FailedIsMoved(o)'
<1>1. FailedIsMoved(o) /\ RowMatchesDisk(o)
  BY DEF MovedInv, ObsInv
<1>2. CASE Containers
  <2>1. PICK u \in Obs : WriterWrites(u) \/ WriterExits(u)
    BY <1>2 DEF Containers
  <2>2. raw'[o] = raw[o] \/ u = o
    BY <2>1 DEF WriterWrites, WriterExits, dbVars, TypeOK
  <2>3. u \in writers /\ UNCHANGED observations
    BY <2>1 DEF WriterWrites, WriterExits, dbVars
  <2>4. observations[u].state = "OBSERVING"
    BY <2>3 DEF WatchedInv, WriterIsWatched
  <2> QED
    BY <1>1, <2>2, <2>3, <2>4, MovedKept DEF FailedIsMoved
<1>3. ASSUME NEW u \in Obs, TaskMoves(u) PROVE FailedIsMoved(o)'
  <2>1. CASE u # o
    BY <1>1, <1>3, <2>1, TasksFrame, MovedKept
  <2>2. CASE u = o
    <3>1. observations[o].state \in {"PLANNED", "OBSERVING"}
      BY <1>1, <1>3, <2>2, TaskRow DEF ObsInv
    <3>2. CASE ObserveStarts(o) \/ ObserveCompletes(o)
      BY <3>2 DEF ObserveStarts, ObserveCompletes, TransitionObservation, TypeOK, StoreTypeOK,
               FailedIsMoved
    <3>3. CASE UNCHANGED dbVars
      BY <3>1, <3>3 DEF dbVars, FailedIsMoved
    <3>4. CASE \/ Quarantine({o}) /\ FailObserving(o)
               \/ /\ NothingMoved
                  /\ TransitionObservation(o, "PLANNED", "OBSERVE_FAILED",
                                           observations[o].size, 0)
      <4>1. \/ Quarantine({o}) /\ observations[o].state = "OBSERVING"
            \/ NothingMoved /\ observations[o].state = "PLANNED"
        BY <3>4 DEF FailObserving, TransitionObservation
      <4> QED
        BY <1>1, <4>1, FailsMoved DEF FailedIsMoved
    <3> QED
      BY <1>3, <2>2, <3>2, <3>3, <3>4
         DEF TaskMoves, ObserveRaisesBeforeStart, WatchdogAborts, ObserveAborted, ObserveFails,
             ObserveRaises, HandlerFails, TriesToQuarantine
  <2> QED
    BY <2>1, <2>2
<1>4. CASE TickSweep
  <2>1. Quarantine(Orphaned)
    BY <1>4 DEF TickSweep
  <2>2. CASE o \in Orphaned
    BY <1>1, <2>1, <2>2, FailsMoved DEF Orphaned, ObservationsIn, FailedIsMoved
  <2>3. CASE o \notin Orphaned
    <3>1. observations'[o] = observations[o] /\ raw'[o] = raw[o]
      BY <1>4, <2>1, <2>3 DEF TickSweep, Quarantine, Moves
    <3> QED
      BY <1>1, <3>1, MovedKept
  <2> QED
    BY <2>2, <2>3
<1>5. ASSUME NEW u \in Obs, RecoverObserving(u) PROVE FailedIsMoved(o)'
  <2>1. Quarantine({u}) /\ observations[u].state = "OBSERVING"
    BY <1>5 DEF RecoverObserving, FailObserving, TransitionObservation
  <2>2. CASE u = o
    BY <1>1, <2>1, <2>2, FailsMoved DEF FailedIsMoved
  <2>3. CASE u # o
    <3>1. observations'[o] = observations[o] /\ raw'[o] = raw[o]
      BY <1>5, <2>1, <2>3 DEF RecoverObserving, FailObserving, TransitionObservation, Quarantine,
               Moves, TypeOK, StoreTypeOK
    <3> QED
      BY <1>1, <3>1, MovedKept
  <2> QED
    BY <2>2, <2>3
<1>6. ASSUME NEW u \in Obs, RecoverObservingFails(u) PROVE FailedIsMoved(o)'
  <2>1. Quarantine({u}) /\ UNCHANGED observations
    BY <1>6 DEF RecoverObservingFails, dbVars
  <2>2. raw'[o] \subseteq raw[o]
    BY <2>1 DEF Quarantine, Moves
  <2> QED
    BY <1>1, <2>1, <2>2, MovedKept
<1>7. CASE \/ TickResume \/ TickSignature \/ TickMeasure \/ TickAdmit \/ ControllerCrash
           \/ ControllerStart \/ KillManaged \/ RecoverObservingDone \/ RecoverStored
           \/ \E u \in Obs : RecoverDeletion(u)
           \/ \E p \in Procs :
                 \/ CommandEnds(p) \/ DeletionPart(p)
                 \/ \E u \in Obs : CommandVerdict(p, u) \/ CommandResolve(p, u)
           \/ \E u \in Obs : Purge(u)
  <2>1. UNCHANGED raw
    BY <1>7 DEF TickResume, TickSignature, TickMeasure, TickAdmit, ControllerCrash,
             ControllerStart, KillManaged, RecoverObservingDone, RecoverStored,
             RecoverDeletion, CommandEnds, Abandon, CommandVerdict, CommandResolve, BeginDrop,
             DeletionPart, Purge
  <2>2. observations'[o].state = "OBSERVE_FAILED" => observations[o].state = "OBSERVE_FAILED"
    <3>1. CASE RecoverStored
      BY <3>1 DEF RecoverStored
    <3>2. ASSUME NEW u \in Obs, Admit(u)
          PROVE  observations'[o].state = "OBSERVE_FAILED" =>
                     observations[o].state = "OBSERVE_FAILED"
      BY <3>2 DEF Admit, InsertObservation, TypeOK, StoreTypeOK
    <3>3. ASSUME NEW p \in Procs, NEW u \in Obs, CommandVerdict(p, u)
          PROVE  observations'[o].state = "OBSERVE_FAILED" =>
                     observations[o].state = "OBSERVE_FAILED"
      <4>1. observations[u] \in ObservationRows
        BY DEF TypeOK, StoreTypeOK
      <4>2. observations'[u].state = "DELETING" /\ (u # o => observations'[o] = observations[o])
        BY <3>3, <4>1 DEF CommandVerdict, BeginDeletion, TypeOK, StoreTypeOK, ObservationRows
      <4> QED
        BY <4>2
    <3>4. CASE UNCHANGED dbVars
      BY <3>4 DEF dbVars
    <3> QED
      BY <1>7, <3>1, <3>2, <3>3, <3>4
         DEF TickResume, TickSignature, TickMeasure, TickAdmit, ControllerCrash,
             ControllerStart, KillManaged, RecoverObservingDone,
             RecoverDeletion, CommandEnds, Abandon, CommandResolve, BeginDrop,
             DeletionPart, Purge
  <2> QED
    BY <1>1, <2>1, <2>2, MovedKept
<1>8. ASSUME NEW p \in Procs, DeletionStep(p) PROVE FailedIsMoved(o)'
  <2>1. PICK u \in Obs : u = target[p][1]
    BY <1>8 DEF DeletionStep, FinishStep, FinishRename, FinishRemove, FinishMark, DropStep,
             DropLive, DropTrash, DropMark, TypeOK, RunIds
  <2>2. CASE u # o
    BY <1>1, <1>8, <2>1, <2>2, DeletionShape, MovedKept
  <2>3. CASE u = o
    <3>1. RemovalStep(p, o)
      BY <1>8, <2>1, <2>3, DeletionShape
    <3> QED
      BY <3>1 DEF RemovalStep, Removing, FailedIsMoved
  <2> QED
    BY <2>2, <2>3
<1> QED
  BY <1>2, <1>3, <1>4, <1>5, <1>6, <1>7, <1>8 DEF Next, Ticks, Recovery, Commands

LEMMA MovedInvariant == ~ DockerFaults /\ ~ OsFaults => (Spec => []MovedInv)
<1> SUFFICES ASSUME ~ DockerFaults, ~ OsFaults PROVE Spec => []MovedInv
  OBVIOUS
<1>1. Init => MovedInv
  BY DEF Init, MovedInv, FailedIsMoved
<1>2. TypeOK /\ ObsInv /\ WatchedInv /\ MovedInv /\ [Next]_vars => MovedInv'
  <2> SUFFICES ASSUME TypeOK, ObsInv, WatchedInv, MovedInv, [Next]_vars PROVE MovedInv'
    OBVIOUS
  <2>1. CASE UNCHANGED vars
    BY <2>1 DEF vars, dbVars, obsVars, MovedInv, FailedIsMoved
  <2>2. CASE Next
    BY <2>2, MovedStep DEF MovedInv
  <2> QED
    BY <2>1, <2>2
<1> QED
  BY <1>1, <1>2, TypeCorrect, ObsInvariant, WatchedInvariant, PTL DEF Spec

(* An MS at its live path is always charged: by the reservation while it is *)
(* observed, by its recorded size from then on (store.py, logical_storage). *)
(* Where a move to quarantine raises and the code goes on, the MS stays at  *)
(* its live path under a row that charges nothing: FailedLeavesNothingLive. *)
THEOREM LiveIsChargedHolds == ~ DockerFaults /\ ~ OsFaults => (Spec => []LiveIsCharged)
<1> SUFFICES ASSUME ~ DockerFaults, ~ OsFaults PROVE Spec => []LiveIsCharged
  OBVIOUS
<1>1. TypeOK /\ ObsInv /\ MovedInv => LiveIsCharged
  <2> SUFFICES ASSUME TypeOK, ObsInv, MovedInv, NEW o \in Obs, "live" \in raw[o]
               PROVE  \/ /\ observations[o].state = "OBSERVING"
                         /\ observations[o].reserved = Reservation
                      \/ observations[o].state = "STORED" /\ observations[o].size = disk[o]
                      \/ observations[o].state = "DELETING" /\ observations[o].size >= disk[o]
    BY DEF LiveIsCharged
  <2>1. RowMatchesDisk(o) /\ FailedIsMoved(o)
    BY DEF ObsInv, MovedInv
  <2>2. /\ observations[o].state \in ObservationStates \cup {"ABSENT"}
        /\ disk[o] \in Nat /\ observations[o].size \in Nat
    BY DEF TypeOK, StoreTypeOK, ObservationRows
  <2> QED
    BY <2>1, <2>2 DEF RowMatchesDisk, FailedIsMoved, ObservationStates
<1> QED
  BY <1>1, MovedInvariant, ObsInvariant, TypeCorrect, PTL

-----------------------------------------------------------------------------
(* Sums of bytes: of two parts, and of two sizes of each observation.       *)

LEMMA BytesUnion ==
    ASSUME NEW f \in [Obs -> Nat], NEW S \in SUBSET Obs, NEW T \in SUBSET Obs, S \cap T = {}
    PROVE  Bytes(f, S \cup T) = Bytes(f, S) + Bytes(f, T)
<1> DEFINE A == Units(f, S)
           B == Units(f, T)
<1>1. Units(f, S \cup T) = A \cup B
  BY DEF Units
<1>2. A \cap B = {}
  BY DEF Units
<1>3. IsFiniteSet(A) /\ IsFiniteSet(B) /\ S \cup T \in SUBSET Obs
  BY UnitsFinite
<1>4. Cardinality(A \cup B) = Cardinality(A) + Cardinality(B)
  <2> HIDE DEF A, B
  <2>1. Cardinality(A \cup B) = Cardinality(A) + Cardinality(B) - Cardinality(A \cap B)
    BY <1>3, FS_Union
  <2>2. Cardinality(A) \in Nat /\ Cardinality(B) \in Nat
    BY <1>3, FS_CardinalityType
  <2>3. Cardinality(A \cap B) = 0
    BY <1>2, FS_EmptySet
  <2> QED
    BY <2>1, <2>2, <2>3
<1> QED
  BY <1>1, <1>3, <1>4, BytesAre

(* The units of g, counted on from those of f, are the rest of the units of *)
(* the sum.                                                                 *)
LEMMA BytesSum ==
    ASSUME NEW f \in [Obs -> Nat], NEW g \in [Obs -> Nat], NEW h \in [Obs -> Nat],
           \A o \in Obs : h[o] = f[o] + g[o]
    PROVE  Bytes(h, Obs) = Bytes(f, Obs) + Bytes(g, Obs)
<1> DEFINE A == Units(f, Obs)
           B == Units(g, Obs)
           C == Units(h, Obs) \ A
           shift == [u \in B |-> <<u[1], u[2] + f[u[1]]>>]
<1>1. ASSUME NEW sizes \in [Obs -> Nat], NEW u
      PROVE  u \in Units(sizes, Obs) <=>
                 \E o \in Obs, k \in Nat : u = <<o, k>> /\ 1 <= k /\ k <= sizes[o]
  <2>1. u \in Units(sizes, Obs) <=> \E o \in Obs : u \in {o} \X (1 .. sizes[o])
    BY DEF Units
  <2>2. ASSUME NEW o \in Obs
        PROVE  u \in {o} \X (1 .. sizes[o]) <=>
                   \E k \in Nat : u = <<o, k>> /\ 1 <= k /\ k <= sizes[o]
    <3>1. sizes[o] \in Nat
      OBVIOUS
    <3> QED
      BY <3>1
  <2> QED
    BY <2>1, <2>2
<1>2. ASSUME NEW u \in B PROVE shift[u] \in C
  <2>1. PICK o \in Obs, k \in Nat : u = <<o, k>> /\ 1 <= k /\ k <= g[o]
    BY <1>1
  <2>2. shift[u] = <<o, k + f[o]>> /\ f[o] \in Nat /\ g[o] \in Nat
    BY <2>1
  <2>3. k + f[o] \in Nat /\ 1 <= k + f[o] /\ k + f[o] <= h[o] /\ ~ (k + f[o] <= f[o])
    BY <2>1, <2>2
  <2>4. shift[u] \in Units(h, Obs)
    BY <1>1, <2>2, <2>3
  <2>5. shift[u] \notin A
    BY <1>1, <2>2, <2>3
  <2> QED
    BY <2>4, <2>5
<1>3. ASSUME NEW u \in B, NEW v \in B, shift[u] = shift[v] PROVE u = v
  <2>1. PICK o \in Obs, k \in Nat : u = <<o, k>>
    BY <1>1
  <2>2. PICK p \in Obs, l \in Nat : v = <<p, l>>
    BY <1>1
  <2>3. shift[u] = <<o, k + f[o]>> /\ shift[v] = <<p, l + f[p]>>
    BY <2>1, <2>2
  <2>4. o = p /\ k + f[o] = l + f[o] /\ f[o] \in Nat
    BY <1>3, <2>3
  <2> QED
    BY <2>1, <2>2, <2>4
<1>4. ASSUME NEW w \in C PROVE \E u \in B : shift[u] = w
  <2>1. PICK o \in Obs, k \in Nat : w = <<o, k>> /\ 1 <= k /\ k <= h[o]
    BY <1>1
  <2>2. f[o] \in Nat /\ g[o] \in Nat /\ ~ (k <= f[o])
    BY <1>1, <2>1
  <2>3. PICK j \in Nat : j + f[o] = k /\ 1 <= j /\ j <= g[o]
    <3>1. k - f[o] \in Nat /\ (k - f[o]) + f[o] = k /\ 1 <= k - f[o] /\ k - f[o] <= g[o]
      BY <2>1, <2>2
    <3> QED
      BY <3>1
  <2>4. <<o, j>> \in B
    BY <1>1, <2>3
  <2>5. shift[<<o, j>>] = w
    BY <2>1, <2>3, <2>4
  <2> QED
    BY <2>4, <2>5
<1>5. ExistsBijection(B, C)
  <2>1. shift \in [B -> C]
    <3> HIDE DEF B, C
    <3> QED
      BY <1>2
  <2> HIDE DEF B, C, shift
  <2>2. shift \in Bijection(B, C)
    BY <1>3, <1>4, <2>1 DEF Bijection, Injection, Surjection, IsInjective
  <2> QED
    BY <2>2 DEF ExistsBijection
<1>6. Units(h, Obs) = A \cup C /\ A \cap C = {}
  <2>1. ASSUME NEW u \in A PROVE u \in Units(h, Obs)
    <3>1. PICK o \in Obs, k \in Nat : u = <<o, k>> /\ 1 <= k /\ k <= f[o]
      BY <1>1
    <3>2. k <= h[o]
      <4>1. f[o] \in Nat /\ g[o] \in Nat
        OBVIOUS
      <4> QED
        BY <3>1, <4>1
    <3> QED
      BY <1>1, <3>1, <3>2
  <2> HIDE DEF A
  <2> QED
    BY <2>1
<1>7. IsFiniteSet(A) /\ IsFiniteSet(B)
  BY UnitsFinite
<1>8. IsFiniteSet(C) /\ Cardinality(C) = Cardinality(B)
  <2> HIDE DEF B, C
  <2> QED
    BY <1>5, <1>7, FS_Bijection
<1>9. Cardinality(A \cup C) = Cardinality(A) + Cardinality(C)
  <2> HIDE DEF A, C
  <2>1. Cardinality(A \cup C) = Cardinality(A) + Cardinality(C) - Cardinality(A \cap C)
    BY <1>7, <1>8, FS_Union
  <2>2. Cardinality(A) \in Nat /\ Cardinality(C) \in Nat
    BY <1>7, <1>8, FS_CardinalityType
  <2>3. Cardinality(A \cap C) = 0
    BY <1>6, FS_EmptySet
  <2> QED
    BY <2>1, <2>2, <2>3
<1> HIDE DEF C, shift
<1> QED
  BY <1>6, <1>8, <1>9, BytesAre

-----------------------------------------------------------------------------
(* What is charged for a row, and what an observation has.                  *)

Charge == [o \in Obs |->
    IF observations[o].state \in {"STORED", "DELETING", "INCONSISTENT"}
      THEN observations[o].size
      ELSE IF observations[o].state \in {"PLANNED", "OBSERVING"}
             THEN observations[o].reserved ELSE 0]

Held == [o \in Obs |-> disk[o] + quarantined[o]]

LEMMA ChargeType ==
    /\ TypeOK => Charge \in [Obs -> Nat]
    /\ TypeOK' => Charge' \in [Obs -> Nat]
  BY DEF TypeOK, StoreTypeOK, ObservationRows, Charge

LEMMA HeldType ==
    /\ TypeOK => Held \in [Obs -> Nat]
    /\ TypeOK' => Held' \in [Obs -> Nat]
  BY DEF TypeOK, Held

LEMMA LogicalSum ==
    ASSUME TypeOK
    PROVE  LogicalUsed + LogicalReserved = Bytes(Charge, Obs)
<1> DEFINE used == ObservationsIn({"STORED", "DELETING", "INCONSISTENT"})
           active == ObservationsIn({"PLANNED", "OBSERVING"})
           size == [o \in Obs |-> observations[o].size]
           reserved == [o \in Obs |-> observations[o].reserved]
<1>1. size \in [Obs -> Nat] /\ reserved \in [Obs -> Nat] /\ Charge \in [Obs -> Nat]
  BY ChargeType DEF TypeOK, StoreTypeOK, ObservationRows
<1>2. used \in SUBSET Obs /\ active \in SUBSET Obs /\ Obs \ used \in SUBSET Obs
  BY DEF ObservationsIn
<1>3. /\ \A o \in used : Charge[o] = size[o]
      /\ \A o \in active : Charge[o] = reserved[o]
      /\ \A o \in Obs \ used : Charge[o] = 0 \/ o \in active
      /\ \A o \in active : o \in Obs \ used
  BY DEF Charge, ObservationsIn
<1> HIDE DEF used, active, size, reserved
<1>4. Bytes(Charge, Obs) = Bytes(Charge, used) + Bytes(Charge, Obs \ used)
  <2>1. used \cup (Obs \ used) = Obs /\ used \cap (Obs \ used) = {}
    BY <1>2
  <2> QED
    BY <1>1, <1>2, <2>1, BytesUnion
<1>5. Bytes(Charge, used) = Bytes(size, used)
  BY <1>1, <1>2, <1>3, BytesSame
<1>6. Bytes(Charge, Obs \ used) = Bytes(reserved, active)
  <2>1. \A o \in Obs \ used : Charge[o] = 0 \/ (o \in active /\ Charge[o] <= reserved[o])
    BY <1>1, <1>2, <1>3
  <2>2. \A o \in active : reserved[o] = 0 \/ (o \in Obs \ used /\ reserved[o] <= Charge[o])
    BY <1>1, <1>2, <1>3
  <2>3. /\ Bytes(Charge, Obs \ used) <= Bytes(reserved, active)
        /\ Bytes(reserved, active) <= Bytes(Charge, Obs \ used)
    BY <1>1, <1>2, <2>1, <2>2, BytesMonotonic
  <2> QED
    BY <1>1, <1>2, <2>3, BytesAre
<1> QED
  BY <1>4, <1>5, <1>6 DEF LogicalUsed, LogicalReserved, used, active, size, reserved

LEMMA HeldSum ==
    ASSUME TypeOK
    PROVE  DiskBytes + QuarantineBytes = Bytes(Held, Obs)
<1>1. /\ disk \in [Obs -> Nat] /\ quarantined \in [Obs -> Nat] /\ Held \in [Obs -> Nat]
      /\ \A o \in Obs : Held[o] = disk[o] + quarantined[o]
  BY HeldType DEF TypeOK, Held
<1>2. Bytes(Held, Obs) = Bytes(disk, Obs) + Bytes(quarantined, Obs)
  BY <1>1, BytesSum
<1> QED
  BY <1>2 DEF DiskBytes, QuarantineBytes

-----------------------------------------------------------------------------
(* How a row moves, whatever the action, and what that does to its charge.  *)

Admitted(o) ==
    /\ phase = "decide" /\ phase' = "idle" /\ Fits
    /\ observations[o].state = "ABSENT"
    /\ observations'[o] = [state |-> "PLANNED", size |-> 0, reserved |-> Reservation]
    /\ \A u \in Obs \ {o} : observations'[u] = observations[u]
    /\ UNCHANGED <<disk, quarantined>>

Ends(o) ==
    \/ /\ observations[o].state = "PLANNED" /\ observations'[o].state = "OBSERVING"
       /\ observations'[o].reserved = observations[o].reserved
    \/ /\ observations[o].state \in {"PLANNED", "OBSERVING"}
       /\ observations'[o].state = "OBSERVE_FAILED"
    \/ /\ observations[o].state = "OBSERVING" /\ observations'[o].state = "STORED"
       /\ observations'[o].size = disk[o] /\ phase = "idle"
       /\ disk[o] > Reservation => overrun = "warn"

Removed(o) ==
    \/ /\ observations[o].state = "STORED" /\ observations'[o].state = "DELETING"
       /\ observations'[o].size = observations[o].size
    \/ /\ observations[o].state = "STORED" /\ observations'[o].state = "INCONSISTENT"
       /\ observations'[o].size = 0
    \/ observations[o].state \in Removing /\ observations'[o].state = "DELETED"

RowMoves(o) ==
    observations'[o] = observations[o] \/ Admitted(o) \/ Ends(o) \/ Removed(o)

LEMMA TaskRowMoves ==
    ASSUME TypeOK, ObsInv, NEW o \in Obs, TaskMoves(o)
    PROVE  observations'[o] = observations[o] \/ Ends(o)
<1>1. ASSUME NEW from, NEW to, NEW size, NEW reserved,
             TransitionObservation(o, from, to, size, reserved)
      PROVE  /\ observations[o].state = from
             /\ observations'[o] = [state |-> to, size |-> size, reserved |-> reserved]
  BY <1>1 DEF TransitionObservation, TypeOK, StoreTypeOK
<1>2. CASE ObserveStarts(o)
  <2>1. TransitionObservation(o, "PLANNED", "OBSERVING", observations[o].size,
                              observations[o].reserved)
    BY <1>2 DEF ObserveStarts
  <2>2. /\ observations[o].state = "PLANNED" /\ observations'[o].state = "OBSERVING"
        /\ observations'[o].reserved = observations[o].reserved
    BY <2>1 DEF TransitionObservation, TypeOK, StoreTypeOK
  <2> QED
    BY <2>2 DEF Ends
<1>3. CASE ObserveCompletes(o)
  <2>1. phase = "idle" /\ (disk[o] > Reservation => overrun = "warn")
    BY <1>3 DEF ObserveCompletes, RunnerReturned, TaskTurn
  <2>2. TransitionObservation(o, "OBSERVING", "STORED", disk[o], 0)
    BY <1>3 DEF ObserveCompletes
  <2>3. /\ observations[o].state = "OBSERVING"
        /\ observations'[o] = [state |-> "STORED", size |-> disk[o], reserved |-> 0]
    BY <1>1, <2>2
  <2> QED
    BY <2>1, <2>3 DEF Ends
<1>4. CASE FailObserving(o)
  <2>1. observations[o].state = "OBSERVING" /\ observations'[o].state = "OBSERVE_FAILED"
    BY <1>4 DEF FailObserving, TransitionObservation, TypeOK, StoreTypeOK
  <2> QED
    BY <2>1 DEF Ends
<1>5. CASE TransitionObservation(o, "PLANNED", "OBSERVE_FAILED", observations[o].size, 0)
  <2>1. observations[o].state = "PLANNED" /\ observations'[o].state = "OBSERVE_FAILED"
    BY <1>5 DEF TransitionObservation, TypeOK, StoreTypeOK
  <2> QED
    BY <2>1 DEF Ends
<1>6. CASE UNCHANGED dbVars
  BY <1>6 DEF dbVars
<1>7. CASE HandlerFails(o)
  <2>1. \/ FailObserving(o)
        \/ TransitionObservation(o, "PLANNED", "OBSERVE_FAILED", observations[o].size, 0)
        \/ UNCHANGED dbVars
    BY <1>7 DEF HandlerFails
  <2> QED
    BY <1>4, <1>5, <1>6, <2>1
<1>8. CASE ObserveAborted(o) \/ ObserveFails(o)
  <2>1. FailObserving(o)
    BY <1>8 DEF ObserveAborted, ObserveFails
  <2> QED
    BY <1>4, <2>1
<1>9. CASE ObserveRaisesBeforeStart(o) \/ WatchdogAborts(o) \/ ObserveRaises(o)
  <2>1. UNCHANGED dbVars
    BY <1>9 DEF ObserveRaisesBeforeStart, WatchdogAborts, ObserveRaises
  <2> QED
    BY <1>6, <2>1
<1> QED
  BY <1>2, <1>3, <1>7, <1>8, <1>9 DEF TaskMoves

LEMMA EveryRowMoves ==
    ASSUME TypeOK, ObsInv, Next, NEW o \in Obs
    PROVE  RowMoves(o)
<1>1. observations[o] \in ObservationRows
  BY DEF TypeOK, StoreTypeOK
<1>2. ASSUME NEW u \in Obs, TaskMoves(u) PROVE RowMoves(o)
  <2>1. CASE u # o
    BY <1>2, <2>1, TasksFrame DEF RowMoves
  <2>2. CASE u = o
    BY <1>2, <2>2, TaskRowMoves DEF RowMoves
  <2> QED
    BY <2>1, <2>2
<1>3. CASE TickSweep
  <2>1. CASE o \in Orphaned
    <3>1. observations'[o] = [observations[o] EXCEPT !.state = "OBSERVE_FAILED", !.reserved = 0]
      BY <1>3, <2>1 DEF TickSweep
    <3>2. observations'[o].state = "OBSERVE_FAILED" /\ observations[o].state = "OBSERVING"
      BY <1>1, <2>1, <3>1 DEF Orphaned, ObservationsIn, ObservationRows
    <3> QED
      BY <3>2 DEF RowMoves, Ends
  <2>2. CASE o \notin Orphaned
    BY <1>3, <2>2 DEF TickSweep, RowMoves
  <2> QED
    BY <2>1, <2>2
<1>4. CASE TickAdmit
  <2>1. ASSUME NEW u \in Obs, Admit(u) PROVE RowMoves(o)
    <3>1. Admitted(u)
      BY <1>4, <2>1 DEF TickAdmit, Advance, Admit, InsertObservation, Admitted, TypeOK,
                       StoreTypeOK
    <3> QED
      BY <3>1 DEF RowMoves, Admitted
  <2>2. CASE UNCHANGED dbVars
    BY <2>2 DEF dbVars, RowMoves
  <2> QED
    BY <1>4, <2>1, <2>2 DEF TickAdmit
<1>5. ASSUME NEW u \in Obs, RecoverObserving(u) PROVE RowMoves(o)
  <2>1. /\ observations[u].state = "OBSERVING" /\ observations'[u].state = "OBSERVE_FAILED"
        /\ u # o => observations'[o] = observations[o]
    BY <1>5 DEF RecoverObserving, FailObserving, TransitionObservation, TypeOK, StoreTypeOK
  <2> QED
    BY <2>1 DEF RowMoves, Ends
<1>6. CASE RecoverStored
  <2>1. \/ observations'[o] = observations[o]
        \/ /\ observations[o].state = "STORED"
           /\ observations'[o] = [state |-> "INCONSISTENT", size |-> 0, reserved |-> 0]
    BY <1>6 DEF RecoverStored, ObservationsIn
  <2> QED
    BY <2>1 DEF RowMoves, Removed
<1>7. ASSUME NEW p \in Procs, NEW u \in Obs, CommandVerdict(p, u) PROVE RowMoves(o)
  <2>1. /\ observations[u].state = "STORED"
        /\ observations'[u] = [observations[u] EXCEPT !.state = "DELETING"]
        /\ u # o => observations'[o] = observations[o]
    BY <1>7 DEF CommandVerdict, BeginDeletion, TypeOK, StoreTypeOK
  <2>2. u = o => /\ observations'[o].state = "DELETING"
                 /\ observations'[o].size = observations[o].size
    BY <1>1, <2>1 DEF ObservationRows
  <2> QED
    BY <2>1, <2>2 DEF RowMoves, Removed
<1>8. ASSUME NEW p \in Procs, DeletionStep(p) PROVE RowMoves(o)
  <2>1. PICK u \in Obs : u = target[p][1]
    BY <1>8 DEF DeletionStep, FinishStep, FinishRename, FinishRemove, FinishMark, DropStep,
             DropLive, DropTrash, DropMark, TypeOK, RunIds
  <2>2. u # o => observations'[o] = observations[o]
    BY <1>8, <2>1, DeletionShape
  <2>3. RemovalStep(p, u)
    BY <1>8, <2>1, DeletionShape
  <2> QED
    BY <2>2, <2>3 DEF RemovalStep, RowMoves, Removed
<1>9. CASE UNCHANGED dbVars
  BY <1>9 DEF dbVars, RowMoves
<1> QED
  BY <1>2, <1>3, <1>4, <1>5, <1>6, <1>7, <1>8, <1>9
     DEF Next, Containers, WriterWrites, WriterExits, Ticks, TickResume, TickSignature,
         TickMeasure, ControllerCrash, Recovery, ControllerStart, KillManaged,
         RecoverObservingFails, RecoverDeletion, RecoverObservingDone, Commands,
         CommandResolve, BeginDrop, CommandEnds, Abandon, DeletionPart, Purge

(* An overrun that is let pass.                                             *)
Overruns(o) ==
    /\ observations[o].state = "OBSERVING" /\ observations'[o].state = "STORED"
    /\ disk[o] > Reservation

LEMMA OverrunIsWarned ==
    ASSUME TypeOK, ObsInv, Next, NEW o \in Obs, Overruns(o)
    PROVE  phase = "idle" /\ overrun = "warn" /\ observations'[o].size = disk[o]
  BY EveryRowMoves DEF RowMoves, Admitted, Ends, Removed, Removing, Overruns

(* Nothing but an admission and such an overrun raises a charge.            *)
LEMMA ChargeShrinks ==
    ASSUME TypeOK, TypeOK', ObsInv, Next, NEW o \in Obs, ~ Admitted(o), ~ Overruns(o)
    PROVE  Charge'[o] <= Charge[o]
<1>1. /\ Charge[o] = IF observations[o].state \in {"STORED", "DELETING", "INCONSISTENT"}
                       THEN observations[o].size
                       ELSE IF observations[o].state \in {"PLANNED", "OBSERVING"}
                              THEN observations[o].reserved ELSE 0
      /\ Charge'[o] = IF observations'[o].state \in {"STORED", "DELETING", "INCONSISTENT"}
                        THEN observations'[o].size
                        ELSE IF observations'[o].state \in {"PLANNED", "OBSERVING"}
                               THEN observations'[o].reserved ELSE 0
  BY DEF Charge
<1>2. /\ observations[o].size \in Nat /\ observations[o].reserved \in Nat
      /\ disk[o] \in Nat /\ Charge[o] \in Nat /\ Charge'[o] \in Nat
  BY ChargeType DEF TypeOK, StoreTypeOK, ObservationRows, Charge
<1>3. RowMoves(o)
  BY EveryRowMoves
<1>4. CASE observations'[o] = observations[o]
  BY <1>1, <1>2, <1>4
<1>5. CASE Ends(o)
  <2>1. observations[o].state = "OBSERVING" => observations[o].reserved = Reservation
    BY DEF ObsInv, RowMatchesDisk
  <2>2. CASE observations'[o].state = "STORED"
    <3>1. ~ (disk[o] > Reservation) /\ Reservation \in Nat
      BY <1>5, <2>2, ObservingAssumption DEF Ends, Overruns
    <3>2. Charge'[o] = disk[o] /\ Charge[o] = Reservation
      BY <1>1, <1>5, <2>1, <2>2 DEF Ends
    <3> QED
      BY <1>2, <3>1, <3>2
  <2>3. CASE observations'[o].state # "STORED"
    BY <1>1, <1>2, <1>5, <2>3 DEF Ends
  <2> QED
    BY <2>2, <2>3
<1>6. CASE Removed(o)
  BY <1>1, <1>2, <1>6 DEF Removed, Removing
<1> QED
  BY <1>3, <1>4, <1>5, <1>6 DEF RowMoves

LEMMA ChargesShrink ==
    ASSUME TypeOK, TypeOK', ObsInv, Next, \A o \in Obs : ~ Admitted(o) /\ ~ Overruns(o)
    PROVE  Bytes(Charge', Obs) <= Bytes(Charge, Obs)
<1>1. \A o \in Obs : Charge'[o] <= Charge[o]
  BY ChargeShrinks
<1>2. Charge \in [Obs -> Nat] /\ Charge' \in [Obs -> Nat]
  BY ChargeType
<1> QED
  BY <1>1, <1>2, BytesMonotonic

-----------------------------------------------------------------------------
(* The sum can_admit read stays an upper bound while it computes: until     *)
(* then only commands move rows, and they lower what is charged.            *)

ChargedInv == phase \in Admitting => Bytes(Charge, Obs) <= charged

LEMMA BytesOfCharge ==
    /\ TypeOK => Bytes(Charge, Obs) \in Nat
    /\ TypeOK' => Bytes(Charge', Obs) \in Nat
  BY ChargeType, BytesAre

LEMMA ChargedKept ==
    ASSUME TypeOK, TypeOK', ObsInv, ChargedInv, Next
    PROVE  ChargedInv'
<1> SUFFICES ASSUME phase' \in Admitting PROVE Bytes(Charge', Obs) <= charged'
  BY DEF ChargedInv
<1>1. Bytes(Charge, Obs) \in Nat /\ Bytes(Charge', Obs) \in Nat
  BY BytesOfCharge
<1>2. phase # "idle" /\ \A o \in Obs : ~ Admitted(o)
  <2>1. CASE TickSweep
    BY <2>1 DEF TickSweep, Advance, Admitting
  <2>2. CASE \E o \in Obs : TaskMoves(o)
    BY <2>2, TasksFrame DEF Admitting
  <2>3. CASE ~ TickSweep /\ ~ (\E o \in Obs : TaskMoves(o))
    BY <2>3 DEF Admitted, Admitting, Next, Containers, WriterWrites, WriterExits, Ticks,
             TickResume, TickSignature, TickMeasure, TickAdmit, Advance, ControllerCrash,
             Recovery, ControllerStart, KillManaged, RecoverObserving, RecoverObservingFails,
             Recovers, RecoverDeletion, RecoverObservingDone, RecoverStored, Commands,
             CommandVerdict, CommandResolve, CommandEnds, DeletionStep, DeletionPart, Purge,
             obsVars
  <2> QED
    BY <2>1, <2>2, <2>3 DEF Admitted, Admitting
<1>3. Bytes(Charge', Obs) <= Bytes(Charge, Obs)
  BY <1>2, OverrunIsWarned, ChargesShrink
<1>4. CASE TickResume
  <2>1. charged' = LogicalUsed + LogicalReserved
    BY <1>4 DEF TickResume, Advance, Admitting
  <2>2. charged' = Bytes(Charge, Obs)
    BY <2>1, LogicalSum
  <2> QED
    BY <1>3, <2>2
<1>5. CASE ~ TickResume
  <2>1. phase \in Admitting /\ charged' = charged
    <3>1. CASE Ticks
      BY <1>5, <3>1 DEF Ticks, TickSweep, TickSignature, TickMeasure, TickAdmit, Advance,
               Admitting
    <3>2. CASE Recovery \/ ControllerCrash
      BY <3>2 DEF Recovery, ControllerCrash, ControllerStart, KillManaged, RecoverObserving,
               RecoverObservingFails, Recovers, RecoverDeletion, RecoverObservingDone,
               RecoverStored, Advance, Admitting
    <3>3. CASE Containers \/ Commands
      BY <3>3 DEF Containers, WriterWrites, WriterExits, Commands, CommandVerdict,
               CommandResolve, CommandEnds, DeletionStep, DeletionPart, Purge, obsVars
    <3>4. CASE \E o \in Obs : TaskMoves(o)
      BY <1>2, <3>4, TasksFrame
    <3> QED
      BY <3>1, <3>2, <3>3, <3>4 DEF Next
  <2>2. charged \in Nat
    BY DEF TypeOK
  <2> QED
    BY <1>1, <1>3, <2>1, <2>2 DEF ChargedInv
<1> QED
  BY <1>4, <1>5

LEMMA TypeKept == TypeOK /\ [Next]_vars => TypeOK'
<1> SUFFICES ASSUME TypeOK, [Next]_vars PROVE TypeOK'
  OBVIOUS
<1>1. CASE UNCHANGED vars
  BY <1>1 DEF vars, dbVars, obsVars, TypeOK, StoreTypeOK
<1> QED
  BY <1>1, ContainersType, TasksType, TicksType, RecoveryType, CommandsType DEF Next

LEMMA StuttersCharge == UNCHANGED vars => Charge' = Charge
  BY DEF vars, dbVars, Charge

LEMMA ChargedInvariant == Spec => []ChargedInv
<1>1. Init => ChargedInv
  BY DEF Init, ChargedInv, Admitting
<1>2. TypeOK /\ ObsInv /\ ChargedInv /\ [Next]_vars => ChargedInv'
  <2> SUFFICES ASSUME TypeOK, ObsInv, ChargedInv, [Next]_vars PROVE ChargedInv'
    OBVIOUS
  <2>1. CASE UNCHANGED vars
    BY <2>1, StuttersCharge DEF vars, obsVars, ChargedInv
  <2>2. CASE Next
    BY <2>2, TypeKept, ChargedKept
  <2> QED
    BY <2>1, <2>2
<1> QED
  BY <1>1, <1>2, TypeCorrect, ObsInvariant, PTL DEF Spec

(* One observation more fits, by the sum it was decided on.                 *)
LEMMA AdmissionCharges ==
    ASSUME TypeOK, TypeOK', ChargedInv, NEW o \in Obs, Admitted(o)
    PROVE  Bytes(Charge', Obs) <= Threshold
<1>1. Charge \in [Obs -> Nat] /\ Charge' \in [Obs -> Nat] /\ Reservation \in Nat
  BY ChargeType, ObservingAssumption
<1>2. Charge'[o] = Reservation /\ \A u \in Obs \ {o} : Charge'[u] = Charge[u]
  BY DEF Admitted, Charge
<1>3. Bytes(Charge', Obs) = Bytes(Charge', Obs \ {o}) + Reservation
  BY <1>1, <1>2, BytesAt
<1>4. Bytes(Charge', Obs \ {o}) <= Bytes(Charge, Obs)
  <2>1. \A u \in Obs \ {o} : u \in Obs /\ Charge'[u] <= Charge[u]
    BY <1>1, <1>2
  <2> QED
    BY <1>1, <2>1, BytesMonotonic
<1>5. Bytes(Charge, Obs) <= charged
  BY DEF ChargedInv, Admitted, Admitting
<1>6. charged + aux.quarantine + aux.trash + Reservation <= Threshold
  BY DEF Admitted, Fits
<1>7. /\ charged \in Nat /\ aux.quarantine \in Nat /\ aux.trash \in Nat /\ Threshold \in Nat
      /\ Bytes(Charge', Obs \ {o}) \in Nat /\ Bytes(Charge, Obs) \in Nat
  BY <1>1, BytesAre, ObservingAssumption DEF TypeOK
<1> QED
  BY <1>1, <1>3, <1>4, <1>5, <1>6, <1>7

-----------------------------------------------------------------------------
(* The cache can only be behind removals.                                   *)

(* Where the sizes in the cache are, or will be, decided on.                *)
AuxCounts == phase = "decide" \/ (aux.match /\ phase # "measure")

AuxInv == AuxCounts => QuarantineBytes <= aux.quarantine

LEMMA QuarantineBytesType ==
    /\ TypeOK => QuarantineBytes \in Nat
    /\ TypeOK' => QuarantineBytes' \in Nat
  BY BytesAre DEF QuarantineBytes, TypeOK

LEMMA AuxKept ==
    ASSUME TypeOK, TypeOK', AuxInv, \A o \in Obs : quarantined'[o] <= quarantined[o],
           aux'.quarantine = aux.quarantine, AuxCounts' => AuxCounts
    PROVE  AuxInv'
<1>1. QuarantineBytes' <= QuarantineBytes
  BY BytesMonotonic DEF QuarantineBytes, TypeOK
<1>2. aux.quarantine \in Nat /\ QuarantineBytes \in Nat /\ QuarantineBytes' \in Nat
  BY QuarantineBytesType DEF TypeOK
<1> QED
  BY <1>1, <1>2 DEF AuxInv

LEMMA AuxForgotten ==
    ASSUME aux' = NoCache, phase' # "decide"
    PROVE  AuxInv'
  BY DEF AuxInv, AuxCounts, NoCache

LEMMA AuxUnchanged ==
    ASSUME TypeOK, TypeOK', AuxInv, UNCHANGED aux,
           \A o \in Obs : quarantined'[o] <= quarantined[o],
           \/ phase' = phase
           \/ phase \notin {"measure", "decide"} /\ phase' \notin {"measure", "decide"}
    PROVE  AuxInv'
  BY AuxKept DEF AuxCounts

LEMMA ShowsChangeAux ==
    ASSUME TypeOK, TypeOK', AuxInv, ShowsChange, UNCHANGED phase,
           \A o \in Obs : quarantined'[o] <= quarantined[o]
    PROVE  AuxInv'
<1>1. CASE UNCHANGED aux
  BY <1>1, AuxUnchanged
<1>2. CASE phase \in {"measure", "decide"} /\ aux' = [aux EXCEPT !.match = FALSE]
  <2>1. aux'.quarantine = aux.quarantine /\ aux'.match = FALSE
    BY <1>2 DEF TypeOK
  <2> QED
    BY <2>1, AuxKept DEF AuxCounts
<1>3. CASE phase \notin {"measure", "decide"} /\ aux' = NoCache
  BY <1>3, AuxForgotten
<1> QED
  BY <1>1, <1>2, <1>3 DEF ShowsChange

LEMMA QuarantineAux ==
    ASSUME TypeOK, TypeOK', ObsInv, AuxInv, NEW S \in SUBSET Obs,
           \A o \in S : observations[o].state # "DELETING",
           Quarantine(S) \/ NothingMoved,
           phase \notin {"measure", "decide"}, phase' \notin {"measure", "decide"}
    PROVE  AuxInv'
<1>1. \A o \in Obs : quarantined[o] \in Nat
  BY DEF TypeOK
<1>2. CASE NothingMoved
  BY <1>1, <1>2, AuxUnchanged DEF NothingMoved
<1>3. CASE Quarantine(S) /\ \E o \in S : "live" \in raw[o]
  BY <1>3, AuxForgotten DEF Quarantine, Invalidates
<1>4. CASE Quarantine(S) /\ \A o \in S : "live" \notin raw[o]
  <2>1. ASSUME NEW o \in S PROVE disk[o] = 0
    <3>1. "trash" \notin raw[o] /\ "live" \notin raw[o] /\ raw[o] \in SUBSET {"live", "trash"}
      BY <1>4 DEF ObsInv, RowMatchesDisk, TypeOK, Places
    <3>2. raw[o] = {}
      BY <3>1
    <3> QED
      BY <3>2 DEF ObsInv, RowMatchesDisk
  <2>2. \A o \in Obs : quarantined'[o] <= quarantined[o]
    BY <1>1, <1>4, <2>1 DEF Quarantine
  <2> QED
    BY <1>4, <2>2, AuxUnchanged DEF Quarantine, Invalidates
<1> QED
  BY <1>2, <1>3, <1>4

LEMMA AuxStep ==
    ASSUME TypeOK, TypeOK', ObsInv, WatchedInv, AuxInv, Next
    PROVE  AuxInv'
<1>1. \A o \in Obs : quarantined[o] \in Nat
  BY DEF TypeOK
<1>2. CASE Containers
  <2>1. PICK o \in Obs : WriterWrites(o) \/ WriterExits(o)
    BY <1>2 DEF Containers
  <2>2. o \in writers => quarantined[o] = 0
    BY DEF WatchedInv, WriterIsWatched
  <2>3. UNCHANGED <<quarantined, aux, phase>>
    BY <2>1, <2>2 DEF WriterWrites, WriterExits
  <2> QED
    BY <1>1, <2>3, AuxUnchanged
<1>3. ASSUME NEW o \in Obs, TaskMoves(o) PROVE AuxInv'
  <2>1. observations[o].state # "DELETING"
    BY <1>3, TaskRow DEF ObsInv
  <2>2. Quarantine({o}) \/ NothingMoved
    BY <1>3 DEF TaskMoves, ObserveStarts, ObserveRaisesBeforeStart, WatchdogAborts,
             ObserveAborted, ObserveCompletes, ObserveFails, ObserveRaises, HandlerFails,
             TriesToQuarantine
  <2>3. phase = "idle" /\ phase' = "idle"
    BY <1>3, TasksFrame
  <2> QED
    BY <2>1, <2>2, <2>3, QuarantineAux
<1>4. CASE TickSweep
  <2>1. /\ Orphaned \in SUBSET Obs
        /\ \A o \in Orphaned : observations[o].state # "DELETING"
    BY DEF Orphaned, ObservationsIn
  <2>2. Quarantine(Orphaned) \/ NothingMoved
    BY <1>4 DEF TickSweep
  <2>3. phase = "idle" /\ phase' = "sweep"
    BY <1>4 DEF TickSweep, Advance
  <2> QED
    BY <2>1, <2>2, <2>3, QuarantineAux
<1>5. CASE TickResume
  BY <1>1, <1>5, AuxUnchanged DEF TickResume, Advance
<1>6. CASE TickSignature
  <2>1. /\ phase = "admit" /\ UNCHANGED quarantined
        /\ phase' = IF aux.match THEN "decide" ELSE "measure"
        /\ aux'.quarantine = aux.quarantine
    BY <1>6 DEF TickSignature, Advance, TypeOK
  <2>2. AuxCounts' => AuxCounts
    BY <2>1 DEF AuxCounts
  <2> QED
    BY <1>1, <2>1, <2>2, AuxKept
<1>7. CASE TickMeasure
  <2>1. UNCHANGED quarantined /\ aux'.quarantine = QuarantineBytes
    BY <1>7 DEF TickMeasure, TypeOK
  <2>2. QuarantineBytes' = QuarantineBytes /\ QuarantineBytes \in Nat
    BY <2>1, QuarantineBytesType DEF QuarantineBytes
  <2> QED
    BY <2>1, <2>2 DEF AuxInv
<1>8. CASE TickAdmit
  <2>1. phase = "decide" /\ phase' = "idle" /\ UNCHANGED quarantined
    BY <1>8 DEF TickAdmit, Advance
  <2>2. CASE aux.match
    <3>1. aux' = aux
      BY <1>8, <2>2 DEF TickAdmit
    <3> QED
      BY <1>1, <2>1, <2>2, <3>1, AuxKept DEF AuxCounts
  <2>3. CASE ~ aux.match
    BY <1>8, <2>1, <2>3, AuxForgotten DEF TickAdmit
  <2> QED
    BY <2>2, <2>3
<1>9. CASE ControllerCrash
  BY <1>9, AuxForgotten DEF ControllerCrash
<1>10. ASSUME NEW o \in Obs, RecoverObserving(o) \/ RecoverObservingFails(o) PROVE AuxInv'
  <2>1. /\ phase = "recObserving" /\ phase' = "recObserving" /\ o \in todo
        /\ Quarantine({o}) \/ NothingMoved
    BY <1>10 DEF RecoverObserving, RecoverObservingFails, Recovers, Advance
  <2>2. observations[o].state = "OBSERVING"
    BY <2>1 DEF ObsInv, OneActive
  <2> QED
    BY <2>1, <2>2, QuarantineAux
<1>11. CASE \/ ControllerStart \/ KillManaged \/ RecoverObservingDone \/ RecoverStored
            \/ \E o \in Obs : RecoverDeletion(o)
  <2>1. /\ UNCHANGED <<quarantined, aux>>
        /\ phase \notin {"measure", "decide"} /\ phase' \notin {"measure", "decide"}
    BY <1>11 DEF ControllerStart, KillManaged, RecoverObservingDone, RecoverStored,
                 RecoverDeletion, Advance
  <2> QED
    BY <1>1, <2>1, AuxUnchanged
<1>12. ASSUME NEW p \in Procs,
              \/ CommandEnds(p) \/ DeletionPart(p)
              \/ \E o \in Obs : CommandVerdict(p, o) \/ CommandResolve(p, o)
       PROVE  AuxInv'
  <2>1. UNCHANGED <<quarantined, aux, phase>>
    BY <1>12 DEF CommandEnds, DeletionPart, CommandVerdict, CommandResolve, obsVars
  <2> QED
    BY <1>1, <2>1, AuxUnchanged
<1>13. ASSUME NEW p \in Procs, DeletionStep(p) PROVE AuxInv'
  <2>1. UNCHANGED <<quarantined, phase>> /\ (ShowsChange \/ UNCHANGED aux)
    BY <1>13 DEF DeletionStep
  <2> QED
    BY <1>1, <2>1, AuxUnchanged, ShowsChangeAux
<1>14. ASSUME NEW o \in Obs, Purge(o) PROVE AuxInv'
  <2>1. UNCHANGED phase /\ (ShowsChange \/ UNCHANGED aux)
    BY <1>14 DEF Purge
  <2>2. \/ quarantined' = [quarantined EXCEPT ![o] = 0]
        \/ \E left \in 0 .. quarantined[o] - 1 : quarantined' = [quarantined EXCEPT ![o] = left]
    BY <1>14 DEF Purge
  <2>3. \A u \in Obs : quarantined'[u] <= quarantined[u]
    BY <1>1, <2>2 DEF TypeOK
  <2> QED
    BY <2>1, <2>3, AuxUnchanged, ShowsChangeAux
<1> QED
  BY <1>2, <1>3, <1>4, <1>5, <1>6, <1>7, <1>8, <1>9, <1>10, <1>11, <1>12, <1>13, <1>14
     DEF Next, Ticks, Recovery, Commands

LEMMA AuxInvariant == ~ DockerFaults => (Spec => []AuxInv)
<1> SUFFICES ASSUME ~ DockerFaults PROVE Spec => []AuxInv
  OBVIOUS
<1>1. Init => AuxInv
  BY DEF Init, NoCache, AuxInv, AuxCounts
<1>2. TypeOK /\ ObsInv /\ WatchedInv /\ AuxInv /\ [Next]_vars => AuxInv'
  <2> SUFFICES ASSUME TypeOK, ObsInv, WatchedInv, AuxInv, [Next]_vars PROVE AuxInv'
    OBVIOUS
  <2>1. CASE UNCHANGED vars
    BY <2>1 DEF vars, obsVars, AuxInv, AuxCounts, QuarantineBytes
  <2>2. CASE Next
    BY <2>2, TypeKept, AuxStep
  <2> QED
    BY <2>1, <2>2
<1> QED
  BY <1>1, <1>2, TypeCorrect, ObsInvariant, WatchedInvariant, PTL DEF Spec

(* While nothing is observed, the row of an observation charges what it has *)
(* on the disk.                                                             *)
LEMMA RowCoversDisk ==
    ASSUME TypeOK, ObsInv, MovedInv, phase \in Admitting, NEW o \in Obs
    PROVE  disk[o] <= Charge[o]
<1>1. /\ RowMatchesDisk(o) /\ FailedIsMoved(o)
      /\ observations[o].state \notin {"PLANNED", "OBSERVING"}
  BY DEF ObsInv, MovedInv, OneActive
<1>2. /\ observations[o].state \in ObservationStates \cup {"ABSENT"}
      /\ disk[o] \in Nat /\ observations[o].size \in Nat
  BY DEF TypeOK, StoreTypeOK, ObservationRows
<1>3. CASE raw[o] = {}
  <2>1. disk[o] = 0 /\ Charge[o] \in Nat
    BY <1>1, <1>3, ChargeType DEF RowMatchesDisk
  <2> QED
    BY <2>1
<1>4. CASE raw[o] # {}
  <2>1. observations[o].state \in {"STORED", "DELETING"}
    BY <1>1, <1>2, <1>4 DEF RowMatchesDisk, FailedIsMoved, ObservationStates
  <2>2. Charge[o] = observations[o].size
    BY <2>1 DEF Charge
  <2> QED
    BY <1>1, <1>2, <1>4, <2>1, <2>2 DEF RowMatchesDisk
<1> QED
  BY <1>3, <1>4

LEMMA ChargeCovers ==
    ASSUME TypeOK, ObsInv, MovedInv, ChargedInv, AuxInv
    PROVE  ChargeCoversDisk
<1> SUFFICES ASSUME phase = "decide"
             PROVE  DiskBytes + QuarantineBytes <= charged + aux.quarantine + aux.trash
  BY DEF ChargeCoversDisk
<1>1. DiskBytes <= Bytes(Charge, Obs)
  <2>1. \A o \in Obs : disk[o] <= Charge[o]
    BY RowCoversDisk DEF Admitting
  <2>2. disk \in [Obs -> Nat] /\ Charge \in [Obs -> Nat]
    BY ChargeType DEF TypeOK
  <2> QED
    BY <2>1, <2>2, BytesMonotonic DEF DiskBytes
<1>2. Bytes(Charge, Obs) <= charged
  BY DEF ChargedInv, Admitting
<1>3. QuarantineBytes <= aux.quarantine
  BY DEF AuxInv, AuxCounts
<1>4. /\ DiskBytes \in Nat /\ QuarantineBytes \in Nat /\ Bytes(Charge, Obs) \in Nat
      /\ charged \in Nat /\ aux.quarantine \in Nat /\ aux.trash \in Nat
  BY BytesTypes, BytesOfCharge DEF TypeOK
<1> QED
  BY <1>1, <1>2, <1>3, <1>4

(* What can_admit decides on covers what is on the disk, although it is put *)
(* together from a query, a cache and two walks while commands delete and   *)
(* purge (scheduler.py, can_admit; storage.py, auxiliary_charged_storage):  *)
(* the rows charge the disk, the cache is only ever behind removals.        *)
THEOREM ChargeCoversDiskHolds == ~ DockerFaults /\ ~ OsFaults => (Spec => []ChargeCoversDisk)
<1> SUFFICES ASSUME ~ DockerFaults, ~ OsFaults PROVE Spec => []ChargeCoversDisk
  OBVIOUS
<1>1. TypeOK /\ ObsInv /\ MovedInv /\ ChargedInv /\ AuxInv => ChargeCoversDisk
  BY ChargeCovers
<1> QED
  BY <1>1, TypeCorrect, ObsInvariant, MovedInvariant, ChargedInvariant, AuxInvariant, PTL

-----------------------------------------------------------------------------
(* Bytes: all others leave room for the one observation in flight.          *)

BytesInv ==
    /\ Bytes(Held, Obs) <= Threshold + Excess
    /\ \A o \in Obs : observations[o].state \in {"PLANNED", "OBSERVING"} =>
           /\ Bytes(Held, Obs \ {o}) + Reservation <= Threshold
           /\ Held[o] <= MaxBytes

LEMMA BoundTypes ==
    /\ Threshold \in Nat /\ Reservation \in Nat /\ MaxBytes \in Nat /\ Excess \in Nat
    /\ MaxBytes <= Reservation + Excess
  BY ObservingAssumption DEF Excess

(* Only a container makes more of an observation.                           *)
LEMMA HeldShrinks ==
    ASSUME TypeOK, TypeOK', ObsInv, Next, ~ (\E u \in Obs : WriterWrites(u)), NEW o \in Obs
    PROVE  Held'[o] <= Held[o]
<1>1. /\ Held[o] = disk[o] + quarantined[o] /\ Held'[o] = disk'[o] + quarantined'[o]
      /\ disk[o] \in Nat /\ quarantined[o] \in Nat /\ disk'[o] \in Nat /\ quarantined'[o] \in Nat
  BY DEF Held, TypeOK
<1>2. CASE \/ \E u \in Obs : TaskMoves(u)
           \/ TickSweep
           \/ \E u \in Obs : RecoverObserving(u) \/ RecoverObservingFails(u)
  <2>1. NothingMoved \/ \E S : Quarantine(S)
    BY <1>2 DEF TaskMoves, ObserveStarts, ObserveRaisesBeforeStart, WatchdogAborts,
             ObserveAborted, ObserveCompletes, ObserveFails, ObserveRaises, HandlerFails,
             TriesToQuarantine, TickSweep, RecoverObserving, RecoverObservingFails
  <2>2. disk'[o] + quarantined'[o] = disk[o] + quarantined[o]
    BY <2>1, QuarantineKeepsBytes
  <2> QED
    BY <1>1, <2>2
<1>3. CASE \/ TickResume \/ TickSignature \/ TickMeasure \/ TickAdmit \/ ControllerCrash
           \/ ControllerStart \/ KillManaged \/ RecoverObservingDone \/ RecoverStored
           \/ \E u \in Obs : WriterExits(u) \/ RecoverDeletion(u)
           \/ \E p \in Procs :
                 CommandEnds(p) \/ \E u \in Obs : CommandVerdict(p, u) \/ CommandResolve(p, u)
  <2>1. UNCHANGED <<disk, quarantined>>
    BY <1>3 DEF TickResume, TickSignature, TickMeasure, TickAdmit, ControllerCrash,
             ControllerStart, KillManaged, RecoverObservingDone, RecoverStored, WriterExits,
             RecoverDeletion, CommandEnds, CommandVerdict, CommandResolve, obsVars
  <2> QED
    BY <1>1, <2>1
<1>4. ASSUME NEW p \in Procs, DeletionStep(p) PROVE Held'[o] <= Held[o]
  <2>1. quarantined'[o] = quarantined[o] /\ (disk'[o] = 0 \/ disk'[o] = disk[o])
    BY <1>4 DEF DeletionStep
  <2> QED
    BY <1>1, <2>1
<1>5. ASSUME NEW p \in Procs, DeletionPart(p) PROVE Held'[o] <= Held[o]
  <2>1. quarantined'[o] = quarantined[o] /\ (disk'[o] < disk[o] \/ disk'[o] = disk[o])
    BY <1>5, PartShape
  <2> QED
    BY <1>1, <2>1
<1>6. ASSUME NEW u \in Obs, Purge(u) PROVE Held'[o] <= Held[o]
  <2>1. /\ disk'[o] = disk[o] /\ quarantined[u] \in Nat
        /\ \/ quarantined' = [quarantined EXCEPT ![u] = 0]
           \/ \E left \in 0 .. quarantined[u] - 1 :
                 quarantined' = [quarantined EXCEPT ![u] = left]
    BY <1>6 DEF Purge, TypeOK
  <2>2. quarantined'[o] <= quarantined[o]
    BY <1>1, <2>1 DEF TypeOK
  <2> QED
    BY <1>1, <2>1, <2>2
<1> QED
  BY <1>2, <1>3, <1>4, <1>5, <1>6 DEF Next, Containers, Ticks, Recovery, Commands

(* A container adds a byte to the observation in flight.                    *)
LEMMA WriterBytes ==
    ASSUME TypeOK, TypeOK', ObsInv, WatchedInv, BytesInv, NEW o \in Obs, WriterWrites(o)
    PROVE  BytesInv'
<1>1. Held \in [Obs -> Nat] /\ Held' \in [Obs -> Nat]
  BY HeldType
<1>2. UNCHANGED observations /\ observations[o].state = "OBSERVING"
  BY DEF WriterWrites, dbVars, WatchedInv, WriterIsWatched
<1>3. Held'[o] <= MaxBytes /\ \A u \in Obs \ {o} : Held'[u] = Held[u]
  <2>1. /\ disk[o] + quarantined[o] < MaxBytes
        /\ disk[o] \in Nat /\ quarantined[o] \in Nat /\ MaxBytes \in Nat
    BY BoundTypes DEF WriterWrites, TypeOK
  <2>2. \/ disk' = [disk EXCEPT ![o] = @ + 1] /\ UNCHANGED quarantined
        \/ quarantined' = [quarantined EXCEPT ![o] = @ + 1] /\ UNCHANGED disk
    BY DEF WriterWrites
  <2>3. disk'[o] + quarantined'[o] = disk[o] + quarantined[o] + 1
    BY <2>1, <2>2 DEF TypeOK
  <2>4. \A u \in Obs \ {o} : disk'[u] = disk[u] /\ quarantined'[u] = quarantined[u]
    BY <2>2 DEF TypeOK
  <2> QED
    BY <2>1, <2>3, <2>4 DEF Held
<1>4. Bytes(Held', Obs \ {o}) = Bytes(Held, Obs \ {o})
  BY <1>1, <1>3, BytesSame
<1>5. Bytes(Held', Obs \ {o}) + Reservation <= Threshold
  BY <1>2, <1>4 DEF BytesInv
<1>6. Bytes(Held', Obs) <= Threshold + Excess
  <2>1. Bytes(Held', Obs) = Bytes(Held', Obs \ {o}) + Held'[o]
    BY <1>1, BytesAt
  <2>2. Bytes(Held', Obs \ {o}) \in Nat /\ Held'[o] \in Nat
    BY <1>1, BytesAre
  <2> QED
    BY <1>3, <1>5, <2>1, <2>2, BoundTypes
<1>7. \A u \in Obs : observations'[u].state \in {"PLANNED", "OBSERVING"} => u = o
  BY <1>2 DEF ObsInv, OneActive
<1> QED
  BY <1>3, <1>5, <1>6, <1>7 DEF BytesInv

(* An admission reserves for an observation that has nothing yet.           *)
LEMMA AdmissionBytes ==
    ASSUME TypeOK, ObsInv, ChargeCoversDisk, BytesInv, NEW o \in Obs, Admitted(o)
    PROVE  BytesInv'
<1>1. Held \in [Obs -> Nat] /\ Held' = Held
  BY HeldType DEF Admitted, Held
<1>2. Held[o] = 0
  <2>1. disk[o] = 0 /\ quarantined[o] = 0
    BY DEF Admitted, ObsInv, RowMatchesDisk
  <2> QED
    BY <2>1 DEF Held
<1>3. Bytes(Held, Obs) + Reservation <= Threshold
  <2>1. Bytes(Held, Obs) <= charged + aux.quarantine + aux.trash
    BY HeldSum DEF ChargeCoversDisk, Admitted
  <2>2. charged + aux.quarantine + aux.trash + Reservation <= Threshold
    BY DEF Admitted, Fits
  <2>3. /\ charged \in Nat /\ aux.quarantine \in Nat /\ aux.trash \in Nat
        /\ Bytes(Held, Obs) \in Nat
    BY <1>1, BytesAre DEF TypeOK
  <2> QED
    BY <2>1, <2>2, <2>3, BoundTypes
<1>4. Bytes(Held, Obs) = Bytes(Held, Obs \ {o}) + Held[o] /\ Bytes(Held, Obs \ {o}) \in Nat
  BY <1>1, BytesAt, BytesAre
<1>5. \A u \in Obs : observations'[u].state \in {"PLANNED", "OBSERVING"} => u = o
  BY DEF Admitted, ObsInv, OneActive, Admitting
<1>6. Bytes(Held', Obs) <= Threshold + Excess
  BY <1>1 DEF BytesInv
<1>7. Bytes(Held', Obs \ {o}) + Reservation <= Threshold /\ Held'[o] <= MaxBytes
  BY <1>1, <1>2, <1>3, <1>4, BoundTypes
<1> QED
  BY <1>5, <1>6, <1>7 DEF BytesInv

LEMMA OtherBytes ==
    ASSUME TypeOK, TypeOK', ObsInv, BytesInv, Next, \A o \in Obs : ~ Admitted(o),
           ~ (\E u \in Obs : WriterWrites(u))
    PROVE  BytesInv'
<1>1. Held \in [Obs -> Nat] /\ Held' \in [Obs -> Nat] /\ \A o \in Obs : Held'[o] <= Held[o]
  BY HeldType, HeldShrinks
<1>2. ASSUME NEW S \in SUBSET Obs
      PROVE  /\ Bytes(Held', S) <= Bytes(Held, S)
             /\ Bytes(Held', S) \in Nat /\ Bytes(Held, S) \in Nat
  BY <1>1, BytesMonotonic, BytesAre
<1>3. Bytes(Held', Obs) <= Threshold + Excess
  <2>1. Bytes(Held, Obs) <= Threshold + Excess
    BY DEF BytesInv
  <2>2. /\ Bytes(Held', Obs) <= Bytes(Held, Obs)
        /\ Bytes(Held', Obs) \in Nat /\ Bytes(Held, Obs) \in Nat
    BY <1>2
  <2> QED
    BY <2>1, <2>2, BoundTypes
<1>4. ASSUME NEW o \in Obs, observations'[o].state \in {"PLANNED", "OBSERVING"}
      PROVE  Bytes(Held', Obs \ {o}) + Reservation <= Threshold /\ Held'[o] <= MaxBytes
  <2>1. observations[o].state \in {"PLANNED", "OBSERVING"}
    BY <1>4, EveryRowMoves DEF RowMoves, Ends, Removed
  <2>2. Bytes(Held, Obs \ {o}) + Reservation <= Threshold /\ Held[o] <= MaxBytes
    BY <2>1 DEF BytesInv
  <2>3. /\ Bytes(Held', Obs \ {o}) <= Bytes(Held, Obs \ {o})
        /\ Bytes(Held', Obs \ {o}) \in Nat /\ Bytes(Held, Obs \ {o}) \in Nat
    BY <1>2
  <2>4. Held'[o] <= Held[o] /\ Held[o] \in Nat /\ Held'[o] \in Nat
    BY <1>1
  <2> QED
    BY <2>2, <2>3, <2>4, BoundTypes
<1> QED
  BY <1>3, <1>4 DEF BytesInv

(* Raw data never fills the disk beyond the threshold, by more than what    *)
(* the one observation in flight exceeds its reservation: whatever is       *)
(* stored, half deleted, in quarantine or being written, across failures,   *)
(* crashes and purges (ADR-002; scheduler.py, can_admit).  A container that *)
(* survives its removal, or data left where a move failed, is charged to no *)
(* row: for those the bound cannot hold.                                    *)
THEOREM BytesWithinThresholdHolds ==
    ~ DockerFaults /\ ~ OsFaults => (Spec => []BytesWithinThreshold)
<1> SUFFICES ASSUME ~ DockerFaults, ~ OsFaults PROVE Spec => []BytesWithinThreshold
  OBVIOUS
<1>1. Init => BytesInv
  <2> SUFFICES ASSUME Init PROVE BytesInv
    OBVIOUS
  <2>1. Held \in [Obs -> Nat] /\ \A o \in Obs : Held[o] = 0
    BY DEF Init, Held
  <2>2. Bytes(Held, Obs) <= Bytes(Held, {})
    BY <2>1, BytesMonotonic
  <2>3. Bytes(Held, {}) = 0 /\ Bytes(Held, Obs) \in Nat
    BY <2>1, BytesEmpty, BytesAre
  <2>4. \A o \in Obs : observations[o].state = "ABSENT"
    BY DEF Init, NoObservation
  <2>5. Bytes(Held, Obs) <= Threshold + Excess
    BY <2>2, <2>3, BoundTypes
  <2> QED
    BY <2>4, <2>5 DEF BytesInv
<1>2. /\ TypeOK /\ ObsInv /\ WatchedInv /\ ChargeCoversDisk /\ BytesInv
      /\ [Next]_vars
      => BytesInv'
  <2> SUFFICES ASSUME TypeOK, ObsInv, WatchedInv, ChargeCoversDisk, BytesInv, [Next]_vars
               PROVE  BytesInv'
    OBVIOUS
  <2>1. CASE UNCHANGED vars
    <3>1. Held' = Held /\ UNCHANGED observations
      BY <2>1 DEF vars, dbVars, obsVars, Held
    <3> QED
      BY <3>1 DEF BytesInv
  <2>2. CASE Next
    <3>1. TypeOK'
      BY <2>2, TypeKept
    <3> QED
      BY <2>2, <3>1, WriterBytes, AdmissionBytes, OtherBytes
  <2> QED
    BY <2>1, <2>2
<1>3. TypeOK /\ BytesInv => BytesWithinThreshold
  BY HeldSum DEF BytesInv, BytesWithinThreshold
<1> QED
  BY <1>1, <1>2, <1>3, TypeCorrect, ObsInvariant, WatchedInvariant, ChargeCoversDiskHolds,
     PTL DEF Spec

-----------------------------------------------------------------------------
(* The account of the rows.                                                 *)

(* An observation never has more bytes than there are of one.               *)
HeldInv == \A o \in Obs : Held[o] <= MaxBytes

LEMMA HeldInvariant == Spec => []HeldInv
<1>1. Init => HeldInv
  BY BoundTypes DEF Init, Held, HeldInv
<1>2. TypeOK /\ ObsInv /\ HeldInv /\ [Next]_vars => HeldInv'
  <2> SUFFICES ASSUME TypeOK, ObsInv, HeldInv, [Next]_vars, NEW o \in Obs
               PROVE  Held'[o] <= MaxBytes
    BY DEF HeldInv
  <2>1. TypeOK' /\ Held[o] <= MaxBytes
    BY TypeKept DEF HeldInv
  <2>2. CASE UNCHANGED vars
    BY <2>1, <2>2 DEF vars, obsVars, Held
  <2>3. CASE Next /\ ~ \E u \in Obs : WriterWrites(u)
    <3>1. Held'[o] <= Held[o] /\ Held[o] \in Nat /\ Held'[o] \in Nat
      BY <2>1, <2>3, HeldShrinks, HeldType
    <3> QED
      BY <2>1, <3>1, BoundTypes
  <2>4. ASSUME NEW u \in Obs, WriterWrites(u) PROVE Held'[o] <= MaxBytes
    <3>1. /\ disk[u] + quarantined[u] < MaxBytes
          /\ disk[u] \in Nat /\ quarantined[u] \in Nat
      BY <2>4 DEF WriterWrites, TypeOK
    <3>2. \/ disk' = [disk EXCEPT ![u] = @ + 1] /\ UNCHANGED quarantined
          \/ quarantined' = [quarantined EXCEPT ![u] = @ + 1] /\ UNCHANGED disk
      BY <2>4 DEF WriterWrites
    <3>3. CASE o = u
      <4>1. disk'[o] + quarantined'[o] = disk[o] + quarantined[o] + 1
        BY <3>1, <3>2, <3>3 DEF TypeOK
      <4> QED
        BY <3>1, <3>3, <4>1, BoundTypes DEF Held
    <3>4. CASE o # u
      <4>1. disk'[o] = disk[o] /\ quarantined'[o] = quarantined[o]
        BY <3>2, <3>4 DEF TypeOK
      <4> QED
        BY <2>1, <4>1 DEF Held
    <3> QED
      BY <3>3, <3>4
  <2> QED
    BY <2>2, <2>3, <2>4
<1> QED
  BY <1>1, <1>2, TypeCorrect, ObsInvariant, PTL DEF Spec

UnderWay(o) == observations[o].state \in {"PLANNED", "OBSERVING"}

LogicalInv ==
    /\ (\E o \in Obs : UnderWay(o)) => Bytes(Charge, Obs) <= Threshold
    /\ Bytes(Charge, Obs) <= Threshold + WarnedExcess

LEMMA WarnedTypes == WarnedExcess \in Nat
  BY BoundTypes DEF WarnedExcess

(* An admission fits with all that is charged.                              *)
LEMMA AdmissionLogical ==
    ASSUME TypeOK, TypeOK', ChargedInv, NEW o \in Obs, Admitted(o)
    PROVE  LogicalInv'
<1>1. Bytes(Charge', Obs) <= Threshold /\ Bytes(Charge', Obs) \in Nat
  BY AdmissionCharges, BytesOfCharge
<1>2. Threshold \in Nat /\ WarnedExcess \in Nat /\ WarnedExcess' = WarnedExcess
  BY BoundTypes, WarnedTypes DEF WarnedExcess, Excess
<1> QED
  BY <1>1, <1>2 DEF LogicalInv

(* The one observation under way exchanges its reservation for its size.    *)
LEMMA OverrunLogical ==
    ASSUME TypeOK, TypeOK', ObsInv, HeldInv, LogicalInv, Next,
           \A u \in Obs : ~ Admitted(u), NEW o \in Obs, Overruns(o)
    PROVE  LogicalInv'
<1>1. overrun = "warn" /\ observations'[o].size = disk[o]
  BY OverrunIsWarned
<1>2. WarnedExcess = Excess /\ WarnedExcess' = WarnedExcess
  BY <1>1 DEF TypeOK, WarnedExcess, Excess
<1>3. Charge[o] = Reservation /\ Charge'[o] = disk[o]
  BY <1>1 DEF Charge, Overruns, ObsInv, RowMatchesDisk
<1>4. disk[o] <= MaxBytes /\ disk[o] \in Nat
  <2>1. disk[o] + quarantined[o] <= MaxBytes /\ disk[o] \in Nat /\ quarantined[o] \in Nat
    BY DEF HeldInv, Held, TypeOK
  <2> QED
    BY <2>1, BoundTypes
<1>5. \A u \in Obs \ {o} : ~ UnderWay(u)
  BY DEF UnderWay, Overruns, ObsInv, OneActive
<1>6. Charge \in [Obs -> Nat] /\ Charge' \in [Obs -> Nat]
  BY ChargeType
<1>7. \A u \in Obs \ {o} : Charge'[u] <= Charge[u]
  BY <1>5, ChargeShrinks DEF UnderWay, Overruns
<1>8. Bytes(Charge', Obs \ {o}) <= Bytes(Charge, Obs \ {o})
  BY <1>6, <1>7, BytesMonotonic
<1>9. /\ Bytes(Charge', Obs) = Bytes(Charge', Obs \ {o}) + Charge'[o]
      /\ Bytes(Charge, Obs) = Bytes(Charge, Obs \ {o}) + Charge[o]
      /\ Bytes(Charge', Obs \ {o}) \in Nat /\ Bytes(Charge, Obs \ {o}) \in Nat
  BY <1>6, BytesAt, BytesAre
<1>10. Bytes(Charge, Obs) <= Threshold
  BY DEF LogicalInv, UnderWay, Overruns
<1>11. Bytes(Charge', Obs) <= Threshold + WarnedExcess'
  BY <1>2, <1>3, <1>4, <1>8, <1>9, <1>10, BoundTypes
<1>12. \A u \in Obs : ~ UnderWay(u)'
  BY <1>5, EveryRowMoves DEF UnderWay, Overruns, RowMoves, Ends, Removed, Removing
<1> QED
  BY <1>11, <1>12 DEF LogicalInv

LEMMA OtherLogical ==
    ASSUME TypeOK, TypeOK', ObsInv, LogicalInv, Next,
           \A u \in Obs : ~ Admitted(u) /\ ~ Overruns(u)
    PROVE  LogicalInv'
<1>1. Bytes(Charge', Obs) <= Bytes(Charge, Obs)
  BY ChargesShrink
<1>2. \A u \in Obs : UnderWay(u)' => UnderWay(u)
  BY EveryRowMoves DEF UnderWay, RowMoves, Ends, Removed, Removing
<1>3. Bytes(Charge', Obs) \in Nat /\ Bytes(Charge, Obs) \in Nat
  BY BytesOfCharge
<1>4. Threshold \in Nat /\ WarnedExcess \in Nat /\ WarnedExcess' = WarnedExcess
  BY BoundTypes, WarnedTypes DEF WarnedExcess, Excess
<1> QED
  BY <1>1, <1>2, <1>3, <1>4 DEF LogicalInv

(* ADR-002's logical invariant, whatever docker, the operating system and   *)
(* the commands do: what is stored and what is reserved fit the threshold   *)
(* while anything is reserved, and else exceed it only where `warn` lets an *)
(* overrun pass, by what that one observation exceeds its reservation       *)
(* (scheduler.py, can_admit and _observe; store.py, logical_storage).       *)
THEOREM LogicalWithinThresholdHolds == Spec => []LogicalWithinThreshold
<1>1. Init => LogicalInv
  <2> SUFFICES ASSUME Init PROVE LogicalInv
    OBVIOUS
  <2>1. /\ Charge \in [Obs -> Nat] /\ \A o \in Obs : Charge[o] = 0
        /\ \A o \in Obs : ~ UnderWay(o)
    BY DEF Init, NoObservation, Charge, UnderWay
  <2>2. Bytes(Charge, Obs) <= Bytes(Charge, {})
    BY <2>1, BytesMonotonic
  <2>3. Bytes(Charge, {}) = 0 /\ Bytes(Charge, Obs) \in Nat
    BY <2>1, BytesEmpty, BytesAre
  <2> QED
    BY <2>1, <2>2, <2>3, BoundTypes, WarnedTypes DEF LogicalInv
<1>2. TypeOK /\ ObsInv /\ ChargedInv /\ HeldInv /\ LogicalInv /\ [Next]_vars => LogicalInv'
  <2> SUFFICES ASSUME TypeOK, ObsInv, ChargedInv, HeldInv, LogicalInv, [Next]_vars
               PROVE  LogicalInv'
    OBVIOUS
  <2>1. CASE UNCHANGED vars
    <3>1. UNCHANGED <<observations, Charge, WarnedExcess>>
      BY <2>1 DEF vars, dbVars, Charge, WarnedExcess, Excess
    <3> QED
      BY <3>1 DEF LogicalInv, UnderWay
  <2>2. CASE Next
    BY <2>2, TypeKept, AdmissionLogical, OverrunLogical, OtherLogical
  <2> QED
    BY <2>1, <2>2
<1>3. TypeOK /\ LogicalInv => LogicalWithinThreshold
  <2> SUFFICES ASSUME TypeOK, LogicalInv PROVE LogicalWithinThreshold
    OBVIOUS
  <2>1. LogicalUsed + LogicalReserved = Bytes(Charge, Obs)
    BY LogicalSum
  <2>2. ObservationsIn({"PLANNED", "OBSERVING"}) # {} => \E o \in Obs : UnderWay(o)
    BY DEF ObservationsIn, UnderWay
  <2> QED
    BY <2>1, <2>2 DEF LogicalInv, LogicalWithinThreshold
<1> QED
  BY <1>1, <1>2, <1>3, TypeCorrect, ObsInvariant, ChargedInvariant, HeldInvariant, PTL DEF Spec
=============================================================================
