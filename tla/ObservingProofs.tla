--------------------------- MODULE ObservingProofs ---------------------------
(***************************************************************************)
(* Theorems about Observing, for every set of observations, every number   *)
(* of commands and every bound: what the rows, the disk, the tasks and the *)
(* containers say of each other.                                           *)
(***************************************************************************)
EXTENDS Observing, FiniteSetTheorems, TLAPS

-----------------------------------------------------------------------------
(* The inductive invariant, under all faults.                               *)

Recovering == {"down", "kill", "recObserving", "recDeleting"}

Admitting == {"admit", "measure", "decide"}

(* What the row of o says of the data of o.                                 *)
RowMatchesDisk(o) ==
    /\ observations[o].state \in {"ABSENT", "PLANNED"} => raw[o] = {} /\ quarantined[o] = 0
    /\ observations[o].state \in {"DELETED", "INCONSISTENT"} => raw[o] = {}
    /\ observations[o].state # "DELETING" => "trash" \notin raw[o]
    /\ raw[o] = {} => disk[o] = 0
    /\ observations[o].state = "STORED" /\ raw[o] # {} => disk[o] = observations[o].size
    /\ observations[o].state = "DELETING" => disk[o] <= observations[o].size
    /\ observations[o].state \in {"PLANNED", "OBSERVING"} =>
           observations[o].reserved = Reservation

(* A container writes only for a row that is observed or failed, whatever   *)
(* docker does; a task and its row say the same.                            *)
TaskMatchesRow(o) ==
    /\ o \in writers => observations[o].state \in {"OBSERVING", "OBSERVE_FAILED"}
    /\ task[o] = "spawned" => observations[o].state = "PLANNED"
    /\ task[o] \in {"watching", "stopping"} => observations[o].state = "OBSERVING"
    /\ task[o] = "failing" => observations[o].state \in {"PLANNED", "OBSERVING"}
    /\ phase \in Recovering => task[o] = "none"

(* What a process has removed stays removed.                                *)
RemovalSteps == {"remove", "mark", "dropLive", "dropTrash", "dropMark"}

BehindIsGone(p) ==
    LET o == target[p][1] IN
    /\ step[p] \in RemovalSteps =>
           observations[o].state \in {"DELETING", "DELETED", "INCONSISTENT"}
    /\ step[p] \in RemovalSteps \ {"dropLive"} => "live" \notin raw[o]
    /\ step[p] \in {"mark", "dropMark"} => raw[o] = {}

(* At most one row is PLANNED or OBSERVING, none while can_admit computes,  *)
(* and recovery's list holds only rows that are OBSERVING.                  *)
OneActive ==
    /\ \A o \in Obs, u \in Obs :
           /\ observations[o].state \in {"PLANNED", "OBSERVING"}
           /\ observations[u].state \in {"PLANNED", "OBSERVING"}
           => o = u
    /\ phase \in Admitting =>
           \A o \in Obs : observations[o].state \notin {"PLANNED", "OBSERVING"}
    /\ phase = "recObserving" => \A o \in todo : observations[o].state = "OBSERVING"

ObsInv ==
    /\ \A o \in Obs : RowMatchesDisk(o) /\ TaskMatchesRow(o)
    /\ \A p \in Procs : BehindIsGone(p)
    /\ OneActive

-----------------------------------------------------------------------------
(* Bytes.  Every sum of the model is a number of units, so the theorems     *)
(* about finite sets say all that the proofs need of sums.                  *)

Units(sizes, S) == UNION {{o} \X (1 .. sizes[o]) : o \in S}

LEMMA PartSize ==
    ASSUME NEW o, NEW n \in Nat
    PROVE  IsFiniteSet({o} \X (1 .. n)) /\ Cardinality({o} \X (1 .. n)) = n
<1>1. IsFiniteSet(1 .. n) /\ Cardinality(1 .. n) = n
  BY FS_Interval
<1>2. IsFiniteSet({o}) /\ Cardinality({o}) = 1
  BY FS_Singleton
<1> QED
  BY <1>1, <1>2, FS_Product

LEMMA UnitsFinite ==
    ASSUME NEW sizes \in [Obs -> Nat], NEW S \in SUBSET Obs
    PROVE  IsFiniteSet(Units(sizes, S))
<1> DEFINE parts == {{o} \X (1 .. sizes[o]) : o \in S}
           part  == [o \in S |-> {o} \X (1 .. sizes[o])]
<1>1. IsFiniteSet(S)
  BY ObservingAssumption, FS_Subset
<1>2. part \in Surjection(S, parts)
  BY DEF Surjection
<1>3. IsFiniteSet(parts)
  <2> HIDE DEF parts, part
  <2> QED
    BY <1>1, <1>2, FS_Surjection
<1>4. ASSUME NEW T \in parts PROVE IsFiniteSet(T)
  <2>1. PICK o \in S : T = {o} \X (1 .. sizes[o])
    OBVIOUS
  <2>2. sizes[o] \in Nat
    OBVIOUS
  <2> QED
    BY <2>1, <2>2, PartSize
<1> QED
  BY <1>3, <1>4, FS_UNION DEF Units

LEMMA BytesAre ==
    ASSUME NEW sizes \in [Obs -> Nat], NEW S \in SUBSET Obs
    PROVE  /\ Bytes(sizes, S) = Cardinality(Units(sizes, S))
           /\ Bytes(sizes, S) \in Nat
  BY UnitsFinite, FS_CardinalityType DEF Bytes, Units

LEMMA BytesEmpty ==
    ASSUME NEW sizes \in [Obs -> Nat]
    PROVE  Bytes(sizes, {}) = 0
<1>1. Units(sizes, {}) = {}
  BY DEF Units
<1> QED
  BY <1>1, BytesAre, FS_EmptySet

(* Sizes that are not larger, over observations that are not more.          *)
LEMMA BytesMonotonic ==
    ASSUME NEW f \in [Obs -> Nat], NEW g \in [Obs -> Nat],
           NEW S \in SUBSET Obs, NEW T \in SUBSET Obs,
           \A o \in S : f[o] = 0 \/ (o \in T /\ f[o] <= g[o])
    PROVE  Bytes(f, S) <= Bytes(g, T)
<1>1. ASSUME NEW u \in Units(f, S) PROVE u \in Units(g, T)
  <2>1. PICK o \in S : u \in {o} \X (1 .. f[o])
    BY DEF Units
  <2>2. f[o] \in Nat /\ g[o] \in Nat /\ f[o] # 0
    BY <2>1
  <2>3. o \in T /\ u \in {o} \X (1 .. g[o])
    BY <2>1, <2>2
  <2> QED
    BY <2>3 DEF Units
<1>2. Units(f, S) \in SUBSET Units(g, T)
  BY <1>1
<1> QED
  BY <1>2, BytesAre, UnitsFinite, FS_Subset

LEMMA BytesSame ==
    ASSUME NEW f \in [Obs -> Nat], NEW g \in [Obs -> Nat], NEW S \in SUBSET Obs,
           \A o \in S : f[o] = g[o]
    PROVE  Bytes(f, S) = Bytes(g, S)
  BY BytesMonotonic, BytesAre

(* One observation taken out of the sum.                                    *)
LEMMA BytesAt ==
    ASSUME NEW sizes \in [Obs -> Nat], NEW S \in SUBSET Obs, NEW o \in S
    PROVE  Bytes(sizes, S) = Bytes(sizes, S \ {o}) + sizes[o]
<1> DEFINE part == {o} \X (1 .. sizes[o])
           rest == Units(sizes, S \ {o})
<1>1. Units(sizes, S) = rest \cup part
  BY DEF Units
<1>2. rest \cap part = {}
  BY DEF Units
<1>3. IsFiniteSet(rest) /\ IsFiniteSet(part) /\ Cardinality(part) = sizes[o]
  BY UnitsFinite, PartSize
<1>4. Cardinality(rest \cup part) = Cardinality(rest) + Cardinality(part)
  <2> HIDE DEF part, rest
  <2>1. Cardinality(rest \cup part)
            = Cardinality(rest) + Cardinality(part) - Cardinality(rest \cap part)
    BY <1>3, FS_Union
  <2>2. Cardinality(rest) \in Nat /\ Cardinality(part) \in Nat
    BY <1>3, FS_CardinalityType
  <2> QED
    BY <1>2, <2>1, <2>2, FS_EmptySet
<1>5. Bytes(sizes, S \ {o}) = Cardinality(rest) /\ Bytes(sizes, S) = Cardinality(rest \cup part)
  BY <1>1, BytesAre
<1> QED
  BY <1>3, <1>4, <1>5

-----------------------------------------------------------------------------
(* Type correctness.                                                        *)

AuxSizes == [match : BOOLEAN, quarantine : Nat, trash : Nat]

DiskTypeOK ==
    /\ raw \in [Obs -> SUBSET Places]
    /\ disk \in [Obs -> Nat]
    /\ quarantined \in [Obs -> Nat]
    /\ aux \in AuxSizes

ProcsTypeOK ==
    /\ step \in [Procs -> FinishSteps \cup DropSteps \cup {"idle"}]
    /\ target \in [Procs -> RunIds \cup {None}]
    /\ \A p \in Procs : step[p] # "idle" => target[p] \in RunIds

ControlTypeOK ==
    /\ writers \subseteq Obs
    /\ phase \in Phases
    /\ todo \subseteq Obs
    /\ charged \in Nat
    /\ overrun \in OverrunActions \cup {"unset"}
    /\ task \in [Obs -> Tasks]

LEMMA TypeParts ==
    /\ TypeOK <=> StoreTypeOK /\ DiskTypeOK /\ ProcsTypeOK /\ ControlTypeOK
    /\ TypeOK' <=> StoreTypeOK' /\ DiskTypeOK' /\ ProcsTypeOK' /\ ControlTypeOK'
  BY DEF TypeOK, DiskTypeOK, ProcsTypeOK, ControlTypeOK, AuxSizes

LEMMA AuxTypes ==
    ASSUME TypeOK
    PROVE  /\ aux \in AuxSizes /\ NoCache \in AuxSizes
           /\ \A b \in BOOLEAN : [aux EXCEPT !.match = b] \in AuxSizes
           /\ \A n \in Nat, m \in Nat : [aux EXCEPT !.quarantine = n, !.trash = m] \in AuxSizes
<1>1. aux \in AuxSizes
  BY TypeParts DEF DiskTypeOK
<1> QED
  BY <1>1 DEF AuxSizes, NoCache

LEMMA ShowsChangeType ==
    ASSUME TypeOK, ShowsChange
    PROVE  aux' \in AuxSizes
  BY AuxTypes DEF ShowsChange

LEMMA BytesTypes ==
    ASSUME TypeOK
    PROVE  /\ LogicalUsed \in Nat /\ LogicalReserved \in Nat
           /\ TrashBytes \in Nat /\ QuarantineBytes \in Nat /\ DiskBytes \in Nat
<1>1. /\ [o \in Obs |-> observations[o].size] \in [Obs -> Nat]
      /\ [o \in Obs |-> observations[o].reserved] \in [Obs -> Nat]
  BY DEF TypeOK, StoreTypeOK, ObservationRows
<1>2. disk \in [Obs -> Nat] /\ quarantined \in [Obs -> Nat]
  BY DEF TypeOK
<1>3. /\ \A states : ObservationsIn(states) \in SUBSET Obs
      /\ {o \in Obs : "trash" \in raw[o] /\ "live" \notin raw[o]} \in SUBSET Obs
  BY DEF ObservationsIn
<1> QED
  BY <1>1, <1>2, <1>3, BytesAre
     DEF LogicalUsed, LogicalReserved, TrashBytes, QuarantineBytes, DiskBytes

LEMMA TransitionType ==
    ASSUME StoreTypeOK, NEW o \in Obs, NEW from, NEW to, NEW size \in Nat,
           NEW reserved \in Nat, TransitionObservation(o, from, to, size, reserved)
    PROVE  StoreTypeOK'
<1>1. to \in ObservationStates
  BY DEF TransitionObservation, ObsTransitions, ObservationStates
<1> QED
  BY <1>1 DEF TransitionObservation, StoreTypeOK, ObservationRows

LEMMA FailType ==
    ASSUME StoreTypeOK, NEW o \in Obs,
           \/ FailObserving(o)
           \/ \E from : TransitionObservation(o, from, "OBSERVE_FAILED", observations[o].size, 0)
           \/ UNCHANGED dbVars
    PROVE  StoreTypeOK'
<1>1. observations[o].size \in Nat
  BY DEF StoreTypeOK, ObservationRows
<1> QED
  BY <1>1, TransitionType DEF FailObserving, StoreTypeOK, dbVars

LEMMA QuarantineType ==
    ASSUME DiskTypeOK, NEW S, Quarantine(S) \/ NothingMoved
    PROVE  DiskTypeOK'
<1>1. CASE Quarantine(S)
  <2>1. raw' \in [Obs -> SUBSET Places] /\ disk' \in [Obs -> Nat]
    BY <1>1 DEF Quarantine, Moves, DiskTypeOK
  <2>2. quarantined' \in [Obs -> Nat]
    BY <1>1 DEF Quarantine, DiskTypeOK
  <2>3. aux' \in AuxSizes
    BY <1>1 DEF Quarantine, Invalidates, NoCache, DiskTypeOK, AuxSizes
  <2> QED
    BY <2>1, <2>2, <2>3 DEF DiskTypeOK
<1>2. CASE NothingMoved
  BY <1>2 DEF NothingMoved, DiskTypeOK
<1> QED
  BY <1>1, <1>2

LEMMA BecomeType ==
    ASSUME ProcsTypeOK, NEW p \in Procs,
           \/ Leave(p)
           \/ \E s \in FinishSteps \cup DropSteps, r \in RunIds : Become(p, s, r)
    PROVE  ProcsTypeOK'
  BY DEF ProcsTypeOK, Leave, Become

LEMMA InitType == Init => TypeOK
<1> SUFFICES ASSUME Init PROVE TypeOK
  OBVIOUS
<1>1. StoreTypeOK
  <2>1. NoObservation \in ObservationRows /\ NoRun \in RunRows
    BY DEF NoObservation, NoRun, ObservationRows, RunRows
  <2> QED
    BY <2>1 DEF Init, StoreTypeOK
<1>2. DiskTypeOK
  BY DEF Init, DiskTypeOK, NoCache, AuxSizes
<1>3. ProcsTypeOK /\ ControlTypeOK
  BY DEF Init, ProcsTypeOK, ControlTypeOK, Phases, Tasks
<1> QED
  BY <1>1, <1>2, <1>3, TypeParts

LEMMA ContainersType == TypeOK /\ Containers => TypeOK'
<1> SUFFICES ASSUME TypeOK, NEW o \in Obs, WriterWrites(o) \/ WriterExits(o) PROVE TypeOK'
  BY DEF Containers
<1>1. DiskTypeOK'
  BY TypeParts DEF WriterWrites, WriterExits, DiskTypeOK, Places
<1>2. StoreTypeOK' /\ ProcsTypeOK' /\ ControlTypeOK'
  BY DEF WriterWrites, WriterExits, TypeOK, StoreTypeOK, ProcsTypeOK, ControlTypeOK, dbVars
<1> QED
  BY <1>1, <1>2, TypeParts

LEMMA TasksType == TypeOK /\ (\E o \in Obs : TaskMoves(o)) => TypeOK'
<1> SUFFICES ASSUME TypeOK, NEW o \in Obs, TaskMoves(o) PROVE TypeOK'
  OBVIOUS
<1>1. PICK where \in Tasks : TaskGoesTo(o, where)
  BY DEF TaskMoves, ObserveStarts, ObserveRaisesBeforeStart, WatchdogAborts, ObserveAborted,
         ObserveCompletes, ObserveFails, ObserveRaises, HandlerFails, Tasks
<1>2. ProcsTypeOK' /\ ControlTypeOK'
  <2>1. writers' \subseteq Obs
    BY DEF TaskMoves, ObserveStarts, ObserveRaisesBeforeStart, WatchdogAborts,
           ObserveAborted, ObserveCompletes, ObserveFails, ObserveRaises, HandlerFails,
           StopsWriter, TypeOK
  <2> QED
    BY <1>1, <2>1 DEF TaskGoesTo, TypeOK, ProcsTypeOK, ControlTypeOK
<1>3. DiskTypeOK'
  <2>1. NothingMoved \/ Quarantine({o})
    BY DEF TaskMoves, ObserveStarts, ObserveRaisesBeforeStart, WatchdogAborts,
           ObserveAborted, ObserveCompletes, ObserveFails, ObserveRaises, HandlerFails,
           TriesToQuarantine
  <2> QED
    BY <2>1, QuarantineType, TypeParts
<1>4. StoreTypeOK'
  <2>1. /\ StoreTypeOK /\ disk[o] \in Nat /\ observations[o].size \in Nat
        /\ observations[o].reserved \in Nat
    BY DEF TypeOK, StoreTypeOK, ObservationRows
  <2>2. CASE ObserveStarts(o)
    BY <2>1, <2>2, TransitionType DEF ObserveStarts
  <2>3. CASE ObserveCompletes(o)
    BY <2>1, <2>3, TransitionType DEF ObserveCompletes
  <2>4. CASE ~ ObserveStarts(o) /\ ~ ObserveCompletes(o)
    BY <2>1, <2>4, FailType
       DEF TaskMoves, ObserveRaisesBeforeStart, WatchdogAborts, ObserveAborted,
           ObserveFails, ObserveRaises, HandlerFails
  <2> QED
    BY <2>2, <2>3, <2>4
<1> QED
  BY <1>2, <1>3, <1>4, TypeParts

LEMMA TicksType == TypeOK /\ Ticks => TypeOK'
<1> SUFFICES ASSUME TypeOK, Ticks PROVE TypeOK'
  OBVIOUS
<1>1. ProcsTypeOK'
  BY DEF Ticks, TickSweep, TickResume, TickSignature, TickMeasure, TickAdmit, TypeOK,
         ProcsTypeOK
<1>2. DiskTypeOK'
  <2>1. CASE TickSweep
    BY <2>1, QuarantineType, TypeParts DEF TickSweep
  <2>2. CASE TickResume \/ TickSignature \/ TickMeasure \/ TickAdmit
    <3>1. UNCHANGED <<raw, disk, quarantined>>
      BY <2>2 DEF TickResume, TickSignature, TickMeasure, TickAdmit
    <3>2. aux' \in AuxSizes
      BY <2>2, BytesTypes, AuxTypes DEF TickResume, TickSignature, TickMeasure, TickAdmit
    <3> QED
      BY <3>1, <3>2, TypeParts DEF DiskTypeOK
  <2> QED
    BY <2>1, <2>2 DEF Ticks
<1>3. StoreTypeOK'
  <2>1. CASE TickSweep
    <3>1. ASSUME NEW o \in Obs
          PROVE  [observations[o] EXCEPT !.state = "OBSERVE_FAILED", !.reserved = 0]
                     \in ObservationRows
      <4>1. observations[o] \in ObservationRows
        BY DEF TypeOK, StoreTypeOK
      <4> QED
        BY <4>1 DEF ObservationRows, ObservationStates
    <3> QED
      BY <2>1, <3>1 DEF TickSweep, TypeOK, StoreTypeOK
  <2>2. ASSUME NEW o \in Obs, Admit(o) PROVE StoreTypeOK'
    BY <2>2, ObservingAssumption
       DEF Admit, InsertObservation, TypeOK, StoreTypeOK, ObservationRows, ObservationStates
  <2>3. CASE UNCHANGED dbVars
    BY <2>3 DEF TypeOK, StoreTypeOK, dbVars
  <2> QED
    BY <2>1, <2>2, <2>3 DEF Ticks, TickResume, TickSignature, TickMeasure, TickAdmit
<1>4. ControlTypeOK'
  <2>1. task' \in [Obs -> Tasks]
    BY DEF Ticks, TickSweep, TickResume, TickSignature, TickMeasure, TickAdmit, Admit, TypeOK,
           Tasks
  <2>2. charged' \in Nat
    <3>1. CASE TickResume
      <4>1. LogicalUsed + LogicalReserved \in Nat
        BY BytesTypes
      <4> QED
        BY <3>1, <4>1 DEF TickResume
    <3>2. CASE ~ TickResume
      <4>1. charged' = charged \/ charged' = 0
        BY <3>2 DEF Ticks, TickSweep, TickSignature, TickMeasure, TickAdmit
      <4> QED
        BY <4>1 DEF TypeOK
    <3> QED
      BY <3>1, <3>2
  <2>3. phase' \in Phases /\ UNCHANGED <<writers, todo, overrun>>
    BY DEF Ticks, TickSweep, TickResume, TickSignature, TickMeasure, TickAdmit, Advance, Phases
  <2> QED
    BY <2>1, <2>2, <2>3 DEF TypeOK, ControlTypeOK
<1> QED
  BY <1>1, <1>2, <1>3, <1>4, TypeParts

LEMMA RecoveryType == TypeOK /\ (Recovery \/ ControllerCrash) => TypeOK'
<1> SUFFICES ASSUME TypeOK, Recovery \/ ControllerCrash PROVE TypeOK'
  OBVIOUS
<1>0. Controller \in Procs
  BY ObservingAssumption
<1>1. ProcsTypeOK'
  <2>1. \/ UNCHANGED <<step, target>>
        \/ Leave(Controller)
        \/ \E o \in Obs : Become(Controller, "rename", <<o, 1>>)
    BY DEF Recovery, ControllerStart, KillManaged, RecoverObserving, RecoverObservingFails,
           Recovers, RecoverDeletion, RecoverObservingDone, RecoverStored, ControllerCrash
  <2>2. \A o \in Obs : <<o, 1>> \in RunIds
    BY StoreAssumption DEF RunIds, Attempts
  <2>3. CASE UNCHANGED <<step, target>>
    BY <2>3 DEF TypeOK, ProcsTypeOK
  <2> QED
    BY <1>0, <2>1, <2>2, <2>3, BecomeType, TypeParts DEF FinishSteps
<1>2. DiskTypeOK'
  <2>1. CASE ControllerCrash
    BY <2>1, AuxTypes, TypeParts DEF ControllerCrash, DiskTypeOK
  <2>2. CASE Recovery
    <3>1. \/ UNCHANGED <<raw, disk, quarantined, aux>>
          \/ \E o \in Obs : Quarantine({o}) \/ NothingMoved
      BY <2>2 DEF Recovery, ControllerStart, KillManaged, RecoverObserving,
             RecoverObservingFails, RecoverDeletion, RecoverObservingDone, RecoverStored
    <3> QED
      BY <3>1, QuarantineType, TypeParts DEF DiskTypeOK
  <2> QED
    BY <2>1, <2>2
<1>3. StoreTypeOK'
  <2>1. CASE UNCHANGED dbVars
    BY <2>1 DEF TypeOK, StoreTypeOK, dbVars
  <2>2. ASSUME NEW o \in Obs, RecoverObserving(o) PROVE StoreTypeOK'
    BY <2>2, FailType DEF RecoverObserving, TypeOK
  <2>3. CASE RecoverStored
    <3>1. [state |-> "INCONSISTENT", size |-> 0, reserved |-> 0] \in ObservationRows
      BY DEF ObservationRows, ObservationStates
    <3> QED
      BY <2>3, <3>1 DEF RecoverStored, TypeOK, StoreTypeOK
  <2> QED
    BY <2>1, <2>2, <2>3
       DEF Recovery, ControllerStart, KillManaged, RecoverObservingFails, RecoverDeletion,
           RecoverObservingDone, ControllerCrash
<1>4. ControlTypeOK'
  <2>1. writers' \subseteq Obs /\ todo' \subseteq Obs
    BY DEF Recovery, ControllerStart, KillManaged, RecoverObserving, RecoverObservingFails,
           Recovers, RecoverDeletion, RecoverObservingDone, RecoverStored, ControllerCrash,
           TypeOK, ObservationsIn
  <2>2. phase' \in Phases
    BY DEF Recovery, ControllerStart, KillManaged, RecoverObserving, RecoverObservingFails,
           Recovers, RecoverDeletion, RecoverObservingDone, RecoverStored, ControllerCrash,
           Advance, Phases
  <2>3. /\ charged' = charged \/ charged' = 0
        /\ UNCHANGED task \/ task' = [o \in Obs |-> "none"]
        /\ overrun' = overrun \/ overrun' \in OverrunActions \cup {"unset"}
    BY DEF Recovery, ControllerStart, KillManaged, RecoverObserving, RecoverObservingFails,
           Recovers, RecoverDeletion, RecoverObservingDone, RecoverStored, ControllerCrash
  <2>4. /\ charged' \in Nat /\ task' \in [Obs -> Tasks]
        /\ overrun' \in OverrunActions \cup {"unset"}
    BY <2>3 DEF TypeOK, Tasks
  <2> QED
    BY <2>1, <2>2, <2>4 DEF ControlTypeOK
<1> QED
  BY <1>1, <1>2, <1>3, <1>4, TypeParts

LEMMA DeletionStore ==
    ASSUME TypeOK, NEW p \in Procs, FinishStep(p) \/ DropStep(p)
    PROVE  StoreTypeOK'
<1>1. PICK o \in Obs : o = target[p][1]
  BY DEF FinishStep, FinishRename, FinishRemove, FinishMark, DropStep, DropLive, DropTrash,
         DropMark, TypeOK, RunIds
<1>2. UNCHANGED dbVars \/ \E from : TransitionObservation(o, from, "DELETED", 0, 0)
  BY <1>1 DEF FinishStep, FinishRename, FinishRemove, FinishMark, DropStep, DropLive,
              DropTrash, DropMark
<1> QED
  BY <1>2, TransitionType DEF TypeOK, StoreTypeOK, dbVars

LEMMA CommandsType == TypeOK /\ Commands => TypeOK'
<1> SUFFICES ASSUME TypeOK, Commands PROVE TypeOK'
  OBVIOUS
<1>0. \A o \in Obs : <<o, 1>> \in RunIds
  BY StoreAssumption DEF RunIds, Attempts
<1>1. ASSUME NEW p \in Procs, NEW o \in Obs, CommandVerdict(p, o) PROVE TypeOK'
  <2>1. StoreTypeOK'
    BY <1>1 DEF CommandVerdict, BeginDeletion, TypeOK, StoreTypeOK, ObservationRows,
                ObservationStates
  <2>2. ProcsTypeOK'
    BY <1>0, <1>1, BecomeType, TypeParts DEF CommandVerdict, FinishSteps
  <2>3. DiskTypeOK' /\ ControlTypeOK'
    BY <1>1, TypeParts DEF CommandVerdict, obsVars, DiskTypeOK, ControlTypeOK
  <2> QED
    BY <2>1, <2>2, <2>3, TypeParts
<1>2. ASSUME NEW p \in Procs, (\E o \in Obs : CommandResolve(p, o)) \/ CommandEnds(p)
      PROVE  TypeOK'
  <2>1. UNCHANGED <<dbVars, raw, obsVars>>
    BY <1>2 DEF CommandResolve, BeginDrop, CommandEnds, Abandon
  <2>2. ProcsTypeOK'
    BY <1>0, <1>2, BecomeType, TypeParts
       DEF CommandResolve, BeginDrop, CommandEnds, Abandon, DropSteps
  <2>3. StoreTypeOK' /\ DiskTypeOK' /\ ControlTypeOK'
    BY <2>1, TypeParts DEF dbVars, obsVars, StoreTypeOK, DiskTypeOK, ControlTypeOK
  <2> QED
    BY <2>2, <2>3, TypeParts
<1>3. ASSUME NEW p \in Procs, DeletionStep(p) PROVE TypeOK'
  <2>1. StoreTypeOK'
    BY <1>3, DeletionStore DEF DeletionStep
  <2>2. ProcsTypeOK'
    BY <1>3, BecomeType, TypeParts
       DEF DeletionStep, FinishStep, FinishRename, FinishRemove, FinishMark, DropStep,
           DropLive, DropTrash, DropMark, Continue, FinishSteps, DropSteps, TypeOK
  <2>3. raw' \in [Obs -> SUBSET Places]
    BY <1>3 DEF DeletionStep, FinishStep, FinishRename, FinishRemove, FinishMark, DropStep,
           DropLive, DropTrash, DropMark, TypeOK, Places
  <2>4. aux' \in AuxSizes
    BY <1>3, ShowsChangeType, AuxTypes DEF DeletionStep
  <2>5. DiskTypeOK' /\ ControlTypeOK'
    BY <1>3, <2>3, <2>4, TypeParts DEF DeletionStep, DiskTypeOK, ControlTypeOK
  <2> QED
    BY <2>1, <2>2, <2>5, TypeParts
<1>4. ASSUME NEW p \in Procs, DeletionPart(p) PROVE TypeOK'
  <2>1. PICK o \in Obs : o = target[p][1]
    BY <1>4 DEF DeletionPart, TypeOK, RunIds
  <2>2. disk[o] \in Nat
    BY DEF TypeOK
  <2>3. PICK left \in 0 .. disk[o] - 1 : disk' = [disk EXCEPT ![o] = left]
    BY <1>4, <2>1 DEF DeletionPart
  <2>4. disk' \in [Obs -> Nat]
    BY <2>2, <2>3 DEF TypeOK
  <2> QED
    BY <1>4, <2>4 DEF DeletionPart, TypeOK, StoreTypeOK, dbVars
<1>5. ASSUME NEW o \in Obs, Purge(o) PROVE TypeOK'
  <2>1. quarantined' \in [Obs -> Nat]
    BY <1>5 DEF Purge, TypeOK
  <2>2. aux' \in AuxSizes
    BY <1>5, ShowsChangeType, AuxTypes DEF Purge
  <2>3. StoreTypeOK' /\ ProcsTypeOK' /\ ControlTypeOK'
    BY <1>5 DEF Purge, TypeOK, StoreTypeOK, dbVars, ProcsTypeOK, ControlTypeOK
  <2> QED
    BY <1>5, <2>1, <2>2, <2>3, TypeParts DEF Purge, DiskTypeOK
<1> QED
  BY <1>1, <1>2, <1>3, <1>4, <1>5 DEF Commands

(* Every size and every reservation stays a number and every state one of   *)
(* its table's: no transaction of any process writes anything else          *)
(* (store.py, scheduler.py).                                                *)
THEOREM TypeCorrect == Spec => []TypeOK
<1>1. TypeOK /\ [Next]_vars => TypeOK'
  <2> SUFFICES ASSUME TypeOK, [Next]_vars PROVE TypeOK'
    OBVIOUS
  <2>1. CASE UNCHANGED vars
    BY <2>1 DEF vars, dbVars, obsVars, TypeOK, StoreTypeOK
  <2> QED
    BY <2>1, ContainersType, TasksType, TicksType, RecoveryType, CommandsType DEF Next
<1> QED
  BY <1>1, InitType, PTL DEF Spec

-----------------------------------------------------------------------------
(* ObsInv is inductive: first what keeps each of its parts, whatever the    *)
(* action.                                                                  *)

Settled == {"STORED", "DELETING", "DELETED", "INCONSISTENT"}

Removing == {"DELETING", "DELETED", "INCONSISTENT"}

LEMMA RowKept ==
    ASSUME NEW o, RowMatchesDisk(o), observations'[o] = observations[o],
           raw'[o] = raw[o], disk'[o] = disk[o],
           quarantined'[o] = quarantined[o] \/ quarantined[o] # 0
    PROVE  RowMatchesDisk(o)'
  BY DEF RowMatchesDisk

(* The data of an OBSERVING row moved, or could not be.                     *)
LEMMA RowFails ==
    ASSUME NEW o, RowMatchesDisk(o),
           observations[o].state \in {"PLANNED", "OBSERVING"},
           \/ observations'[o].state = "OBSERVE_FAILED"
           \/ observations[o].state = "OBSERVING" /\ observations'[o] = observations[o],
           \/ raw'[o] = raw[o] /\ disk'[o] = disk[o]
           \/ raw'[o] = raw[o] \ {"live"} /\ disk'[o] = 0
    PROVE  RowMatchesDisk(o)'
  BY DEF RowMatchesDisk

LEMMA TaskKept ==
    ASSUME NEW o, TaskMatchesRow(o), observations'[o].state = observations[o].state,
           task'[o] = task[o] \/ task'[o] = "none", o \in writers' => o \in writers,
           phase' \in Recovering => phase \in Recovering \/ task'[o] = "none"
    PROVE  TaskMatchesRow(o)'
  BY DEF TaskMatchesRow

LEMMA TaskSettled ==
    ASSUME NEW o \in Obs, TypeOK, TaskMatchesRow(o), observations[o].state \in Settled,
           task'[o] = task[o], o \in writers' => o \in writers
    PROVE  TaskMatchesRow(o)'
<1>1. o \notin writers
  BY DEF TaskMatchesRow, Settled
<1>2. task[o] = "none"
  BY DEF TaskMatchesRow, Settled, TypeOK, Tasks
<1> QED
  BY <1>1, <1>2 DEF TaskMatchesRow

LEMMA BehindKept ==
    ASSUME NEW p \in Procs, BehindIsGone(p), step'[p] = step[p], target'[p] = target[p],
           LET o == target[p][1] IN
           observations[o].state \in Removing =>
               /\ observations'[o].state \in Removing
               /\ "live" \notin raw[o] => raw'[o] \subseteq raw[o]
    PROVE  BehindIsGone(p)'
  BY DEF BehindIsGone, Removing, RemovalSteps

(* No action makes anything of a row that is being removed but less.        *)
Removes(o) ==
    observations[o].state \in Removing =>
        /\ observations'[o].state \in Removing
        /\ "live" \notin raw[o] => raw'[o] \subseteq raw[o]

LEMMA AllBehindKept ==
    ASSUME TypeOK, \A p \in Procs : BehindIsGone(p), UNCHANGED <<step, target>>,
           \A o \in Obs : Removes(o)
    PROVE  \A p \in Procs : BehindIsGone(p)'
<1> TAKE p \in Procs
<1>1. CASE step[p] = "idle"
  BY <1>1 DEF BehindIsGone, RemovalSteps
<1>2. CASE step[p] # "idle"
  <2>1. target[p][1] \in Obs
    BY <1>2 DEF TypeOK, RunIds
  <2> QED
    BY <2>1, BehindKept DEF Removes
<1> QED
  BY <1>1, <1>2

LEMMA OneBehindChanges ==
    ASSUME TypeOK, \A p \in Procs : BehindIsGone(p), NEW q \in Procs,
           \A p \in Procs \ {q} : step'[p] = step[p] /\ target'[p] = target[p],
           \A o \in Obs : Removes(o),
           BehindIsGone(q)'
    PROVE  \A p \in Procs : BehindIsGone(p)'
<1> TAKE p \in Procs
<1>1. CASE p # q /\ step[p] = "idle"
  BY <1>1 DEF BehindIsGone, RemovalSteps
<1>2. CASE p # q /\ step[p] # "idle"
  <2>1. target[p][1] \in Obs
    BY <1>2 DEF TypeOK, RunIds
  <2> QED
    BY <1>2, <2>1, BehindKept DEF Removes
<1> QED
  BY <1>1, <1>2

LEMMA OneActiveKept ==
    ASSUME OneActive, TypeOK,
           \A o \in Obs : observations'[o].state \in {"PLANNED", "OBSERVING"} =>
                              observations[o].state \in {"PLANNED", "OBSERVING"},
           phase' \in Admitting =>
               \/ phase \in Admitting
               \/ \A o \in Obs : observations[o].state \notin {"PLANNED", "OBSERVING"},
           phase' = "recObserving" =>
               /\ phase = "recObserving"
               /\ todo' \subseteq todo
               /\ \A o \in todo' : observations'[o].state = observations[o].state
    PROVE  OneActive'
<1>1. todo \subseteq Obs
  BY DEF TypeOK
<1> QED
  BY <1>1 DEF OneActive

(* The containers write for rows that are observed or failed.               *)
LEMMA ContainersObsInv == TypeOK /\ ObsInv /\ Containers => ObsInv'
<1> SUFFICES ASSUME TypeOK, ObsInv, NEW o \in Obs, WriterWrites(o) \/ WriterExits(o)
             PROVE  ObsInv'
  BY DEF Containers
<1>1. UNCHANGED <<observations, step, target, phase, todo, task>> /\ writers' \subseteq writers
  BY DEF WriterWrites, WriterExits, dbVars
<1>2. \A u \in Obs : RowMatchesDisk(u) /\ TaskMatchesRow(u)
  BY DEF ObsInv
<1>3. o \in writers /\ observations[o].state \in {"OBSERVING", "OBSERVE_FAILED"}
  BY <1>2 DEF WriterWrites, WriterExits, TaskMatchesRow
<1>4. ASSUME NEW u \in Obs PROVE RowMatchesDisk(u)' /\ TaskMatchesRow(u)' /\ Removes(u)
  <2>1. TaskMatchesRow(u)'
    BY <1>1, <1>2, TaskKept
  <2>2. CASE u # o \/ WriterExits(o)
    <3>1. raw'[u] = raw[u] /\ disk'[u] = disk[u] /\ quarantined'[u] = quarantined[u]
      BY <2>2 DEF WriterWrites, WriterExits, TypeOK
    <3> QED
      BY <1>1, <1>2, <2>1, <3>1, RowKept DEF Removes
  <2>3. CASE u = o /\ WriterWrites(o)
    <3>1. /\ raw[o] \in SUBSET Places
          /\ \/ raw'[o] = raw[o] /\ disk'[o] = disk[o]
             \/ raw'[o] = raw[o] \cup {"live"}
      BY <2>3 DEF WriterWrites, TypeOK
    <3> QED
      BY <1>1, <1>2, <1>3, <2>1, <2>3, <3>1 DEF RowMatchesDisk, Removes, Removing
  <2> QED
    BY <2>2, <2>3
<1>5. \A p \in Procs : BehindIsGone(p)'
  BY <1>1, <1>4, AllBehindKept DEF ObsInv
<1>6. OneActive'
  BY <1>1, OneActiveKept DEF ObsInv
<1> QED
  BY <1>4, <1>5, <1>6 DEF ObsInv

(* A worker task changes its own row, between ticks.                        *)
LEMMA TasksFrame ==
    ASSUME TypeOK, NEW o \in Obs, TaskMoves(o)
    PROVE  /\ phase = "idle" /\ UNCHANGED <<step, target, phase, todo>>
           /\ \A u \in Obs \ {o} :
                  /\ observations'[u] = observations[u] /\ raw'[u] = raw[u]
                  /\ disk'[u] = disk[u] /\ quarantined'[u] = quarantined[u]
                  /\ task'[u] = task[u]
                  /\ u \in writers' => u \in writers
<1>1. PICK where : TaskGoesTo(o, where)
  BY DEF TaskMoves, ObserveStarts, ObserveRaisesBeforeStart, WatchdogAborts, ObserveAborted,
         ObserveCompletes, ObserveFails, ObserveRaises, HandlerFails
<1>2. phase = "idle"
  BY DEF TaskMoves, ObserveStarts, ObserveRaisesBeforeStart, WatchdogAborts, ObserveAborted,
         ObserveCompletes, ObserveFails, ObserveRaises, HandlerFails, TaskTurn, RunnerReturned
<1>3. NothingMoved \/ Quarantine({o})
  BY DEF TaskMoves, ObserveStarts, ObserveRaisesBeforeStart, WatchdogAborts, ObserveAborted,
         ObserveCompletes, ObserveFails, ObserveRaises, HandlerFails, TriesToQuarantine
<1>4. \/ UNCHANGED observations
      \/ \E from, to, size, reserved : TransitionObservation(o, from, to, size, reserved)
  BY DEF TaskMoves, ObserveStarts, ObserveRaisesBeforeStart, WatchdogAborts, ObserveAborted,
         ObserveCompletes, ObserveFails, ObserveRaises, HandlerFails, FailObserving, dbVars
<1>5. writers' \in {writers, writers \ {o}, writers \cup {o}}
  BY DEF TaskMoves, ObserveStarts, ObserveRaisesBeforeStart, WatchdogAborts, ObserveAborted,
         ObserveCompletes, ObserveFails, ObserveRaises, HandlerFails, StopsWriter
<1>6. ASSUME NEW u \in Obs \ {o}
      PROVE  raw'[u] = raw[u] /\ disk'[u] = disk[u] /\ quarantined'[u] = quarantined[u]
  BY <1>3 DEF NothingMoved, Quarantine, Moves
<1>7. ASSUME NEW u \in Obs \ {o} PROVE observations'[u] = observations[u]
  BY <1>4 DEF TransitionObservation, TypeOK, StoreTypeOK
<1> QED
  BY <1>1, <1>2, <1>5, <1>6, <1>7 DEF TaskGoesTo, TypeOK

LEMMA TaskRow ==
    ASSUME TypeOK, NEW o \in Obs, RowMatchesDisk(o), TaskMatchesRow(o), TaskMoves(o)
    PROVE  /\ RowMatchesDisk(o)' /\ TaskMatchesRow(o)'
           /\ observations[o].state \in {"PLANNED", "OBSERVING"}
<1>1. /\ phase = "idle" /\ phase' = "idle" /\ task[o] \in Tasks
      /\ observations[o] \in ObservationRows
      /\ raw[o] \in SUBSET Places /\ disk[o] \in Nat
  BY TasksFrame DEF TypeOK, StoreTypeOK
<1>2. ASSUME NEW from \in ObservationStates, NEW to \in ObservationStates, NEW size, NEW reserved,
             TransitionObservation(o, from, to, size, reserved)
      PROVE  /\ observations[o].state = from
             /\ observations'[o] = [state |-> to, size |-> size, reserved |-> reserved]
  BY <1>2 DEF TransitionObservation, TypeOK, StoreTypeOK
<1>3. Quarantine({o}) => raw'[o] = raw[o] \ {"live"} /\ disk'[o] = 0
  BY DEF Quarantine, Moves
<1>4. NothingMoved => raw'[o] = raw[o] /\ disk'[o] = disk[o] /\ quarantined'[o] = quarantined[o]
  BY DEF NothingMoved
<1>5. \A where : TaskGoesTo(o, where) => task'[o] = where
  BY DEF TaskGoesTo, TypeOK
<1>6. CASE ObserveStarts(o)
  <2>1. /\ observations[o].state = "PLANNED"
        /\ observations'[o] = [state |-> "OBSERVING", size |-> observations[o].size,
                               reserved |-> observations[o].reserved]
    BY <1>2, <1>6 DEF ObserveStarts, ObservationStates
  <2>2. task'[o] = "watching"
    BY <1>5, <1>6 DEF ObserveStarts
  <2>3. RowMatchesDisk(o)'
    BY <1>4, <1>6, <2>1 DEF ObserveStarts, RowMatchesDisk
  <2> QED
    BY <1>1, <2>1, <2>2, <2>3 DEF TaskMatchesRow, Recovering
<1>7. CASE ObserveRaisesBeforeStart(o) \/ WatchdogAborts(o)
  <2>1. /\ UNCHANGED <<observations, raw, disk, quarantined, writers>>
        /\ \/ task[o] = "spawned" /\ task'[o] = "failing"
           \/ task[o] = "watching" /\ task'[o] = "stopping"
    BY <1>5, <1>7 DEF ObserveRaisesBeforeStart, WatchdogAborts, NothingMoved, dbVars, TaskTurn
  <2>2. RowMatchesDisk(o)'
    BY <2>1, RowKept
  <2> QED
    BY <1>1, <2>1, <2>2 DEF TaskMatchesRow, Recovering
<1>8. CASE ObserveCompletes(o)
  <2>1. /\ observations[o].state = "OBSERVING"
        /\ observations'[o] = [state |-> "STORED", size |-> disk[o], reserved |-> 0]
    BY <1>2, <1>8 DEF ObserveCompletes, ObservationStates
  <2>2. task'[o] = "none" /\ o \notin writers'
    BY <1>5, <1>8 DEF ObserveCompletes, RunnerReturned
  <2>3. RowMatchesDisk(o)'
    BY <1>4, <1>8, <2>1 DEF ObserveCompletes, RowMatchesDisk
  <2> QED
    BY <1>1, <2>1, <2>2, <2>3 DEF TaskMatchesRow, Recovering
<1>9. CASE ObserveAborted(o) \/ ObserveFails(o) \/ ObserveRaises(o) \/ HandlerFails(o)
  <2>1. \/ /\ observations[o].state \in {"PLANNED", "OBSERVING"}
           /\ observations'[o].state = "OBSERVE_FAILED"
           /\ task'[o] = "none"
        \/ /\ observations'[o] = observations[o] /\ observations[o].state = "OBSERVING"
           /\ task'[o] \in {"none", "failing"}
        \/ /\ observations'[o] = observations[o] /\ observations[o].state = "PLANNED"
           /\ task'[o] = "none" /\ NothingMoved
    <3>1. ASSUME FailObserving(o)
          PROVE  observations[o].state = "OBSERVING" /\ observations'[o].state = "OBSERVE_FAILED"
      BY <3>1 DEF FailObserving, TransitionObservation, TypeOK, StoreTypeOK
    <3>2. ASSUME TransitionObservation(o, "PLANNED", "OBSERVE_FAILED", observations[o].size, 0)
          PROVE  observations[o].state = "PLANNED" /\ observations'[o].state = "OBSERVE_FAILED"
      BY <3>2 DEF TransitionObservation, TypeOK, StoreTypeOK
    <3>3. CASE ObserveAborted(o) \/ ObserveFails(o)
      BY <1>5, <3>1, <3>3 DEF ObserveAborted, ObserveFails
    <3>4. CASE ObserveRaises(o)
      <4>1. task[o] \in {"watching", "stopping"} /\ task'[o] = "failing" /\ UNCHANGED observations
        BY <1>5, <3>4 DEF ObserveRaises, RunnerReturned, TaskTurn, dbVars
      <4> QED
        BY <4>1 DEF TaskMatchesRow
    <3>5. CASE HandlerFails(o)
      <4>1. task[o] = "failing" /\ task'[o] = "none"
        BY <1>5, <3>5 DEF HandlerFails, TaskTurn
      <4>2. observations[o].state \in {"PLANNED", "OBSERVING"}
        BY <4>1 DEF TaskMatchesRow
      <4>3. \/ FailObserving(o)
            \/ observations[o].state = "OBSERVING" /\ UNCHANGED observations
            \/ TransitionObservation(o, "PLANNED", "OBSERVE_FAILED", observations[o].size, 0)
            \/ NothingMoved /\ UNCHANGED observations
        BY <3>5 DEF HandlerFails, dbVars
      <4> QED
        BY <3>1, <3>2, <4>1, <4>2, <4>3
    <3> QED
      BY <1>9, <3>3, <3>4, <3>5
  <2>2. NothingMoved \/ Quarantine({o})
    BY <1>9 DEF ObserveAborted, ObserveFails, ObserveRaises, HandlerFails, TriesToQuarantine
  <2>3. RowMatchesDisk(o)'
    <3>1. CASE observations'[o] = observations[o] /\ NothingMoved
      BY <1>4, <3>1, RowKept
    <3>2. CASE ~ (observations'[o] = observations[o] /\ NothingMoved)
      BY <1>3, <1>4, <2>1, <2>2, <3>2, RowFails
    <3> QED
      BY <3>1, <3>2
  <2>4. o \in writers' => o \in writers
    BY <1>9 DEF ObserveAborted, ObserveFails, ObserveRaises, HandlerFails, StopsWriter
  <2> QED
    BY <1>1, <2>1, <2>3, <2>4 DEF TaskMatchesRow, Recovering
<1> QED
  BY <1>6, <1>7, <1>8, <1>9 DEF TaskMoves

LEMMA TasksObsInv == TypeOK /\ ObsInv /\ (\E o \in Obs : TaskMoves(o)) => ObsInv'
<1> SUFFICES ASSUME TypeOK, ObsInv, NEW o \in Obs, TaskMoves(o) PROVE ObsInv'
  OBVIOUS
<1>1. \A u \in Obs : RowMatchesDisk(u) /\ TaskMatchesRow(u)
  BY DEF ObsInv
<1>2. /\ RowMatchesDisk(o)' /\ TaskMatchesRow(o)'
      /\ observations[o].state \in {"PLANNED", "OBSERVING"}
  BY <1>1, TaskRow
<1>3. ASSUME NEW u \in Obs \ {o} PROVE RowMatchesDisk(u)' /\ TaskMatchesRow(u)'
  <2>1. /\ observations'[u] = observations[u] /\ raw'[u] = raw[u]
        /\ disk'[u] = disk[u] /\ quarantined'[u] = quarantined[u]
        /\ task'[u] = task[u] /\ phase' = phase
        /\ u \in writers' => u \in writers
    BY TasksFrame
  <2>2. RowMatchesDisk(u)'
    BY <1>1, <2>1, RowKept
  <2>3. TaskMatchesRow(u)'
    BY <1>1, <2>1, TaskKept
  <2> QED
    BY <2>2, <2>3
<1>4. \A u \in Obs : Removes(u)
  BY <1>2, TasksFrame DEF Removes, Removing
<1>5. \A p \in Procs : BehindIsGone(p)'
  BY <1>4, TasksFrame, AllBehindKept DEF ObsInv
<1>6. OneActive'
  BY <1>2, TasksFrame, OneActiveKept DEF ObsInv, Admitting
<1> QED
  BY <1>2, <1>3, <1>5, <1>6 DEF ObsInv

(* The tick: the sweep fails what has no task, ...                          *)
LEMMA SweepObsInv == TypeOK /\ ObsInv /\ TickSweep => ObsInv'
<1> SUFFICES ASSUME TypeOK, ObsInv, TickSweep PROVE ObsInv'
  OBVIOUS
<1>1. \A u \in Obs : RowMatchesDisk(u) /\ TaskMatchesRow(u)
  BY DEF ObsInv
<1>2. /\ phase = "idle" /\ phase' = "sweep"
      /\ UNCHANGED <<step, target, writers, todo, task>>
  BY DEF TickSweep, Advance
<1>3. ASSUME NEW u \in Obs
      PROVE  /\ RowMatchesDisk(u)' /\ TaskMatchesRow(u)' /\ Removes(u)
             /\ observations'[u].state \in {observations[u].state, "OBSERVE_FAILED"}
  <2>1. CASE u \in Orphaned
    <3>1. observations[u].state = "OBSERVING" /\ task[u] = "none"
      BY <2>1 DEF Orphaned, ObservationsIn
    <3>2. observations'[u].state = "OBSERVE_FAILED"
      <4>1. observations'[u] = [observations[u] EXCEPT !.state = "OBSERVE_FAILED", !.reserved = 0]
        BY <2>1 DEF TickSweep
      <4>2. observations[u] \in ObservationRows
        BY DEF TypeOK, StoreTypeOK
      <4> QED
        BY <4>1, <4>2 DEF ObservationRows
    <3>3. \/ raw'[u] = raw[u] /\ disk'[u] = disk[u]
          \/ raw'[u] = raw[u] \ {"live"} /\ disk'[u] = 0
      BY <2>1 DEF TickSweep, NothingMoved, Quarantine, Moves
    <3>4. RowMatchesDisk(u)'
      BY <1>1, <3>1, <3>2, <3>3, RowFails
    <3>5. TaskMatchesRow(u)'
      BY <1>2, <3>1, <3>2 DEF TaskMatchesRow, Recovering
    <3> QED
      BY <3>1, <3>2, <3>4, <3>5 DEF Removes, Removing
  <2>2. CASE u \notin Orphaned
    <3>1. /\ observations'[u] = observations[u] /\ raw'[u] = raw[u]
          /\ disk'[u] = disk[u] /\ quarantined'[u] = quarantined[u]
      BY <2>2 DEF TickSweep, NothingMoved, Quarantine, Moves
    <3>2. RowMatchesDisk(u)'
      BY <1>1, <3>1, RowKept
    <3>3. TaskMatchesRow(u)'
      BY <1>1, <1>2, <3>1, TaskKept DEF Recovering
    <3> QED
      BY <3>1, <3>2, <3>3 DEF Removes
  <2> QED
    BY <2>1, <2>2
<1>4. \A p \in Procs : BehindIsGone(p)'
  BY <1>2, <1>3, AllBehindKept DEF ObsInv
<1>5. OneActive'
  BY <1>2, <1>3, OneActiveKept DEF ObsInv, Admitting
<1> QED
  BY <1>3, <1>4, <1>5 DEF ObsInv

(* ... a row that waits gets a task, the sums are read and computed, ...    *)
LEMMA ReadsObsInv ==
    TypeOK /\ ObsInv /\ (TickResume \/ TickSignature \/ TickMeasure) => ObsInv'
<1> SUFFICES ASSUME TypeOK, ObsInv, TickResume \/ TickSignature \/ TickMeasure PROVE ObsInv'
  OBVIOUS
<1>1. \A u \in Obs : RowMatchesDisk(u) /\ TaskMatchesRow(u)
  BY DEF ObsInv
<1>2. UNCHANGED <<observations, raw, disk, quarantined, step, target, writers, todo>>
  BY DEF TickResume, TickSignature, TickMeasure, dbVars
<1>3. /\ phase \notin Recovering /\ phase' \notin Recovering
      /\ phase' \in Admitting =>
             \/ phase \in Admitting
             \/ \A o \in Obs : observations[o].state \notin {"PLANNED", "OBSERVING"}
  BY DEF TickResume, TickSignature, TickMeasure, Advance, Recovering, Admitting, MayAdmit,
         ObservationsIn
<1>4. \A u \in Obs : RowMatchesDisk(u)'
  BY <1>1, <1>2, RowKept
<1>5. ASSUME NEW u \in Obs PROVE TaskMatchesRow(u)'
  <2>1. \/ task'[u] = task[u]
        \/ observations[u].state = "PLANNED" /\ task'[u] = "spawned"
    BY DEF TickResume, TickSignature, TickMeasure
  <2> QED
    BY <1>1, <1>2, <1>3, <2>1 DEF TaskMatchesRow
<1>6. \A p \in Procs : BehindIsGone(p)'
  BY <1>2, AllBehindKept DEF ObsInv, Removes
<1>7. OneActive'
  BY <1>2, <1>3, OneActiveKept DEF ObsInv, Recovering
<1> QED
  BY <1>4, <1>5, <1>6, <1>7 DEF ObsInv

(* ... and one observation more is planned, when none is.                   *)
LEMMA AdmitObsInv == TypeOK /\ ObsInv /\ TickAdmit => ObsInv'
<1> SUFFICES ASSUME TypeOK, ObsInv, TickAdmit PROVE ObsInv'
  OBVIOUS
<1>1. \A u \in Obs : RowMatchesDisk(u) /\ TaskMatchesRow(u)
  BY DEF ObsInv
<1>2. /\ phase = "decide" /\ phase' = "idle"
      /\ UNCHANGED <<raw, disk, quarantined, step, target, writers, todo>>
  BY DEF TickAdmit, Advance
<1>3. CASE UNCHANGED <<dbVars, task>>
  <2>1. \A u \in Obs : RowMatchesDisk(u)'
    BY <1>1, <1>2, <1>3, RowKept DEF dbVars
  <2>2. \A u \in Obs : TaskMatchesRow(u)'
    BY <1>1, <1>2, <1>3, TaskKept DEF dbVars, Recovering
  <2>3. \A p \in Procs : BehindIsGone(p)'
    BY <1>2, <1>3, AllBehindKept DEF ObsInv, Removes, dbVars
  <2>4. OneActive'
    BY <1>2, <1>3, OneActiveKept DEF ObsInv, dbVars, Admitting
  <2> QED
    BY <2>1, <2>2, <2>3, <2>4 DEF ObsInv
<1>4. ASSUME NEW o \in Obs, Admit(o) PROVE ObsInv'
  <2>1. /\ observations[o].state = "ABSENT"
        /\ observations'[o] = [state |-> "PLANNED", size |-> 0, reserved |-> Reservation]
        /\ task'[o] = "spawned"
        /\ \A u \in Obs \ {o} : observations'[u] = observations[u] /\ task'[u] = task[u]
    BY <1>4 DEF Admit, InsertObservation, TypeOK, StoreTypeOK
  <2>2. RowMatchesDisk(o)' /\ TaskMatchesRow(o)'
    BY <1>1, <1>2, <2>1 DEF RowMatchesDisk, TaskMatchesRow, Recovering
  <2>3. \A u \in Obs \ {o} : RowMatchesDisk(u)'
    BY <1>1, <1>2, <2>1, RowKept
  <2>4. \A u \in Obs \ {o} : TaskMatchesRow(u)'
    BY <1>1, <1>2, <2>1, TaskKept DEF Recovering
  <2>5. \A u \in Obs : Removes(u)
    BY <1>2, <2>1 DEF Removes, Removing
  <2>6. \A p \in Procs : BehindIsGone(p)'
    BY <1>2, <2>5, AllBehindKept DEF ObsInv
  <2>7. OneActive'
    BY <1>2, <2>1 DEF ObsInv, OneActive, Admitting
  <2> QED
    BY <2>2, <2>3, <2>4, <2>6, <2>7 DEF ObsInv
<1> QED
  BY <1>3, <1>4 DEF TickAdmit

(* A crash leaves containers and rows as they are; the start finds no task. *)
LEMMA CrashObsInv == TypeOK /\ ObsInv /\ ControllerCrash => ObsInv'
<1> SUFFICES ASSUME TypeOK, ObsInv, ControllerCrash PROVE ObsInv'
  OBVIOUS
<1>1. \A u \in Obs : RowMatchesDisk(u) /\ TaskMatchesRow(u)
  BY DEF ObsInv
<1>2. /\ UNCHANGED <<observations, raw, disk, quarantined, writers>>
      /\ phase' = "down" /\ \A u \in Obs : task'[u] = "none"
  BY DEF ControllerCrash, dbVars
<1>3. \A u \in Obs : RowMatchesDisk(u)'
  BY <1>1, <1>2, RowKept
<1>4. \A u \in Obs : TaskMatchesRow(u)'
  BY <1>1, <1>2, TaskKept
<1>5. \A p \in Procs : BehindIsGone(p)'
  <2>1. /\ Controller \in Procs /\ step'[Controller] = "idle"
        /\ \A p \in Procs \ {Controller} : step'[p] = step[p] /\ target'[p] = target[p]
    BY ObservingAssumption DEF ControllerCrash, Leave, Become, TypeOK
  <2>2. BehindIsGone(Controller)'
    BY <2>1 DEF BehindIsGone, RemovalSteps
  <2> QED
    BY <1>2, <2>1, <2>2, OneBehindChanges DEF ObsInv, Removes
<1>6. OneActive'
  BY <1>2, OneActiveKept DEF ObsInv, Admitting
<1> QED
  BY <1>3, <1>4, <1>5, <1>6 DEF ObsInv

(* Recovery fails what was interrupted, listed before it moves on.          *)
LEMMA RecoveryObsInv == TypeOK /\ ObsInv /\ Recovery => ObsInv'
<1> SUFFICES ASSUME TypeOK, ObsInv, Recovery PROVE ObsInv'
  OBVIOUS
<1>1. \A u \in Obs : RowMatchesDisk(u) /\ TaskMatchesRow(u)
  BY DEF ObsInv
<1>2. UNCHANGED task /\ writers' \subseteq writers /\ phase \in Recovering
  BY DEF Recovery, ControllerStart, KillManaged, RecoverObserving, RecoverObservingFails,
         Recovers, RecoverDeletion, RecoverObservingDone, RecoverStored, Advance, Recovering
<1>3. ASSUME NEW o \in Obs, RecoverObserving(o) \/ RecoverObservingFails(o) PROVE ObsInv'
  <2>1. /\ phase = "recObserving" /\ phase' = "recObserving" /\ o \in todo
        /\ todo' = todo \ {o} /\ UNCHANGED <<step, target>>
    BY <1>3 DEF RecoverObserving, RecoverObservingFails, Recovers, Advance
  <2>2. observations[o].state = "OBSERVING"
    BY <2>1 DEF ObsInv, OneActive
  <2>3. /\ observations'[o] = observations[o] \/ observations'[o].state = "OBSERVE_FAILED"
        /\ \A u \in Obs \ {o} : observations'[u] = observations[u]
    BY <1>3 DEF RecoverObserving, RecoverObservingFails, FailObserving, TransitionObservation,
                dbVars, TypeOK, StoreTypeOK
  <2>4. NothingMoved \/ Quarantine({o})
    BY <1>3 DEF RecoverObserving, RecoverObservingFails
  <2>5. /\ \A u \in Obs \ {o} : /\ raw'[u] = raw[u] /\ disk'[u] = disk[u]
                                /\ quarantined'[u] = quarantined[u]
        /\ \/ raw'[o] = raw[o] /\ disk'[o] = disk[o]
           \/ raw'[o] = raw[o] \ {"live"} /\ disk'[o] = 0
    BY <2>4 DEF NothingMoved, Quarantine, Moves
  <2>6. RowMatchesDisk(o)'
    BY <1>1, <2>2, <2>3, <2>5, RowFails
  <2>7. TaskMatchesRow(o)'
    BY <1>1, <1>2, <2>2, <2>3 DEF TaskMatchesRow
  <2>8. \A u \in Obs \ {o} : RowMatchesDisk(u)'
    BY <1>1, <2>3, <2>5, RowKept
  <2>9. \A u \in Obs \ {o} : TaskMatchesRow(u)'
    BY <1>1, <1>2, <2>3, TaskKept
  <2>10. \A u \in Obs : Removes(u)
    BY <2>2, <2>3, <2>5 DEF Removes, Removing
  <2>11. \A p \in Procs : BehindIsGone(p)'
    BY <2>1, <2>10, AllBehindKept DEF ObsInv
  <2>12. OneActive'
    <3>1. \A u \in todo' : u \in todo /\ u # o /\ u \in Obs
      BY <2>1 DEF TypeOK
    <3> QED
      BY <2>1, <2>2, <2>3, <3>1, OneActiveKept DEF ObsInv, Admitting
  <2> QED
    BY <2>6, <2>7, <2>8, <2>9, <2>11, <2>12 DEF ObsInv
<1>4. CASE RecoverStored
  <2>1. /\ UNCHANGED <<raw, disk, quarantined, step, target>> /\ phase' = "idle"
    BY <1>4 DEF RecoverStored, Advance
  <2>2. ASSUME NEW u \in Obs
        PROVE  \/ observations'[u] = observations[u]
               \/ /\ observations[u].state = "STORED" /\ "live" \notin raw[u]
                  /\ observations'[u] = [state |-> "INCONSISTENT", size |-> 0, reserved |-> 0]
    BY <1>4 DEF RecoverStored, ObservationsIn
  <2>3. ASSUME NEW u \in Obs PROVE RowMatchesDisk(u)' /\ TaskMatchesRow(u)' /\ Removes(u)
    <3>1. CASE observations'[u] = observations[u]
      <4>1. RowMatchesDisk(u)'
        BY <1>1, <2>1, <3>1, RowKept
      <4>2. TaskMatchesRow(u)'
        BY <1>1, <1>2, <3>1, TaskKept
      <4> QED
        BY <2>1, <3>1, <4>1, <4>2 DEF Removes
    <3>2. CASE observations'[u] # observations[u]
      <4>1. TaskMatchesRow(u)'
        BY <1>1, <1>2, <2>2, <3>2, TaskSettled DEF Settled
      <4>2. raw[u] = {}
        BY <1>1, <2>2, <3>2 DEF RowMatchesDisk, TypeOK, Places
      <4> QED
        BY <1>1, <2>1, <2>2, <3>2, <4>1, <4>2 DEF RowMatchesDisk, Removes, Removing
    <3> QED
      BY <3>1, <3>2
  <2>4. \A p \in Procs : BehindIsGone(p)'
    BY <2>1, <2>3, AllBehindKept DEF ObsInv
  <2>5. OneActive'
    BY <2>1, <2>2, OneActiveKept DEF ObsInv, Admitting
  <2> QED
    BY <2>3, <2>4, <2>5 DEF ObsInv
<1>5. CASE \/ ControllerStart \/ KillManaged \/ RecoverObservingDone
           \/ \E o \in Obs : RecoverDeletion(o)
  <2>1. UNCHANGED <<observations, raw, disk, quarantined>> /\ phase' \notin Admitting
    BY <1>5 DEF ControllerStart, KillManaged, RecoverObservingDone, RecoverDeletion, dbVars,
                Advance, Admitting
  <2>2. \A u \in Obs : RowMatchesDisk(u)'
    BY <1>1, <2>1, RowKept
  <2>3. \A u \in Obs : TaskMatchesRow(u)'
    BY <1>1, <1>2, <2>1, TaskKept
  <2>4. \A p \in Procs : BehindIsGone(p)'
    <3>1. CASE UNCHANGED <<step, target>>
      BY <2>1, <3>1, AllBehindKept DEF ObsInv, Removes
    <3>2. CASE \E o \in Obs : RecoverDeletion(o)
      <4>1. /\ Controller \in Procs /\ step'[Controller] = "rename"
            /\ \A p \in Procs \ {Controller} : step'[p] = step[p] /\ target'[p] = target[p]
        BY <3>2, ObservingAssumption DEF RecoverDeletion, Become, TypeOK
      <4>2. BehindIsGone(Controller)'
        BY <4>1 DEF BehindIsGone, RemovalSteps
      <4> QED
        BY <2>1, <4>1, <4>2, OneBehindChanges DEF ObsInv, Removes
    <3> QED
      BY <1>5, <3>1, <3>2 DEF ControllerStart, KillManaged, RecoverObservingDone
  <2>5. OneActive'
    <3>1. \/ phase' # "recObserving"
          \/ \A u \in todo' : observations[u].state = "OBSERVING"
      BY <1>5 DEF ControllerStart, KillManaged, RecoverObservingDone, RecoverDeletion, Advance,
                  ObservationsIn
    <3> QED
      BY <2>1, <3>1 DEF ObsInv, OneActive
  <2> QED
    BY <2>2, <2>3, <2>4, <2>5 DEF ObsInv
<1> QED
  BY <1>3, <1>4, <1>5 DEF Recovery

(* A command: its rows are settled before and after, and no task is its.    *)
LEMMA SettledObsInv ==
    ASSUME TypeOK, ObsInv, UNCHANGED <<writers, phase, todo, task>>,
           \A u \in Obs :
               /\ RowMatchesDisk(u)'
               /\ \/ observations'[u].state = observations[u].state
                  \/ observations[u].state \in Settled /\ observations'[u].state \in Settled,
           \A p \in Procs : BehindIsGone(p)'
    PROVE  ObsInv'
<1>1. ASSUME NEW u \in Obs PROVE TaskMatchesRow(u)'
  BY TaskKept, TaskSettled DEF ObsInv
<1>2. OneActive'
  <2>1. \A u \in Obs : \/ observations'[u].state = observations[u].state
                       \/ /\ observations[u].state \notin {"PLANNED", "OBSERVING"}
                          /\ observations'[u].state \notin {"PLANNED", "OBSERVING"}
    BY DEF Settled
  <2>2. todo \subseteq Obs
    BY DEF TypeOK
  <2> QED
    BY <2>1, <2>2 DEF ObsInv, OneActive
<1> QED
  BY <1>1, <1>2 DEF ObsInv

LEMMA VerdictObsInv ==
    ASSUME TypeOK, ObsInv, NEW p \in Procs, NEW o \in Obs, CommandVerdict(p, o)
    PROVE  ObsInv'
<1>1. \A u \in Obs : RowMatchesDisk(u)
  BY DEF ObsInv
<1>2. /\ UNCHANGED <<raw, disk, quarantined, writers, phase, todo, task>>
      /\ step'[p] = "rename"
      /\ \A q \in Procs \ {p} : step'[q] = step[q] /\ target'[q] = target[q]
  BY DEF CommandVerdict, obsVars, Become, TypeOK
<1>3. /\ observations[o].state = "STORED" /\ "live" \in raw[o]
      /\ observations'[o] = [observations[o] EXCEPT !.state = "DELETING"]
      /\ \A u \in Obs \ {o} : observations'[u] = observations[u]
  BY DEF CommandVerdict, BeginDeletion, TypeOK, StoreTypeOK
<1>4. observations'[o].state = "DELETING" /\ observations'[o].size = observations[o].size
  <2>1. observations[o] \in ObservationRows
    BY DEF TypeOK, StoreTypeOK
  <2> QED
    BY <1>3, <2>1 DEF ObservationRows
<1>5. RowMatchesDisk(o)'
  <2>1. disk[o] = observations[o].size /\ disk[o] \in Nat
    BY <1>1, <1>3 DEF RowMatchesDisk, TypeOK
  <2>2. raw'[o] # {} /\ disk'[o] <= observations'[o].size
    BY <1>2, <1>3, <1>4, <2>1
  <2> QED
    BY <1>4, <2>2 DEF RowMatchesDisk
<1>6. \A u \in Obs \ {o} : RowMatchesDisk(u)'
  BY <1>1, <1>2, <1>3, RowKept
<1>7. \A q \in Procs : BehindIsGone(q)'
  <2>1. BehindIsGone(p)'
    BY <1>2 DEF BehindIsGone, RemovalSteps
  <2>2. \A u \in Obs : Removes(u)
    BY <1>2, <1>3, <1>4 DEF Removes, Removing
  <2> QED
    BY <1>2, <2>1, <2>2, OneBehindChanges DEF ObsInv
<1> QED
  BY <1>2, <1>3, <1>4, <1>5, <1>6, <1>7, SettledObsInv DEF Settled

LEMMA BeginsAndEndsObsInv ==
    ASSUME TypeOK, ObsInv, NEW p \in Procs,
           (\E o \in Obs : CommandResolve(p, o)) \/ CommandEnds(p)
    PROVE  ObsInv'
<1>1. UNCHANGED <<observations, raw, disk, quarantined, writers, phase, todo, task>>
  BY DEF CommandResolve, BeginDrop, CommandEnds, Abandon, obsVars, dbVars
<1>2. \A u \in Obs : RowMatchesDisk(u)'
  BY <1>1, RowKept DEF ObsInv
<1>3. \A q \in Procs \ {p} : step'[q] = step[q] /\ target'[q] = target[q]
  BY DEF CommandResolve, BeginDrop, CommandEnds, Abandon, Leave, Become, TypeOK
<1>4. BehindIsGone(p)'
  <2>1. CASE CommandEnds(p)
    BY <2>1 DEF CommandEnds, Abandon, Leave, Become, TypeOK, BehindIsGone, RemovalSteps
  <2>2. ASSUME NEW o \in Obs, CommandResolve(p, o) PROVE BehindIsGone(p)'
    <3>1. step'[p] = "dropLive" /\ target'[p][1] = o
      BY <2>2 DEF CommandResolve, BeginDrop, Become, TypeOK
    <3>2. observations'[o].state \in {"DELETING", "INCONSISTENT"}
      BY <1>1, <2>2 DEF CommandResolve, BeginDrop
    <3> QED
      BY <3>1, <3>2 DEF BehindIsGone
  <2> QED
    BY <2>1, <2>2
<1>5. \A q \in Procs : BehindIsGone(q)'
  BY <1>1, <1>3, <1>4, OneBehindChanges DEF ObsInv, Removes
<1> QED
  BY <1>1, <1>2, <1>5, SettledObsInv

(* A step of a removal, by its effect on the row it works on.               *)
RemovalStep(p, o) ==
    /\ disk'[o] = IF raw'[o] = {} THEN 0 ELSE disk[o]
    /\ observations[o].state \in Removing
    /\ \/ /\ observations'[o] = observations[o]
          /\ target'[p] = target[p]
          /\ \/ /\ step'[p] = "remove" /\ observations[o].state = "DELETING"
                /\ raw'[o] = IF "live" \in raw[o] THEN {"trash"} ELSE raw[o]
             \/ /\ step[p] = "remove" /\ step'[p] = "mark"
                /\ raw'[o] = raw[o] \ {"trash"}
             \/ /\ step[p] = "dropLive" /\ step'[p] = "dropTrash"
                /\ raw'[o] = raw[o] \ {"live"}
             \/ /\ step[p] = "dropTrash" /\ step'[p] = "dropMark"
                /\ raw'[o] = raw[o] \ {"trash"}
       \/ /\ observations'[o].state = "DELETED"
          /\ raw[o] = {} /\ raw'[o] = {} /\ step'[p] = "idle"

LEMMA DeletionShape ==
    ASSUME TypeOK, ObsInv, NEW p \in Procs, DeletionStep(p),
           NEW o \in Obs, o = target[p][1]
    PROVE  /\ UNCHANGED <<quarantined, writers, phase, todo, task>>
           /\ \A q \in Procs \ {p} : step'[q] = step[q] /\ target'[q] = target[q]
           /\ \A u \in Obs \ {o} : /\ observations'[u] = observations[u]
                                   /\ raw'[u] = raw[u] /\ disk'[u] = disk[u]
           /\ RemovalStep(p, o)
<1>1. FinishStep(p) \/ DropStep(p)
  BY DEF DeletionStep
<1>2. step[p] \in FinishSteps \cup DropSteps
  BY <1>1 DEF FinishStep, DropStep, FinishRename, FinishRemove, FinishMark, DropLive,
              DropTrash, DropMark, FinishSteps, DropSteps
<1>3. BehindIsGone(p)
  BY DEF ObsInv
<1>4. observations[o].state \in Removing
  <2>1. CASE step[p] = "rename"
    BY <1>1, <2>1 DEF FinishStep, DropStep, FinishRename, FinishRemove, FinishMark, DropLive,
              DropTrash, DropMark, Removing
  <2>2. CASE step[p] # "rename"
    BY <1>2, <1>3, <2>2 DEF BehindIsGone, RemovalSteps, FinishSteps, DropSteps, Removing
  <2> QED
    BY <2>1, <2>2
<1>5. /\ \A q \in Procs \ {p} : step'[q] = step[q] /\ target'[q] = target[q]
  BY <1>1 DEF FinishStep, DropStep, FinishRename, FinishRemove, FinishMark, DropLive,
              DropTrash, DropMark, Continue, Leave, Become, TypeOK
<1>6. /\ \A u \in Obs \ {o} : observations'[u] = observations[u] /\ raw'[u] = raw[u]
      /\ \/ /\ observations'[o] = observations[o]
            /\ target'[p] = target[p]
            /\ \/ /\ step'[p] = "remove" /\ observations[o].state = "DELETING"
                  /\ raw'[o] = IF "live" \in raw[o] THEN {"trash"} ELSE raw[o]
               \/ /\ step[p] = "remove" /\ step'[p] = "mark"
                  /\ raw'[o] = raw[o] \ {"trash"}
               \/ /\ step[p] = "dropLive" /\ step'[p] = "dropTrash"
                  /\ raw'[o] = raw[o] \ {"live"}
               \/ /\ step[p] = "dropTrash" /\ step'[p] = "dropMark"
                  /\ raw'[o] = raw[o] \ {"trash"}
         \/ /\ observations'[o].state = "DELETED"
            /\ step[p] \in {"mark", "dropMark"} /\ raw'[o] = raw[o] /\ step'[p] = "idle"
  <2>1. CASE FinishRename(p)
    BY <2>1 DEF FinishRename, Continue, Become, TypeOK, dbVars
  <2>2. CASE FinishRemove(p)
    BY <2>2 DEF FinishRemove, Continue, Become, TypeOK, dbVars
  <2>3. CASE DropLive(p)
    BY <2>3 DEF DropLive, Continue, Become, TypeOK, dbVars
  <2>4. CASE DropTrash(p)
    BY <2>4 DEF DropTrash, Continue, Become, TypeOK, dbVars
  <2>5. CASE FinishMark(p) \/ DropMark(p)
    <3>1. \E from : TransitionObservation(o, from, "DELETED", 0, 0)
      BY <2>5 DEF FinishMark, DropMark
    <3>2. /\ observations'[o].state = "DELETED"
          /\ \A u \in Obs \ {o} : observations'[u] = observations[u]
      BY <3>1 DEF TransitionObservation, TypeOK, StoreTypeOK
    <3> QED
      BY <2>5, <3>2 DEF FinishMark, DropMark, Leave, Become, TypeOK
  <2> QED
    BY <1>1, <2>1, <2>2, <2>3, <2>4, <2>5 DEF FinishStep, DropStep
<1>7. step[p] \in {"mark", "dropMark"} => raw[o] = {}
  BY <1>3 DEF BehindIsGone
<1>8. /\ UNCHANGED <<quarantined, writers, phase, todo, task>>
      /\ disk'[o] = IF raw'[o] = {} THEN 0 ELSE disk[o]
  BY DEF DeletionStep
<1>9. \A u \in Obs \ {o} : disk'[u] = disk[u]
  <2> SUFFICES ASSUME NEW u \in Obs \ {o} PROVE disk'[u] = disk[u]
    OBVIOUS
  <2>1. disk'[u] = IF raw[u] = {} THEN 0 ELSE disk[u]
    BY <1>6 DEF DeletionStep
  <2> QED
    BY <2>1 DEF ObsInv, RowMatchesDisk
<1> QED
  BY <1>4, <1>5, <1>6, <1>7, <1>8, <1>9 DEF RemovalStep

LEMMA DeletionObsInv ==
    ASSUME TypeOK, ObsInv, NEW p \in Procs, DeletionStep(p)
    PROVE  ObsInv'
<1>1. PICK o \in Obs : o = target[p][1]
  BY DEF DeletionStep, FinishStep, FinishRename, FinishRemove, FinishMark, DropStep, DropLive,
         DropTrash, DropMark, TypeOK, RunIds
<1>2. RowMatchesDisk(o) /\ BehindIsGone(p)
  BY DEF ObsInv
<1>3. raw[o] \in SUBSET Places /\ disk[o] \in Nat /\ observations[o].size \in Nat
  BY DEF TypeOK, StoreTypeOK, ObservationRows
<1>0. RemovalStep(p, o)
  BY <1>1, DeletionShape
<1>4. RowMatchesDisk(o)'
  <2>1. /\ observations[o].state \in Removing
        /\ disk'[o] = IF raw'[o] = {} THEN 0 ELSE disk[o]
        /\ \/ observations'[o] = observations[o] /\ raw'[o] \subseteq raw[o]
           \/ observations'[o] = observations[o] /\ observations[o].state = "DELETING"
           \/ observations'[o].state = "DELETED" /\ raw[o] = {} /\ raw'[o] = {}
    BY <1>0 DEF RemovalStep
  <2> QED
    BY <1>2, <1>3, <2>1 DEF RowMatchesDisk, Removing
<1>5. \A u \in Obs \ {o} : RowMatchesDisk(u)'
  BY <1>1, DeletionShape, RowKept DEF ObsInv
<1>6. BehindIsGone(p)'
  <2>1. CASE observations'[o] = observations[o]
    <3>1. target'[p][1] = o \/ step'[p] = "idle"
      BY <1>0, <1>1, <2>1 DEF RemovalStep
    <3>2. /\ observations'[o].state \in {"DELETING", "DELETED", "INCONSISTENT"}
          /\ step'[p] # "dropLive" => "live" \notin raw'[o]
          /\ step'[p] \in {"mark", "dropMark"} => raw'[o] = {}
      <4>1. /\ step[p] \in {"remove", "dropTrash"} => "live" \notin raw[o]
            /\ raw[o] \subseteq {"live", "trash"}
        BY <1>1, <1>2, <1>3 DEF BehindIsGone, RemovalSteps, Places
      <4>2. CASE step'[p] = "idle"
        BY <1>0, <2>1, <4>2 DEF RemovalStep, Removing
      <4>3. CASE step'[p] # "idle"
        BY <1>0, <2>1, <4>1, <4>3 DEF RemovalStep, Removing
      <4> QED
        BY <4>2, <4>3
    <3> QED
      BY <3>1, <3>2 DEF BehindIsGone, RemovalSteps
  <2>2. CASE step'[p] = "idle"
    BY <2>2 DEF BehindIsGone, RemovalSteps
  <2> QED
    BY <1>0, <2>1, <2>2 DEF RemovalStep
<1>7. \A u \in Obs : Removes(u)
  <2>1. \A u \in Obs \ {o} : Removes(u)
    BY <1>1, DeletionShape DEF Removes
  <2>2. Removes(o)
    BY <1>0 DEF RemovalStep, Removes, Removing
  <2> QED
    BY <2>1, <2>2
<1>8. \A q \in Procs : BehindIsGone(q)'
  BY <1>1, <1>6, <1>7, DeletionShape, OneBehindChanges DEF ObsInv
<1>9. \A u \in Obs : \/ observations'[u].state = observations[u].state
                     \/ observations[u].state \in Settled /\ observations'[u].state \in Settled
  <2>1. \A u \in Obs \ {o} : observations'[u].state = observations[u].state
    BY <1>1, DeletionShape
  <2>2. \/ observations'[o].state = observations[o].state
        \/ observations[o].state \in Settled /\ observations'[o].state \in Settled
    BY <1>0 DEF RemovalStep, Settled, Removing
  <2> QED
    BY <2>1, <2>2
<1>10. UNCHANGED <<writers, phase, todo, task>>
  BY <1>1, DeletionShape
<1> QED
  BY <1>4, <1>5, <1>8, <1>9, <1>10, SettledObsInv

(* Part of a removal: only of a row that is DELETING, for any other has     *)
(* nothing left.                                                            *)
LEMMA PartShape ==
    ASSUME TypeOK, ObsInv, NEW p \in Procs, DeletionPart(p)
    PROVE  /\ UNCHANGED <<observations, raw, step, target, quarantined, writers, phase, todo, task>>
           /\ \E o \in Obs : /\ observations[o].state = "DELETING"
                             /\ disk'[o] \in Nat /\ disk'[o] < disk[o] /\ raw[o] # {}
                             /\ \A u \in Obs \ {o} : disk'[u] = disk[u]
<1>1. PICK o \in Obs : o = target[p][1]
  BY DEF DeletionPart, TypeOK, RunIds
<1>2. disk[o] \in Nat
  BY DEF TypeOK
<1>3. PICK left \in 0 .. disk[o] - 1 : disk' = [disk EXCEPT ![o] = left]
  BY <1>1 DEF DeletionPart
<1>4. step[p] \in RemovalSteps /\ raw[o] # {}
  BY <1>1 DEF DeletionPart, RemovalSteps
<1>5. observations[o].state = "DELETING"
  BY <1>1, <1>4 DEF ObsInv, BehindIsGone, RowMatchesDisk
<1>6. disk'[o] \in Nat /\ disk'[o] < disk[o] /\ \A u \in Obs \ {o} : disk'[u] = disk[u]
  BY <1>2, <1>3 DEF TypeOK
<1>7. UNCHANGED <<observations, raw, step, target, quarantined, writers, phase, todo, task>>
  BY DEF DeletionPart, dbVars
<1> QED
  BY <1>4, <1>5, <1>6, <1>7

LEMMA PartAndPurgeObsInv ==
    ASSUME TypeOK, ObsInv,
           (\E p \in Procs : DeletionPart(p)) \/ (\E o \in Obs : Purge(o))
    PROVE  ObsInv'
<1>1. /\ UNCHANGED <<observations, raw, step, target, writers, phase, todo, task>>
  BY PartShape DEF Purge, dbVars
<1>2. ASSUME NEW u \in Obs PROVE RowMatchesDisk(u)'
  <2>1. RowMatchesDisk(u) /\ disk[u] \in Nat /\ observations[u].size \in Nat
    BY DEF ObsInv, TypeOK, StoreTypeOK, ObservationRows
  <2>2. CASE \E p \in Procs : DeletionPart(p)
    <3>1. /\ quarantined'[u] = quarantined[u]
          /\ \/ disk'[u] = disk[u]
             \/ /\ observations[u].state = "DELETING" /\ raw[u] # {}
                /\ disk'[u] \in Nat /\ disk'[u] < disk[u]
      BY <2>2, PartShape
    <3> QED
      BY <1>1, <2>1, <3>1 DEF RowMatchesDisk
  <2>3. CASE \E o \in Obs : Purge(o)
    <3>1. /\ disk'[u] = disk[u]
          /\ quarantined'[u] = quarantined[u] \/ quarantined[u] # 0
      <4>1. PICK o \in Obs : Purge(o)
        BY <2>3
      <4>2. quarantined[o] > 0 /\ quarantined[o] \in Nat
        BY <4>1 DEF Purge, TypeOK
      <4>3. disk' = disk /\ (u # o => quarantined'[u] = quarantined[u])
        BY <4>1 DEF Purge, TypeOK
      <4> QED
        BY <4>2, <4>3
    <3> QED
      BY <1>1, <2>1, <3>1, RowKept
  <2> QED
    BY <2>2, <2>3
<1>3. \A p \in Procs : BehindIsGone(p)'
  BY <1>1, AllBehindKept DEF ObsInv, Removes
<1> QED
  BY <1>1, <1>2, <1>3, SettledObsInv

LEMMA InitObsInv == Init => ObsInv
<1> SUFFICES ASSUME Init PROVE ObsInv
  OBVIOUS
<1>1. \A o \in Obs : RowMatchesDisk(o) /\ TaskMatchesRow(o)
  BY DEF Init, NoObservation, RowMatchesDisk, TaskMatchesRow
<1>2. \A p \in Procs : BehindIsGone(p)
  BY DEF Init, BehindIsGone, RemovalSteps
<1>3. OneActive
  BY DEF Init, NoObservation, OneActive, Admitting
<1> QED
  BY <1>1, <1>2, <1>3 DEF ObsInv

(* Rows, disk, tasks and containers never contradict each other, whatever   *)
(* fails: what is stored has its recorded size until its removal begins,    *)
(* what was deleted or found missing has nothing left, no two rows are      *)
(* PLANNED or OBSERVING, and none is while can_admit adds up (store.py,     *)
(* scheduler.py, storage.py).                                               *)
THEOREM ObsInvariant == Spec => []ObsInv
<1>1. TypeOK /\ ObsInv /\ [Next]_vars => ObsInv'
  <2> SUFFICES ASSUME TypeOK, ObsInv, [Next]_vars PROVE ObsInv'
    OBVIOUS
  <2>1. CASE UNCHANGED vars
    <3>1. UNCHANGED <<observations, raw, step, target, disk, quarantined, writers, phase,
                      todo, task>>
      BY <2>1 DEF vars, dbVars, obsVars
    <3> QED
      BY <3>1 DEF ObsInv, RowMatchesDisk, TaskMatchesRow, BehindIsGone, OneActive
  <2>2. CASE Commands
    BY <2>2, VerdictObsInv, BeginsAndEndsObsInv, DeletionObsInv, PartAndPurgeObsInv
       DEF Commands
  <2>3. CASE Ticks
    BY <2>3, SweepObsInv, ReadsObsInv, AdmitObsInv DEF Ticks
  <2>4. CASE Recovery \/ ControllerCrash
    BY <2>4, RecoveryObsInv, CrashObsInv
  <2>5. CASE Containers \/ \E o \in Obs : TaskMoves(o)
    BY <2>5, ContainersObsInv, TasksObsInv
  <2> QED
    BY <2>1, <2>2, <2>3, <2>4, <2>5 DEF Next
<1> QED
  BY <1>1, InitObsInv, TypeCorrect, PTL DEF Spec

-----------------------------------------------------------------------------
(* No bytes are lost.                                                       *)

LEMMA QuarantineKeepsBytes ==
    ASSUME TypeOK, NEW S, NEW o \in Obs, Quarantine(S) \/ NothingMoved
    PROVE  disk'[o] + quarantined'[o] = disk[o] + quarantined[o]
<1>1. disk[o] \in Nat /\ quarantined[o] \in Nat
  BY DEF TypeOK
<1>2. CASE Quarantine(S)
  BY <1>1, <1>2 DEF Quarantine, Moves
<1>3. CASE NothingMoved
  BY <1>3 DEF NothingMoved
<1> QED
  BY <1>2, <1>3

(* Which steps leave an observation less bytes: those of a removal, for the *)
(* row it was decided for, and the purge.                                   *)
LEMMA BytesKept ==
    ASSUME TypeOK, ObsInv, Next, NEW o \in Obs
    PROVE  \/ disk'[o] + quarantined'[o] >= disk[o] + quarantined[o]
           \/ observations[o].state \in {"DELETING", "INCONSISTENT"}
           \/ disk'[o] = disk[o] /\ observations' = observations
<1>1. disk[o] \in Nat /\ quarantined[o] \in Nat
  BY DEF TypeOK
<1>2. CASE Containers
  <2>1. PICK u \in Obs : WriterWrites(u) \/ WriterExits(u)
    BY <1>2 DEF Containers
  <2>2. disk[u] \in Nat /\ quarantined[u] \in Nat
    BY DEF TypeOK
  <2>3. \/ UNCHANGED <<disk, quarantined>>
        \/ disk' = [disk EXCEPT ![u] = @ + 1] /\ UNCHANGED quarantined
        \/ quarantined' = [quarantined EXCEPT ![u] = @ + 1] /\ UNCHANGED disk
    BY <2>1 DEF WriterWrites, WriterExits
  <2> QED
    BY <1>1, <2>2, <2>3 DEF TypeOK
<1>3. CASE \/ \E u \in Obs : TaskMoves(u)
           \/ TickSweep
           \/ \E u \in Obs : RecoverObserving(u) \/ RecoverObservingFails(u)
  <2>1. NothingMoved \/ \E S : Quarantine(S)
    BY <1>3 DEF TaskMoves, ObserveStarts, ObserveRaisesBeforeStart, WatchdogAborts,
             ObserveAborted, ObserveCompletes, ObserveFails, ObserveRaises, HandlerFails,
             TriesToQuarantine, TickSweep, RecoverObserving, RecoverObservingFails
  <2>2. disk'[o] + quarantined'[o] = disk[o] + quarantined[o]
    BY <2>1, QuarantineKeepsBytes
  <2> QED
    BY <1>1, <2>2
<1>4. CASE \/ TickResume \/ TickSignature \/ TickMeasure \/ TickAdmit \/ ControllerCrash
           \/ ControllerStart \/ KillManaged \/ RecoverObservingDone \/ RecoverStored
           \/ \E u \in Obs : RecoverDeletion(u)
           \/ \E p \in Procs :
                 CommandEnds(p) \/ \E u \in Obs : CommandVerdict(p, u) \/ CommandResolve(p, u)
  <2>1. UNCHANGED <<disk, quarantined>>
    BY <1>4 DEF TickResume, TickSignature, TickMeasure, TickAdmit, ControllerCrash,
             ControllerStart, KillManaged, RecoverObservingDone, RecoverStored,
             RecoverDeletion, CommandEnds, CommandVerdict, CommandResolve, obsVars
  <2> QED
    BY <1>1, <2>1
<1>5. ASSUME NEW p \in Procs, DeletionStep(p)
      PROVE  \/ disk'[o] + quarantined'[o] >= disk[o] + quarantined[o]
             \/ observations[o].state \in {"DELETING", "INCONSISTENT"}
  <2>1. PICK u \in Obs : u = target[p][1]
    BY <1>5 DEF DeletionStep, FinishStep, FinishRename, FinishRemove, FinishMark, DropStep,
             DropLive, DropTrash, DropMark, TypeOK, RunIds
  <2>2. quarantined' = quarantined /\ (u # o => disk'[o] = disk[o])
    BY <1>5, <2>1, DeletionShape
  <2>3. CASE u = o
    <3>1. RemovalStep(p, o)
      BY <1>5, <2>1, <2>3, DeletionShape
    <3>2. CASE observations[o].state = "DELETED"
      <4>1. disk[o] = 0 /\ disk'[o] = 0
        BY <3>1, <3>2 DEF RemovalStep, ObsInv, RowMatchesDisk
      <4> QED
        BY <1>1, <2>2, <4>1
    <3> QED
      BY <3>1, <3>2 DEF RemovalStep, Removing
  <2> QED
    BY <1>1, <2>2, <2>3
<1>6. ASSUME NEW p \in Procs, DeletionPart(p)
      PROVE  \/ disk'[o] + quarantined'[o] >= disk[o] + quarantined[o]
             \/ observations[o].state \in {"DELETING", "INCONSISTENT"}
  BY <1>1, <1>6, PartShape
<1>7. ASSUME NEW u \in Obs, Purge(u)
      PROVE  disk'[o] = disk[o] /\ observations' = observations
  BY <1>7 DEF Purge, dbVars
<1> QED
  BY <1>2, <1>3, <1>4, <1>5, <1>6, <1>7 DEF Next, Ticks, Recovery, Commands

(* No failure destroys raw data: whatever containers, docker, the operating *)
(* system, a crash or a repeated quarantine do, bytes disappear from an     *)
(* observation only through a deletion that was decided on or by the        *)
(* operator's purge (storage.py, quarantine_path and the removals).         *)
THEOREM NothingDestroyedHolds == Spec => NothingDestroyed
<1>1. TypeOK /\ ObsInv /\ [Next]_vars =>
          [\A o \in Obs :
              disk'[o] + quarantined'[o] < disk[o] + quarantined[o] =>
                  \/ observations[o].state \in {"DELETING", "INCONSISTENT"}
                  \/ disk'[o] = disk[o] /\ observations' = observations]_vars
  <2> SUFFICES ASSUME TypeOK, ObsInv, Next, NEW o \in Obs,
                      disk'[o] + quarantined'[o] < disk[o] + quarantined[o]
               PROVE  \/ observations[o].state \in {"DELETING", "INCONSISTENT"}
                      \/ disk'[o] = disk[o] /\ observations' = observations
    OBVIOUS
  <2>1. /\ disk[o] \in Nat /\ quarantined[o] \in Nat
        /\ disk'[o] \in Nat /\ quarantined'[o] \in Nat
    <3>1. TypeOK'
      BY ContainersType, TasksType, TicksType, RecoveryType, CommandsType DEF Next
    <3> QED
      BY <3>1 DEF TypeOK
  <2> QED
    BY <2>1, BytesKept
<1> QED
  BY <1>1, TypeCorrect, ObsInvariant, PTL DEF Spec, NothingDestroyed
=============================================================================
