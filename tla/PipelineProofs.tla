--------------------------- MODULE PipelineProofs ---------------------------
(***************************************************************************)
(* Theorems about the whole controller: that it implements Processing and  *)
(* implements Observing, whatever the constants, and two results that hold *)
(* only of the two together: no input is read while it is written, and     *)
(* bytes go only by the operator.                                          *)
(***************************************************************************)
EXTENDS PipelineRefinements, TLAPS

Steps == P!FinishSteps \cup P!DropSteps \cup P!CommandSteps \cup {"idle", "requeue"}

(* What the proofs need of types.                                           *)
RowsTypeOK ==
    /\ observations \in [Obs -> P!ObservationRows]
    /\ raw \in [Obs -> SUBSET P!Places]
    /\ disk \in [Obs -> Nat]
    /\ task \in [Obs -> O!Tasks]
    /\ writers \subseteq Obs
    /\ todo \subseteq Obs

RunsTypeOK ==
    /\ runs \in [P!RunIds -> P!RunRows]
    /\ containers \subseteq P!RunIds
    /\ todoObs \subseteq Obs

RoutinesTypeOK ==
    /\ step \in [Procs -> Steps]
    /\ target \in [Procs -> P!RunIds \cup {None}]
    /\ \A p \in Procs : step[p] # "idle" => target[p] \in P!RunIds

TypeOK == RowsTypeOK /\ RunsTypeOK /\ RoutinesTypeOK

Recovering == {"down", "kill", "recObserving", "recDeleting"}

(* What the row of o says of the data of o, and of a verdict.               *)
DataMatchesRow(o) ==
    /\ observations[o].state \in {"ABSENT", "PLANNED"} => raw[o] = {}
    /\ Unseen(o) => "trash" \notin raw[o]
    /\ raw[o] = {} => disk[o] = 0
    /\ observations[o].state = "OBSERVING" /\ raw[o] # {} => disk[o] > 0
    /\ observations[o].state = "DELETED" => raw[o] = {}
    /\ observations[o].state = "DELETING" => P!HasVerdict(o)

(* An observing container and an observing task are of a row Processing     *)
(* does not see yet.                                                        *)
TaskMatchesRow(o) ==
    /\ o \in writers => observations[o].state \in {"OBSERVING", "OBSERVE_FAILED"}
    /\ task[o] = "spawned" => observations[o].state = "PLANNED"
    /\ task[o] \in {"watching", "stopping"} => observations[o].state = "OBSERVING"
    /\ task[o] = "failing" => observations[o].state \in {"PLANNED", "OBSERVING"}
    /\ ophase \in Recovering => task[o] = "none"
    /\ ophase = "recObserving" /\ o \in todo => observations[o].state = "OBSERVING"

(* Runs, their containers and the rows listed for them are of a row         *)
(* Processing sees.                                                         *)
RunMatchesRow(r) ==
    /\ runs[r].state # "ABSENT" => ~ Unseen(r[1])
    /\ r \in containers => runs[r].state # "ABSENT"

Removing == {"DELETING", "DELETED", "INCONSISTENT"}

RemovalSteps == {"remove", "mark", "dropLive", "dropTrash", "dropMark"}

(* What a process relies on that is inside a routine: a verdict that was    *)
(* validated still has its input when it is committed.                      *)
RoutineMatchesRow(p) ==
    LET o == target[p][1] IN
    /\ step[p] \notin {"idle", "requeue"} => ~ Unseen(o)
    /\ step[p] \in P!CommandSteps =>
           p # Controller /\ (observations[o].state = "STORED" => "live" \in raw[o])
    /\ step[p] \in RemovalSteps => observations[o].state \in Removing
    /\ step[p] \in RemovalSteps \ {"dropLive"} => "live" \notin raw[o]
    /\ step[p] \in {"mark", "dropMark"} => raw[o] = {}

RowsInv == \A o \in Obs : DataMatchesRow(o) /\ TaskMatchesRow(o)

RunsInv ==
    /\ \A r \in P!RunIds : RunMatchesRow(r)
    /\ \A o \in todoObs : ~ Unseen(o)

PipeInv == RowsInv /\ RunsInv /\ \A p \in Procs : RoutineMatchesRow(p)

-----------------------------------------------------------------------------
(* What no step does to a row, to a run and to a routine it is not of.      *)

Forward(o) ==
    /\ ~ Unseen(o) => ~ Unseen(o)'
    /\ ~ Unseen(o) /\ observations'[o].state = "STORED" =>
           /\ observations[o].state = "STORED"
           /\ "live" \in raw[o] => "live" \in raw'[o]
    /\ observations[o].state \in Removing =>
           /\ observations'[o].state \in Removing
           /\ "live" \notin raw[o] => raw'[o] \subseteq raw[o]

RunForward(r) ==
    /\ runs[r].state # "ABSENT" => runs'[r].state # "ABSENT"
    /\ runs[r].state = "ABSENT" /\ runs'[r].state # "ABSENT" => ~ Unseen(r[1])
    /\ runs[r].state \in {"ACCEPTED", "DISCARDED"} =>
           runs'[r].state \in {"ACCEPTED", "DISCARDED"}

LEMMA ForwardSame ==
    ASSUME NEW o, observations'[o] = observations[o], raw'[o] = raw[o]
    PROVE  Forward(o)
  BY DEF Forward, Unseen, Removing

LEMMA VerdictStays ==
    ASSUME NEW o \in Obs, \A r \in P!RunIds : RunForward(r), P!HasVerdict(o)
    PROVE  P!HasVerdict(o)'
<1>1. PICK r \in P!RunIds : r[1] = o /\ runs[r].state \in {"ACCEPTED", "DISCARDED"}
  BY DEF P!HasVerdict, P!RunsOf
<1>2. runs'[r].state \in {"ACCEPTED", "DISCARDED"}
  BY <1>1 DEF RunForward
<1> QED
  BY <1>1, <1>2 DEF P!HasVerdict, P!RunsOf

LEMMA DataKept ==
    ASSUME NEW o \in Obs, DataMatchesRow(o), \A r \in P!RunIds : RunForward(r),
           observations'[o].state = observations[o].state, raw'[o] = raw[o],
           disk'[o] = disk[o]
    PROVE  DataMatchesRow(o)'
  BY VerdictStays DEF DataMatchesRow, Unseen

LEMMA TaskKept ==
    ASSUME NEW o, TaskMatchesRow(o), observations'[o].state = observations[o].state,
           task'[o] = task[o] \/ task'[o] = "none", o \in writers' => o \in writers,
           ophase' \in Recovering => ophase \in Recovering \/ task'[o] = "none",
           ophase' = "recObserving" => ophase = "recObserving" /\ todo' \subseteq todo
    PROVE  TaskMatchesRow(o)'
  BY DEF TaskMatchesRow

LEMMA RunsKept ==
    ASSUME RunsTypeOK, RunsInv, \A o \in Obs : Forward(o), \A r \in P!RunIds : RunForward(r),
           containers' \subseteq containers,
           \A o \in todoObs' : o \in todoObs \/ ~ Unseen(o), todoObs' \subseteq Obs
    PROVE  RunsInv'
<1>1. ASSUME NEW r \in P!RunIds PROVE RunMatchesRow(r)'
  <2>1. r[1] \in Obs
    BY DEF P!RunIds
  <2> QED
    BY <2>1 DEF RunsInv, RunMatchesRow, Forward, RunForward
<1>2. ASSUME NEW o \in todoObs' PROVE ~ Unseen(o)'
  BY DEF RunsInv, Forward
<1> QED
  BY <1>1, <1>2 DEF RunsInv

LEMMA RoutineKept ==
    ASSUME NEW p \in Procs, RoutinesTypeOK, RoutineMatchesRow(p), \A o \in Obs : Forward(o),
           \/ step'[p] = step[p] /\ target'[p] = target[p]
           \/ step'[p] \in {"idle", "requeue"}
    PROVE  RoutineMatchesRow(p)'
<1>1. CASE step'[p] \in {"idle", "requeue"}
  BY <1>1 DEF RoutineMatchesRow, RemovalSteps, P!CommandSteps
<1>2. CASE step'[p] \notin {"idle", "requeue"}
  <2>1. PICK o \in Obs : step'[p] = step[p] /\ target'[p][1] = o /\ target[p][1] = o
    BY <1>2 DEF RoutinesTypeOK, P!RunIds
  <2>2. Forward(o)
    BY <2>1
  <2> QED
    BY <2>1, <2>2 DEF RoutineMatchesRow, Forward, Unseen, Removing, RemovalSteps, P!CommandSteps
<1> QED
  BY <1>1, <1>2

LEMMA RoutinesKept ==
    ASSUME RoutinesTypeOK, \A p \in Procs : RoutineMatchesRow(p), \A o \in Obs : Forward(o),
           NEW q \in Procs, \A p \in Procs \ {q} : step'[p] = step[p] /\ target'[p] = target[p],
           RoutineMatchesRow(q)'
    PROVE  \A p \in Procs : RoutineMatchesRow(p)'
  BY RoutineKept

LEMMA RoutinesSame ==
    ASSUME RoutinesTypeOK, \A p \in Procs : RoutineMatchesRow(p), \A o \in Obs : Forward(o),
           UNCHANGED <<step, target>>
    PROVE  RoutinesTypeOK' /\ \A p \in Procs : RoutineMatchesRow(p)'
  BY RoutineKept DEF RoutinesTypeOK

-----------------------------------------------------------------------------
(* Steps of Processing that touch neither an observation nor its data.      *)

LEMMA TransitionForward ==
    ASSUME RunsTypeOK, NEW r \in P!RunIds, NEW from, NEW to, P!TransitionRun(r, from, to)
    PROVE  /\ runs' \in [P!RunIds -> P!RunRows]
           /\ \A q \in P!RunIds : RunForward(q)
           /\ runs[r].state = from /\ from # "ABSENT"
<1>1. /\ to \in P!RunStates /\ from \in P!RunStates \ {"ACCEPTED", "DISCARDED"}
      /\ runs[r].state = from /\ runs' = [runs EXCEPT ![r] = P!Moved(runs[r], to)]
  BY DEF P!TransitionRun, P!RunTransitions, P!RunStates
<1>2. runs[r] \in P!RunRows
  BY DEF RunsTypeOK
<1>3. P!Moved(runs[r], to) \in P!RunRows /\ P!Moved(runs[r], to).state = to
  <2> DEFINE count == IF to = "RUNNING" THEN runs[r].execs + 1 ELSE runs[r].execs
  <2>1. count \in Nat
    BY <1>2 DEF P!RunRows
  <2>2. P!Moved(runs[r], to) = [runs[r] EXCEPT !.state = to, !.execs = count]
    BY DEF P!Moved
  <2> HIDE DEF count
  <2> QED
    BY <1>1, <1>2, <2>1, <2>2 DEF P!RunRows
<1>4. runs' \in [P!RunIds -> P!RunRows]
  BY <1>1, <1>3 DEF RunsTypeOK
<1>5. ASSUME NEW q \in P!RunIds PROVE RunForward(q)
  <2>1. runs'[q] = IF q = r THEN P!Moved(runs[r], to) ELSE runs[q]
    BY <1>1 DEF RunsTypeOK
  <2> QED
    BY <1>1, <1>3, <2>1 DEF RunForward, P!RunStates
<1> QED
  BY <1>1, <1>4, <1>5 DEF P!RunStates

(* Marks, sweeps and nothing at all.                                        *)
LEMMA RowsMarked ==
    ASSUME RunsTypeOK, runs' \in [P!RunIds -> P!RunRows],
           \A q \in P!RunIds :
               \/ runs'[q].state = runs[q].state
               \/ /\ runs[q].state \notin {"ABSENT", "ACCEPTED", "DISCARDED"}
                  /\ runs'[q].state # "ABSENT"
    PROVE  \A q \in P!RunIds : RunForward(q)
  BY DEF RunForward

LEMMA CreateForward ==
    ASSUME RunsTypeOK, NEW o \in Obs, ~ Unseen(o), P!CreateRun(o)
    PROVE  runs' \in [P!RunIds -> P!RunRows] /\ \A q \in P!RunIds : RunForward(q)
<1>1. PICK k \in P!Attempts : /\ \A r \in P!RunsOf(o) : r[2] < k
                              /\ runs' = [runs EXCEPT ![<<o, k>>] = P!NewRun]
  BY DEF P!CreateRun
<1>2. <<o, k>> \in P!RunIds /\ k \in Nat
  BY PipelineAssumption DEF P!RunIds, P!Attempts
<1>3. runs[<<o, k>>].state = "ABSENT"
  BY <1>1, <1>2 DEF P!RunsOf
<1>4. P!NewRun \in P!RunRows /\ P!NewRun.state = "QUEUED"
  BY DEF P!NewRun, P!RunRows, P!RunStates
<1>5. runs' \in [P!RunIds -> P!RunRows]
  BY <1>1, <1>4 DEF RunsTypeOK
<1>6. ASSUME NEW q \in P!RunIds PROVE RunForward(q)
  <2>1. runs'[q] = IF q = <<o, k>> THEN P!NewRun ELSE runs[q]
    BY <1>1 DEF RunsTypeOK
  <2>2. q = <<o, k>> => q[1] = o
    OBVIOUS
  <2> QED
    BY <1>3, <1>4, <2>1, <2>2 DEF RunForward
<1> QED
  BY <1>5, <1>6

(* The shape all these steps have.                                          *)
ProcessingFrame ==
    /\ UNCHANGED <<observations, raw, observingVars>>
    /\ runs' \in [P!RunIds -> P!RunRows]
    /\ \A q \in P!RunIds : RunForward(q)
    /\ \A r \in containers' : r \in containers \/ runs[r].state # "ABSENT"
    /\ containers' \subseteq P!RunIds
    /\ \A o \in todoObs' : o \in todoObs \/ ~ Unseen(o)
    /\ todoObs' \subseteq Obs

LEMMA ProcessingFrameKeeps ==
    ASSUME TypeOK, PipeInv, ProcessingFrame, RoutinesTypeOK',
           \A p \in Procs : RoutineMatchesRow(p)'
    PROVE  TypeOK' /\ PipeInv'
<1>1. UNCHANGED <<observations, raw, disk, task, writers, ophase, todo>>
  BY DEF ProcessingFrame, observingVars
<1>2. RowsTypeOK' /\ RunsTypeOK'
  BY <1>1 DEF TypeOK, RowsTypeOK, RunsTypeOK, ProcessingFrame
<1>3. ASSUME NEW o \in Obs PROVE DataMatchesRow(o)' /\ TaskMatchesRow(o)'
  BY <1>1, DataKept, TaskKept DEF PipeInv, RowsInv, ProcessingFrame
<1>4. \A o \in Obs : Unseen(o)' <=> Unseen(o)
  BY <1>1 DEF Unseen
<1>5. ASSUME NEW r \in P!RunIds PROVE RunMatchesRow(r)'
  <2>1. r[1] \in Obs
    BY DEF P!RunIds
  <2> QED
    BY <1>4, <2>1 DEF PipeInv, RunsInv, RunMatchesRow, ProcessingFrame, RunForward
<1>6. ASSUME NEW o \in todoObs' PROVE ~ Unseen(o)'
  BY <1>4 DEF PipeInv, RunsInv, ProcessingFrame
<1> QED
  BY <1>2, <1>3, <1>5, <1>6 DEF TypeOK, PipeInv, RowsInv, RunsInv

LEMMA WorkersFrame ==
    ASSUME TypeOK, NEW r \in P!RunIds, P!WorkerMoves(r), UNCHANGED observingVars
    PROVE  ProcessingFrame /\ UNCHANGED <<step, target>>
<1>1. /\ UNCHANGED <<observations, raw, step, target, todoObs>>
      /\ UNCHANGED runs \/ \E from, to : P!TransitionRun(r, from, to)
      /\ containers' \subseteq containers \/ (P!WorkerClaims(r) /\ containers' = containers \cup {r})
  BY DEF P!WorkerMoves, P!WorkerClaims, P!WorkerRaisesBeforeClaim, P!WorkerSucceeds,
         P!WorkerFails, P!WorkerDies, P!WorkerEnds, P!TransitionRun, P!dbVars
<1>2. runs' \in [P!RunIds -> P!RunRows] /\ \A q \in P!RunIds : RunForward(q)
  BY <1>1, TransitionForward, RowsMarked DEF TypeOK, RunsTypeOK
<1>3. P!WorkerClaims(r) => runs[r].state # "ABSENT"
  BY TransitionForward DEF P!WorkerClaims, TypeOK
<1> QED
  BY <1>1, <1>2, <1>3 DEF ProcessingFrame, TypeOK, RunsTypeOK

LEMMA ProcessingTaskKeeps ==
    ASSUME TypeOK, PipeInv, NEW r \in P!RunIds, ProcessingTask(r)
    PROVE  TypeOK' /\ PipeInv'
<1>1. ProcessingFrame /\ UNCHANGED <<step, target>>
  BY WorkersFrame DEF ProcessingTask
<1>2. \A o \in Obs : Forward(o)
  BY <1>1, ForwardSame DEF ProcessingFrame
<1>3. RoutinesTypeOK' /\ \A p \in Procs : RoutineMatchesRow(p)'
  BY <1>1, <1>2, RoutinesSame DEF TypeOK, PipeInv
<1> QED
  BY <1>1, <1>3, ProcessingFrameKeeps

ProcessingTick == TickSweepRuns \/ TickRetry \/ TickRepair \/ RecoverRuns \/ RecoverDeletionsDone

LEMMA ProcessingTickRuns ==
    ASSUME TypeOK, PipeInv, ProcessingTick
    PROVE  /\ runs' \in [P!RunIds -> P!RunRows]
           /\ \A q \in P!RunIds : RunForward(q)
<1>0. RunsTypeOK
  BY DEF TypeOK
<1>1. CASE \E r \in P!RunIds : P!TickCleanupFails(r)
  <2>1. PICK r \in P!RunIds : P!MarkRunRetryExhausted(r)
    BY <1>1 DEF P!TickCleanupFails
  <2>2. runs' \in [P!RunIds -> P!RunRows] /\ \A q \in P!RunIds : runs'[q].state = runs[q].state
    BY <1>0, <2>1 DEF P!MarkRunRetryExhausted, RunsTypeOK, P!RunRows
  <2> QED
    BY <1>0, <2>2, RowsMarked
<1>2. CASE P!TickMarkExhausted
  <2>1. runs' \in [P!RunIds -> P!RunRows] /\ \A q \in P!RunIds : runs'[q].state = runs[q].state
    BY <1>0, <1>2 DEF P!TickMarkExhausted, P!MarkExhaustedFailedRuns, RunsTypeOK, P!RunRows
  <2> QED
    BY <1>0, <2>1, RowsMarked
<1>3. CASE P!TickSweep
  <2>1. /\ runs' \in [P!RunIds -> P!RunRows]
        /\ \A q \in P!RunIds : \/ runs'[q] = runs[q]
                               \/ runs[q].state = "RUNNING" /\ runs'[q].state = "FAILED"
    BY <1>0, <1>3
       DEF P!TickSweep, P!Orphaned, P!RunsIn, RunsTypeOK, P!RunRows, P!RunStates
  <2> QED
    BY <1>0, <2>1, RowsMarked
<1>4. CASE \E o \in Obs : P!TickCreateRun(o)
  <2>1. PICK o \in Obs : o \in todoObs /\ P!CreateRun(o)
    BY <1>4 DEF P!TickCreateRun
  <2>2. ~ Unseen(o)
    BY <2>1 DEF PipeInv, RunsInv
  <2> QED
    BY <1>0, <2>1, <2>2, CreateForward
<1>5. CASE UNCHANGED runs
  BY <1>0, <1>5, RowsMarked DEF RunsTypeOK
<1>6. CASE \E r \in P!RunIds : \E from, to : P!TransitionRun(r, from, to)
  BY <1>0, <1>6, TransitionForward
<1>7. CASE P!TickRequeue
  <2>1. target[Controller] \in P!RunIds
    BY <1>7, PipelineAssumption DEF P!TickRequeue, TypeOK, RoutinesTypeOK
  <2>2. UNCHANGED runs \/ \E r \in P!RunIds : \E from, to : P!TransitionRun(r, from, to)
    BY <1>7, <2>1 DEF P!TickRequeue, P!dbVars
  <2> QED
    BY <1>5, <1>6, <2>2
<1> QED
  BY <1>1, <1>2, <1>3, <1>4, <1>5, <1>6, <1>7
     DEF ProcessingTick, TickSweepRuns, TickRetry, TickRepair, RecoverRuns,
         RecoverDeletionsDone, P!TickListRetryable, P!TickCleanup, P!TickListWithoutRuns,
         P!TickSpawn, P!RecoverRun, P!RecoverRunFails, P!RecoverRunsDone,
         P!RecoverDeletionsDone, P!dbVars

LEMMA ProcessingTickFrame ==
    ASSUME TypeOK, PipeInv, ProcessingTick
    PROVE  ProcessingFrame
<1>1. UNCHANGED <<observations, raw, observingVars, containers>>
  BY DEF ProcessingTick, TickSweepRuns, TickRetry, TickRepair, RecoverRuns,
         RecoverDeletionsDone, P!TickSweep, P!TickMarkExhausted, P!TickListRetryable,
         P!TickCleanup, P!TickCleanupFails, P!TickRequeue, P!TickListWithoutRuns,
         P!TickCreateRun, P!TickSpawn, P!RecoverRun, P!RecoverRunFails, P!RecoverRunsDone,
         P!RecoverDeletionsDone, P!TransitionRun, P!CreateRun, P!MarkRunRetryExhausted,
         P!MarkExhaustedFailedRuns, P!dbVars, P!taskVars
<1>2. todoObs' \subseteq todoObs \/ todoObs' = P!StoredObservationsWithoutRuns
  BY DEF ProcessingTick, TickSweepRuns, TickRetry, TickRepair, RecoverRuns,
         RecoverDeletionsDone, P!TickSweep, P!TickMarkExhausted, P!TickListRetryable,
         P!TickCleanup, P!TickCleanupFails, P!TickRequeue, P!TickListWithoutRuns,
         P!TickCreateRun, P!TickSpawn, P!RecoverRun, P!RecoverRunFails, P!RecoverRunsDone,
         P!RecoverDeletionsDone, P!taskVars
<1>3. \A o \in P!StoredObservationsWithoutRuns : o \in Obs /\ ~ Unseen(o)
  BY DEF P!StoredObservationsWithoutRuns, P!ObservationsIn, Unseen
<1> QED
  BY <1>1, <1>2, <1>3, ProcessingTickRuns DEF ProcessingFrame, TypeOK, RunsTypeOK

LEMMA BecomeType ==
    ASSUME RoutinesTypeOK, NEW p \in Procs,
           \/ P!Leave(p)
           \/ \E s \in Steps, r \in P!RunIds : P!Become(p, s, r)
    PROVE  RoutinesTypeOK'
  BY DEF RoutinesTypeOK, P!Leave, P!Become, Steps

LEMMA ProcessingTickKeeps ==
    ASSUME TypeOK, PipeInv, ProcessingTick
    PROVE  TypeOK' /\ PipeInv'
<1>1. \/ UNCHANGED <<step, target>>
      \/ P!Leave(Controller)
      \/ \E r \in P!RunIds : P!Become(Controller, "requeue", r)
  BY DEF ProcessingTick, TickSweepRuns, TickRetry, TickRepair, RecoverRuns,
         RecoverDeletionsDone, P!TickSweep, P!TickMarkExhausted, P!TickListRetryable,
         P!TickCleanup, P!TickCleanupFails, P!TickRequeue, P!TickListWithoutRuns,
         P!TickCreateRun, P!TickSpawn, P!RecoverRun, P!RecoverRunFails, P!RecoverRunsDone,
         P!RecoverDeletionsDone
<1>2. ProcessingFrame /\ RoutinesTypeOK
  BY ProcessingTickFrame DEF TypeOK
<1>3. \A o \in Obs : Forward(o)
  BY <1>2, ForwardSame DEF ProcessingFrame
<1>4. Controller \in Procs
  BY PipelineAssumption
<1>5. RoutinesTypeOK'
  BY <1>1, <1>2, <1>4, BecomeType DEF RoutinesTypeOK, Steps
<1>6. \A p \in Procs : \/ step'[p] = step[p] /\ target'[p] = target[p]
                       \/ step'[p] \in {"idle", "requeue"}
  BY <1>1, <1>2 DEF P!Leave, P!Become, RoutinesTypeOK
<1>7. \A p \in Procs : RoutineMatchesRow(p)'
  BY <1>2, <1>3, <1>6, RoutineKept DEF PipeInv
<1> QED
  BY <1>2, <1>5, <1>7, ProcessingFrameKeeps

-----------------------------------------------------------------------------
(* Steps of Observing that touch neither a run nor a routine.               *)

ObservingFrame ==
    /\ UNCHANGED <<runs, step, target, todoObs, containers>>
    /\ RowsTypeOK'
    /\ \A o \in Obs : Forward(o) /\ DataMatchesRow(o)' /\ TaskMatchesRow(o)'

LEMMA ObservingFrameKeeps ==
    ASSUME TypeOK, PipeInv, ObservingFrame
    PROVE  TypeOK' /\ PipeInv'
<1>1. UNCHANGED <<runs, step, target, todoObs, containers>> /\ \A o \in Obs : Forward(o)
  BY DEF ObservingFrame
<1>2. \A r \in P!RunIds : RunForward(r)
  BY <1>1 DEF RunForward
<1>3. RunsTypeOK' /\ RunsInv'
  BY <1>1, <1>2, RunsKept DEF TypeOK, PipeInv, RunsTypeOK
<1>4. RoutinesTypeOK' /\ \A p \in Procs : RoutineMatchesRow(p)'
  BY <1>1, RoutinesSame DEF TypeOK, PipeInv
<1> QED
  BY <1>3, <1>4 DEF ObservingFrame, TypeOK, PipeInv, RowsInv

LEMMA VerdictSame ==
    ASSUME UNCHANGED runs, NEW o
    PROVE  P!HasVerdict(o)' <=> P!HasVerdict(o)
  BY DEF P!HasVerdict, P!RunsOf

(* Data Processing does not see may move, and its row may fail.             *)
Unsettled == {"PLANNED", "OBSERVING", "OBSERVE_FAILED"}

LEMMA DataOfUnseen ==
    ASSUME NEW o \in Obs, RowsTypeOK, DataMatchesRow(o), UNCHANGED runs,
           \/ raw'[o] = raw[o] /\ disk'[o] = disk[o]
           \/ raw'[o] = raw[o] \ {"live"} /\ disk'[o] = 0,
           \/ observations'[o].state = observations[o].state /\ Unseen(o)
           \/ observations[o].state = "PLANNED" /\ observations'[o].state = "OBSERVING"
           \/ Unseen(o) /\ observations'[o].state = "OBSERVE_FAILED"
    PROVE  DataMatchesRow(o)' /\ Forward(o)
<1>1. raw[o] \in SUBSET P!Places /\ disk[o] \in Nat
  BY DEF RowsTypeOK
<1> QED
  BY <1>1 DEF DataMatchesRow, Forward, Unseen, Removing, P!Places

LEMMA QuarantineMoves ==
    ASSUME RowsTypeOK, NEW S, O!Quarantine(S)
    PROVE  /\ raw' \in [Obs -> SUBSET P!Places] /\ disk' \in [Obs -> Nat]
           /\ \A u \in Obs : u \in S => raw'[u] = raw[u] \ {"live"} /\ disk'[u] = 0
           /\ \A u \in Obs \ S : raw'[u] = raw[u] /\ disk'[u] = disk[u]
  BY DEF O!Quarantine, O!Moves, RowsTypeOK

LEMMA RowTransition ==
    ASSUME RowsTypeOK, NEW o \in Obs, NEW from, NEW to, NEW size \in Nat, NEW reserved \in Nat,
           O!TransitionObservation(o, from, to, size, reserved)
    PROVE  /\ observations[o].state = from
           /\ observations'[o] = [state |-> to, size |-> size, reserved |-> reserved]
           /\ \A u \in Obs \ {o} : observations'[u] = observations[u]
           /\ observations' \in [Obs -> P!ObservationRows]
           /\ UNCHANGED runs
<1> DEFINE row == [state |-> to, size |-> size, reserved |-> reserved]
<1>1. to \in P!ObservationStates
  BY DEF O!TransitionObservation, O!ObsTransitions, P!ObservationStates
<1>2. row \in P!ObservationRows
  BY <1>1 DEF P!ObservationRows
<1>3. /\ observations[o].state = from /\ observations' = [observations EXCEPT ![o] = row]
      /\ UNCHANGED runs
  BY DEF O!TransitionObservation
<1> HIDE DEF row
<1>4. /\ observations'[o] = row
      /\ \A u \in Obs \ {o} : observations'[u] = observations[u]
      /\ observations' \in [Obs -> P!ObservationRows]
  BY <1>2, <1>3 DEF RowsTypeOK
<1> QED
  BY <1>3, <1>4 DEF row

LEMMA RowFails ==
    ASSUME RowsTypeOK, NEW o \in Obs, NEW from,
           O!TransitionObservation(o, from, "OBSERVE_FAILED", observations[o].size, 0)
    PROVE  /\ observations[o].state = from /\ observations'[o].state = "OBSERVE_FAILED"
           /\ \A u \in Obs \ {o} : observations'[u] = observations[u]
           /\ observations' \in [Obs -> P!ObservationRows]
           /\ UNCHANGED runs
<1>1. PICK size \in Nat : size = observations[o].size
  BY DEF RowsTypeOK, P!ObservationRows
<1>2. O!TransitionObservation(o, from, "OBSERVE_FAILED", size, 0)
  BY <1>1
<1>3. /\ observations[o].state = from
      /\ observations'[o] = [state |-> "OBSERVE_FAILED", size |-> size, reserved |-> 0]
      /\ \A u \in Obs \ {o} : observations'[u] = observations[u]
      /\ observations' \in [Obs -> P!ObservationRows]
      /\ UNCHANGED runs
  BY <1>2, RowTransition
<1> QED
  BY <1>3

LEMMA WriterKeeps ==
    ASSUME TypeOK, PipeInv, NEW o \in Obs, O!WriterWrites(o) \/ O!WriterExits(o),
           UNCHANGED processingVars
    PROVE  ObservingFrame
<1>1. /\ UNCHANGED <<observations, runs, step, target, ophase, todo, task, todoObs, containers>>
      /\ o \in writers /\ writers' \subseteq writers
  BY DEF O!WriterWrites, O!WriterExits, O!dbVars, processingVars
<1>2. /\ RowsTypeOK
      /\ \A u \in Obs : DataMatchesRow(u) /\ TaskMatchesRow(u)
  BY DEF TypeOK, PipeInv, RowsInv
<1>3. observations[o].state \in {"OBSERVING", "OBSERVE_FAILED"}
  BY <1>1, <1>2 DEF TaskMatchesRow
<1>4. /\ \A u \in Obs \ {o} : raw'[u] = raw[u] /\ disk'[u] = disk[u]
      /\ \/ raw'[o] = raw[o] /\ disk'[o] = disk[o]
         \/ raw'[o] = raw[o] \cup {"live"} /\ disk'[o] = disk[o] + 1
      /\ RowsTypeOK'
  <2>1. CASE O!WriterExits(o)
    BY <1>1, <1>2, <2>1 DEF O!WriterExits, RowsTypeOK
  <2>2. CASE O!WriterWrites(o)
    BY <1>1, <1>2, <2>2 DEF O!WriterWrites, RowsTypeOK, P!Places
  <2> QED
    BY <2>1, <2>2
<1>5. ASSUME NEW u \in Obs PROVE Forward(u) /\ DataMatchesRow(u)' /\ TaskMatchesRow(u)'
  <2>1. TaskMatchesRow(u)'
    BY <1>1, <1>2, TaskKept
  <2>2. CASE raw'[u] = raw[u] /\ disk'[u] = disk[u]
    BY <1>1, <1>2, <2>1, <2>2, ForwardSame, VerdictSame DEF DataMatchesRow, Unseen
  <2>3. CASE u = o /\ raw'[o] = raw[o] \cup {"live"} /\ disk'[o] = disk[o] + 1
    <3>1. disk[o] \in Nat /\ raw[o] \in SUBSET P!Places
      BY <1>2 DEF RowsTypeOK
    <3> QED
      BY <1>1, <1>2, <1>3, <2>1, <2>3, <3>1 DEF DataMatchesRow, Forward, Unseen, Removing
  <2> QED
    BY <1>4, <2>2, <2>3
<1> QED
  BY <1>1, <1>4, <1>5 DEF ObservingFrame

(* A worker task changes its own row, between ticks.                        *)
LEMMA TaskFrame ==
    ASSUME TypeOK, NEW o \in Obs, O!TaskMoves(o)
    PROVE  /\ ophase = "idle" /\ UNCHANGED <<runs, step, target, ophase, todo>>
           /\ \A u \in Obs \ {o} :
                  /\ observations'[u] = observations[u] /\ raw'[u] = raw[u]
                  /\ disk'[u] = disk[u] /\ task'[u] = task[u]
                  /\ u \in writers' => u \in writers
           /\ raw' \in [Obs -> SUBSET P!Places] /\ disk' \in [Obs -> Nat]
           /\ task' \in [Obs -> O!Tasks] /\ writers' \subseteq Obs /\ todo' \subseteq Obs
<1>0. RowsTypeOK
  BY DEF TypeOK
<1>1. PICK where \in O!Tasks : O!TaskGoesTo(o, where)
  BY DEF O!TaskMoves, O!ObserveStarts, O!ObserveRaisesBeforeStart, O!WatchdogAborts,
         O!ObserveAborted, O!ObserveCompletes, O!ObserveFails, O!ObserveRaises,
         O!HandlerFails, O!Tasks
<1>2. ophase = "idle"
  BY DEF O!TaskMoves, O!ObserveStarts, O!ObserveRaisesBeforeStart, O!WatchdogAborts,
         O!ObserveAborted, O!ObserveCompletes, O!ObserveFails, O!ObserveRaises,
         O!HandlerFails, O!TaskTurn, O!RunnerReturned
<1>3. O!NothingMoved \/ O!Quarantine({o})
  BY DEF O!TaskMoves, O!ObserveStarts, O!ObserveRaisesBeforeStart, O!WatchdogAborts,
         O!ObserveAborted, O!ObserveCompletes, O!ObserveFails, O!ObserveRaises,
         O!HandlerFails, O!TriesToQuarantine
<1>4. /\ UNCHANGED runs
      /\ \/ UNCHANGED observations
         \/ \E row : observations' = [observations EXCEPT ![o] = row]
  BY DEF O!TaskMoves, O!ObserveStarts, O!ObserveRaisesBeforeStart, O!WatchdogAborts,
         O!ObserveAborted, O!ObserveCompletes, O!ObserveFails, O!ObserveRaises,
         O!HandlerFails, O!FailObserving, O!TransitionObservation, O!dbVars
<1>5. writers' \in {writers, writers \ {o}, writers \cup {o}}
  BY DEF O!TaskMoves, O!ObserveStarts, O!ObserveRaisesBeforeStart, O!WatchdogAborts,
         O!ObserveAborted, O!ObserveCompletes, O!ObserveFails, O!ObserveRaises,
         O!HandlerFails, O!StopsWriter
<1>6. /\ \A u \in Obs \ {o} : raw'[u] = raw[u] /\ disk'[u] = disk[u]
      /\ raw' \in [Obs -> SUBSET P!Places] /\ disk' \in [Obs -> Nat]
  BY <1>0, <1>3, QuarantineMoves DEF O!NothingMoved, RowsTypeOK
<1>7. ASSUME NEW u \in Obs \ {o} PROVE observations'[u] = observations[u]
  BY <1>0, <1>4 DEF RowsTypeOK
<1>8. /\ UNCHANGED <<step, target, ophase, todo>>
      /\ \A u \in Obs \ {o} : task'[u] = task[u]
      /\ task' \in [Obs -> O!Tasks]
  BY <1>0, <1>1 DEF O!TaskGoesTo, RowsTypeOK
<1> QED
  BY <1>0, <1>2, <1>4, <1>5, <1>6, <1>7, <1>8 DEF RowsTypeOK

LEMMA TaskRow ==
    ASSUME TypeOK, NEW o \in Obs, DataMatchesRow(o), TaskMatchesRow(o), O!TaskMoves(o)
    PROVE  /\ Forward(o) /\ DataMatchesRow(o)' /\ TaskMatchesRow(o)'
           /\ observations' \in [Obs -> P!ObservationRows]
<1>0. /\ RowsTypeOK /\ ophase' = "idle" /\ UNCHANGED <<runs, todo>>
      /\ task[o] \in O!Tasks /\ task' \in [Obs -> O!Tasks]
  BY TaskFrame DEF TypeOK, RowsTypeOK
<1>1. /\ observations[o] \in P!ObservationRows
      /\ raw[o] \in SUBSET P!Places /\ disk[o] \in Nat
      /\ UNCHANGED O!dbVars => UNCHANGED observations
  BY <1>0 DEF RowsTypeOK, O!dbVars
<1>2. O!Quarantine({o}) => raw'[o] = raw[o] \ {"live"} /\ disk'[o] = 0
  BY <1>0, QuarantineMoves
<1>3. O!NothingMoved => raw'[o] = raw[o] /\ disk'[o] = disk[o]
  BY DEF O!NothingMoved
<1>4. \A where : O!TaskGoesTo(o, where) => task'[o] = where
  BY <1>0 DEF O!TaskGoesTo, RowsTypeOK
<1>5. O!FailObserving(o) =>
          /\ observations[o].state = "OBSERVING" /\ observations'[o].state = "OBSERVE_FAILED"
          /\ observations' \in [Obs -> P!ObservationRows]
  BY <1>0, RowFails DEF O!FailObserving
<1>6. CASE O!ObserveStarts(o)
  <2>1. PICK size \in Nat, reserved \in Nat :
            O!TransitionObservation(o, "PLANNED", "OBSERVING", size, reserved)
    BY <1>1, <1>6 DEF O!ObserveStarts, P!ObservationRows
  <2>2. /\ observations[o].state = "PLANNED"
        /\ observations'[o] = [state |-> "OBSERVING", size |-> size, reserved |-> reserved]
        /\ observations' \in [Obs -> P!ObservationRows]
    BY <1>0, <2>1, RowTransition
  <2>3. task'[o] = "watching" /\ raw'[o] = raw[o] /\ disk'[o] = disk[o]
    BY <1>3, <1>4, <1>6 DEF O!ObserveStarts
  <2>4. observations'[o].state = "OBSERVING"
    BY <2>2
  <2>5. Forward(o) /\ DataMatchesRow(o)'
    BY <1>0, <2>2, <2>3, <2>4, DataOfUnseen
  <2> QED
    BY <1>0, <2>2, <2>3, <2>4, <2>5 DEF TaskMatchesRow, Recovering
<1>7. CASE O!ObserveRaisesBeforeStart(o) \/ O!WatchdogAborts(o)
  <2>1. /\ UNCHANGED <<observations, raw, disk, writers>>
        /\ \/ task[o] = "spawned" /\ task'[o] = "failing"
           \/ task[o] = "watching" /\ task'[o] = "stopping"
    BY <1>1, <1>4, <1>7
       DEF O!ObserveRaisesBeforeStart, O!WatchdogAborts, O!NothingMoved, O!TaskTurn
  <2>2. Forward(o) /\ DataMatchesRow(o)'
    BY <1>0, <2>1, ForwardSame, VerdictSame DEF DataMatchesRow, Unseen
  <2> QED
    BY <1>0, <2>1, <2>2 DEF TaskMatchesRow, Recovering, RowsTypeOK
<1>8. CASE O!ObserveCompletes(o)
  <2>1. PICK size \in Nat : O!TransitionObservation(o, "OBSERVING", "STORED", size, 0)
    BY <1>1, <1>8 DEF O!ObserveCompletes
  <2>2. /\ observations[o].state = "OBSERVING"
        /\ observations'[o] = [state |-> "STORED", size |-> size, reserved |-> 0]
        /\ observations' \in [Obs -> P!ObservationRows]
    BY <1>0, <2>1, RowTransition
  <2>3. /\ task'[o] = "none" /\ o \notin writers' /\ raw'[o] = raw[o] /\ disk'[o] = disk[o]
    BY <1>3, <1>4, <1>8 DEF O!ObserveCompletes, O!RunnerReturned
  <2>4. observations'[o].state = "STORED"
    BY <2>2
  <2>5. Forward(o) /\ DataMatchesRow(o)'
    BY <2>2, <2>3, <2>4 DEF DataMatchesRow, Forward, Unseen, Removing
  <2> QED
    BY <1>0, <2>2, <2>3, <2>4, <2>5 DEF TaskMatchesRow, Recovering
<1>9. CASE O!ObserveAborted(o) \/ O!ObserveFails(o) \/ O!ObserveRaises(o) \/ O!HandlerFails(o)
  <2>1. /\ task'[o] \in {"none", "failing"} /\ (o \in writers' => o \in writers)
        /\ O!NothingMoved \/ O!Quarantine({o})
    BY <1>4, <1>9 DEF O!ObserveAborted, O!ObserveFails, O!ObserveRaises, O!HandlerFails,
                      O!StopsWriter, O!TriesToQuarantine
  <2>2. \/ /\ observations[o].state \in {"PLANNED", "OBSERVING"}
           /\ observations'[o].state = "OBSERVE_FAILED"
           /\ observations' \in [Obs -> P!ObservationRows]
           /\ task'[o] = "none"
        \/ UNCHANGED observations /\ observations[o].state \in {"PLANNED", "OBSERVING"}
    <3>1. CASE O!ObserveAborted(o) \/ O!ObserveFails(o)
      BY <1>4, <1>5, <3>1 DEF O!ObserveAborted, O!ObserveFails
    <3>2. CASE O!ObserveRaises(o)
      <4>1. task[o] \in {"watching", "stopping"} /\ UNCHANGED observations
        BY <1>1, <3>2 DEF O!ObserveRaises, O!RunnerReturned, O!TaskTurn
      <4> QED
        BY <4>1 DEF TaskMatchesRow
    <3>3. CASE O!HandlerFails(o)
      <4>1. task[o] = "failing" /\ task'[o] = "none"
        BY <1>4, <3>3 DEF O!HandlerFails, O!TaskTurn
      <4>2. observations[o].state \in {"PLANNED", "OBSERVING"}
        BY <4>1 DEF TaskMatchesRow
      <4>3. \/ O!FailObserving(o)
            \/ O!TransitionObservation(o, "PLANNED", "OBSERVE_FAILED", observations[o].size, 0)
            \/ UNCHANGED O!dbVars
        BY <3>3 DEF O!HandlerFails
      <4>4. ASSUME O!TransitionObservation(o, "PLANNED", "OBSERVE_FAILED",
                                           observations[o].size, 0)
            PROVE  /\ observations'[o].state = "OBSERVE_FAILED"
                   /\ observations' \in [Obs -> P!ObservationRows]
        BY <1>0, <4>4, RowFails
      <4> QED
        BY <1>1, <1>5, <4>1, <4>2, <4>3, <4>4
    <3> QED
      BY <1>9, <3>1, <3>2, <3>3
  <2>3. Forward(o) /\ DataMatchesRow(o)'
    BY <1>0, <1>2, <1>3, <2>1, <2>2, DataOfUnseen DEF Unseen
  <2>4. TaskMatchesRow(o)'
    <3>1. o \in writers => observations[o].state = "OBSERVING"
                               \/ observations[o].state = "OBSERVE_FAILED"
      BY DEF TaskMatchesRow
    <3> QED
      BY <1>0, <2>1, <2>2, <3>1 DEF TaskMatchesRow, Recovering
  <2> QED
    BY <1>0, <2>2, <2>3, <2>4 DEF RowsTypeOK
<1> QED
  BY <1>6, <1>7, <1>8, <1>9 DEF O!TaskMoves

LEMMA ObservingTaskKeeps ==
    ASSUME TypeOK, PipeInv, NEW o \in Obs, ObservingTask(o)
    PROVE  ObservingFrame
<1>1. O!TaskMoves(o) /\ UNCHANGED <<todoObs, containers>>
  BY DEF ObservingTask
<1>2. /\ RowsTypeOK
      /\ \A u \in Obs : DataMatchesRow(u) /\ TaskMatchesRow(u)
  BY DEF TypeOK, PipeInv, RowsInv
<1>3. RowsTypeOK'
  BY <1>1, <1>2, TaskFrame, TaskRow DEF RowsTypeOK
<1>4. UNCHANGED <<runs, step, target, ophase, todo>>
  BY <1>1, TaskFrame
<1>5. ASSUME NEW u \in Obs PROVE Forward(u) /\ DataMatchesRow(u)' /\ TaskMatchesRow(u)'
  <2>1. CASE u = o
    BY <1>1, <1>2, <2>1, TaskRow
  <2>2. CASE u # o
    <3>1. /\ observations'[u] = observations[u] /\ raw'[u] = raw[u]
          /\ disk'[u] = disk[u] /\ task'[u] = task[u]
          /\ u \in writers' => u \in writers
      BY <1>1, <2>2, TaskFrame
    <3>2. DataMatchesRow(u)'
      BY <1>2, <1>4, <3>1, VerdictSame DEF DataMatchesRow, Unseen
    <3> QED
      BY <1>2, <1>4, <3>1, <3>2, ForwardSame, TaskKept
  <2> QED
    BY <2>1, <2>2
<1> QED
  BY <1>1, <1>3, <1>4, <1>5 DEF ObservingFrame

LEMMA SweepKeeps ==
    ASSUME TypeOK, PipeInv, TickSweepObservations
    PROVE  ObservingFrame
<1>0. /\ RowsTypeOK /\ O!TickSweep
      /\ \A u \in Obs : DataMatchesRow(u) /\ TaskMatchesRow(u)
  BY DEF TypeOK, PipeInv, RowsInv, TickSweepObservations
<1>1. /\ UNCHANGED <<runs, step, target, todoObs, containers, writers, todo, task>>
      /\ ophase' = "sweep" /\ O!Orphaned \subseteq Obs
      /\ O!NothingMoved \/ O!Quarantine(O!Orphaned)
  BY DEF TickSweepObservations, O!TickSweep, O!Advance, O!Orphaned, O!ObservationsIn,
         processingVars
<1>2. \A u \in O!Orphaned : observations[u].state = "OBSERVING" /\ task[u] = "none"
  BY DEF O!Orphaned, O!ObservationsIn
<1>3. ASSUME NEW u \in Obs
      PROVE  /\ u \in O!Orphaned => /\ observations'[u] \in P!ObservationRows
                                    /\ observations'[u].state = "OBSERVE_FAILED"
             /\ u \notin O!Orphaned => observations'[u] = observations[u]
  <2>1. observations[u] \in P!ObservationRows
    BY <1>0 DEF RowsTypeOK
  <2> QED
    BY <1>0, <2>1 DEF O!TickSweep, P!ObservationRows, P!ObservationStates
<1>4. /\ raw' \in [Obs -> SUBSET P!Places] /\ disk' \in [Obs -> Nat]
      /\ \A u \in Obs \ O!Orphaned : raw'[u] = raw[u] /\ disk'[u] = disk[u]
      /\ \A u \in O!Orphaned : \/ raw'[u] = raw[u] /\ disk'[u] = disk[u]
                               \/ raw'[u] = raw[u] \ {"live"} /\ disk'[u] = 0
  BY <1>0, <1>1, QuarantineMoves DEF O!NothingMoved, RowsTypeOK
<1>5. RowsTypeOK'
  <2>1. observations' = [u \in Obs |-> observations'[u]]
    BY <1>0 DEF O!TickSweep
  <2>2. \A u \in Obs : observations'[u] \in P!ObservationRows
    BY <1>0, <1>3 DEF RowsTypeOK
  <2> QED
    BY <1>0, <1>1, <1>4, <2>1, <2>2 DEF RowsTypeOK
<1>6. ASSUME NEW u \in Obs PROVE Forward(u) /\ DataMatchesRow(u)' /\ TaskMatchesRow(u)'
  <2>1. CASE u \in O!Orphaned
    <3>1. Forward(u) /\ DataMatchesRow(u)'
      BY <1>0, <1>1, <1>2, <1>3, <1>4, <2>1, DataOfUnseen DEF Unseen
    <3> QED
      BY <1>1, <1>2, <1>3, <2>1, <3>1 DEF TaskMatchesRow, Recovering
  <2>2. CASE u \notin O!Orphaned
    <3>1. observations'[u] = observations[u] /\ raw'[u] = raw[u] /\ disk'[u] = disk[u]
      BY <1>3, <1>4, <2>2
    <3>2. DataMatchesRow(u)'
      BY <1>0, <1>1, <3>1, VerdictSame DEF DataMatchesRow, Unseen
    <3> QED
      BY <1>0, <1>1, <3>1, <3>2, ForwardSame, TaskKept DEF Recovering
  <2> QED
    BY <2>1, <2>2
<1> QED
  BY <1>1, <1>5, <1>6 DEF ObservingFrame

LEMMA AdmissionKeeps ==
    ASSUME TypeOK, PipeInv, TickResume \/ TickAdmission
    PROVE  ObservingFrame
<1>0. /\ RowsTypeOK
      /\ \A u \in Obs : DataMatchesRow(u) /\ TaskMatchesRow(u)
  BY DEF TypeOK, PipeInv, RowsInv
<1>1. /\ UNCHANGED <<runs, raw, disk, step, target, todoObs, containers, writers, todo>>
      /\ ophase' \in {"admit", "idle", "decide", "measure"}
  BY DEF TickResume, TickAdmission, O!TickResume, O!TickSignature, O!TickMeasure,
         O!TickAdmit, O!Admit, O!InsertObservation, O!Advance, O!dbVars, processingVars
<1>2. CASE UNCHANGED observations
  <2>1. RowsTypeOK' /\ \A u \in Obs : \/ task'[u] = task[u]
                                      \/ observations[u].state = "PLANNED" /\ task'[u] = "spawned"
    <3>1. CASE O!TickResume
      BY <1>0, <1>1, <1>2, <3>1 DEF O!TickResume, RowsTypeOK, O!Tasks
    <3>2. CASE UNCHANGED task
      BY <1>0, <1>1, <1>2, <3>2 DEF RowsTypeOK
    <3>3. CASE \E o \in Obs : O!Admit(o)
      <4>1. PICK o \in Obs : /\ observations[o].state = "ABSENT"
                             /\ observations' = [observations EXCEPT ![o] =
                                    [state |-> "PLANNED", size |-> 0, reserved |-> Reservation]]
        BY <3>3 DEF O!Admit, O!InsertObservation
      <4>2. observations'[o].state = "PLANNED"
        BY <1>0, <4>1 DEF RowsTypeOK
      <4> QED
        BY <1>2, <4>1, <4>2
    <3> QED
      BY <3>1, <3>2, <3>3
         DEF TickResume, TickAdmission, O!TickSignature, O!TickMeasure, O!TickAdmit
  <2>2. ASSUME NEW u \in Obs PROVE Forward(u) /\ DataMatchesRow(u)' /\ TaskMatchesRow(u)'
    <3>1. Forward(u) /\ DataMatchesRow(u)'
      BY <1>0, <1>1, <1>2, ForwardSame, VerdictSame DEF DataMatchesRow, Unseen
    <3>2. task'[u] = task[u] \/ (observations[u].state = "PLANNED" /\ task'[u] = "spawned")
      BY <2>1
    <3> QED
      BY <1>0, <1>1, <1>2, <3>1, <3>2 DEF TaskMatchesRow, Recovering
  <2> QED
    BY <1>1, <2>1, <2>2 DEF ObservingFrame
<1>3. CASE \E o \in Obs : O!Admit(o)
  <2>1. PICK o \in Obs : O!Admit(o)
    BY <1>3
  <2> DEFINE row == [state |-> "PLANNED", size |-> 0, reserved |-> Reservation]
  <2>2. /\ observations[o].state = "ABSENT" /\ observations' = [observations EXCEPT ![o] = row]
        /\ task' = [task EXCEPT ![o] = "spawned"]
    BY <2>1 DEF O!Admit, O!InsertObservation
  <2>3. row \in P!ObservationRows /\ row.state = "PLANNED"
    BY PipelineAssumption DEF P!ObservationRows, P!ObservationStates
  <2> HIDE DEF row
  <2>4. /\ observations'[o] = row /\ task'[o] = "spawned" /\ RowsTypeOK'
        /\ \A u \in Obs \ {o} : observations'[u] = observations[u] /\ task'[u] = task[u]
    BY <1>0, <1>1, <2>2, <2>3 DEF RowsTypeOK, O!Tasks
  <2>5. ASSUME NEW u \in Obs PROVE Forward(u) /\ DataMatchesRow(u)' /\ TaskMatchesRow(u)'
    <3>1. CASE u = o
      BY <1>0, <1>1, <2>2, <2>3, <2>4, <3>1
         DEF DataMatchesRow, Forward, Unseen, Removing, TaskMatchesRow, Recovering
    <3>2. CASE u # o
      <4>1. observations'[u] = observations[u] /\ task'[u] = task[u]
        BY <2>4, <3>2
      <4>2. DataMatchesRow(u)'
        BY <1>0, <1>1, <4>1, VerdictSame DEF DataMatchesRow, Unseen
      <4> QED
        BY <1>0, <1>1, <4>1, <4>2, ForwardSame, TaskKept DEF Recovering
    <3> QED
      BY <3>1, <3>2
  <2> QED
    BY <1>1, <2>4, <2>5 DEF ObservingFrame
<1> QED
  BY <1>2, <1>3 DEF TickResume, TickAdmission, O!TickResume, O!TickSignature, O!TickMeasure,
                    O!TickAdmit, O!dbVars

LEMMA RecoverObservingKeeps ==
    ASSUME TypeOK, PipeInv, RecoverObserving
    PROVE  ObservingFrame
<1>0. /\ RowsTypeOK
      /\ \A u \in Obs : DataMatchesRow(u) /\ TaskMatchesRow(u)
  BY DEF TypeOK, PipeInv, RowsInv
<1>1. PICK o \in Obs : O!RecoverObserving(o) \/ O!RecoverObservingFails(o)
  BY DEF RecoverObserving
<1>2. /\ ophase = "recObserving" /\ ophase' = "recObserving" /\ o \in todo /\ todo' = todo \ {o}
      /\ UNCHANGED <<step, target, writers, task, todoObs, containers>>
      /\ O!NothingMoved \/ O!Quarantine({o})
      /\ O!FailObserving(o) \/ UNCHANGED O!dbVars
  BY <1>1 DEF RecoverObserving, O!RecoverObserving, O!RecoverObservingFails, O!Recovers,
              O!Advance, processingVars
<1>3. observations[o].state = "OBSERVING" /\ task[o] = "none"
  BY <1>0, <1>2 DEF TaskMatchesRow, Recovering
<1>4. /\ UNCHANGED runs /\ observations' \in [Obs -> P!ObservationRows]
      /\ \A u \in Obs \ {o} : observations'[u] = observations[u]
      /\ observations'[o].state \in {"OBSERVING", "OBSERVE_FAILED"}
  <2>1. CASE O!FailObserving(o)
    BY <1>0, <2>1, RowFails DEF O!FailObserving
  <2>2. CASE UNCHANGED O!dbVars
    BY <1>0, <1>3, <2>2 DEF O!dbVars, RowsTypeOK
  <2> QED
    BY <1>2, <2>1, <2>2
<1>5. /\ raw' \in [Obs -> SUBSET P!Places] /\ disk' \in [Obs -> Nat]
      /\ \A u \in Obs \ {o} : raw'[u] = raw[u] /\ disk'[u] = disk[u]
      /\ \/ raw'[o] = raw[o] /\ disk'[o] = disk[o]
         \/ raw'[o] = raw[o] \ {"live"} /\ disk'[o] = 0
  BY <1>0, <1>2, QuarantineMoves DEF O!NothingMoved, RowsTypeOK
<1>6. RowsTypeOK'
  BY <1>0, <1>2, <1>4, <1>5 DEF RowsTypeOK
<1>7. ASSUME NEW u \in Obs PROVE Forward(u) /\ DataMatchesRow(u)' /\ TaskMatchesRow(u)'
  <2>1. CASE u = o
    <3>1. Forward(o) /\ DataMatchesRow(o)'
      BY <1>0, <1>3, <1>4, <1>5, DataOfUnseen DEF Unseen
    <3> QED
      BY <1>0, <1>2, <1>3, <1>4, <2>1, <3>1 DEF TaskMatchesRow
  <2>2. CASE u # o
    <3>1. observations'[u] = observations[u] /\ raw'[u] = raw[u] /\ disk'[u] = disk[u]
      BY <1>4, <1>5, <2>2
    <3>2. DataMatchesRow(u)'
      BY <1>0, <1>4, <3>1, VerdictSame DEF DataMatchesRow, Unseen
    <3> QED
      BY <1>0, <1>2, <3>1, <3>2, ForwardSame, TaskKept
  <2> QED
    BY <2>1, <2>2
<1> QED
  BY <1>2, <1>4, <1>6, <1>7 DEF ObservingFrame

(* Bytes that go from inside an entry of trash or quarantine.               *)
LEMMA PartsKeep ==
    ASSUME TypeOK, PipeInv, Purge \/ \E p \in Procs : DeletionPart(p)
    PROVE  ObservingFrame
<1>0. /\ RowsTypeOK /\ RoutinesTypeOK
      /\ \A u \in Obs : DataMatchesRow(u) /\ TaskMatchesRow(u)
      /\ \A p \in Procs : RoutineMatchesRow(p)
  BY DEF TypeOK, PipeInv, RowsInv
<1>1. /\ UNCHANGED <<observations, raw, runs, step, target, todoObs, containers, writers,
                     todo, task, ophase>>
  BY DEF Purge, DeletionPart, O!Purge, O!DeletionPart, O!dbVars, processingVars
<1>2. CASE UNCHANGED disk
  BY <1>0, <1>1, <1>2, ForwardSame, DataKept, TaskKept
     DEF ObservingFrame, RowsTypeOK, DataMatchesRow, TaskMatchesRow, Unseen, P!HasVerdict,
         P!RunsOf, RunForward
<1>3. ASSUME NEW p \in Procs, O!DeletionPart(p) PROVE ObservingFrame
  <2>1. PICK o \in Obs : o = target[p][1]
    BY <1>0, <1>3 DEF O!DeletionPart, RoutinesTypeOK, P!RunIds
  <2>2. disk[o] \in Nat
    BY <1>0 DEF RowsTypeOK
  <2>3. PICK left \in 0 .. disk[o] - 1 : disk' = [disk EXCEPT ![o] = left]
    BY <1>3, <2>1 DEF O!DeletionPart
  <2>4. left \in Nat /\ raw[o] # {} /\ step[p] \in RemovalSteps
    BY <1>3, <2>1, <2>2, <2>3 DEF O!DeletionPart, RemovalSteps
  <2>5. observations[o].state \in Removing
    BY <1>0, <2>1, <2>4 DEF RoutineMatchesRow
  <2>6. RowsTypeOK' /\ \A u \in Obs \ {o} : disk'[u] = disk[u]
    BY <1>0, <1>1, <2>3, <2>4 DEF RowsTypeOK
  <2>7. ASSUME NEW u \in Obs PROVE Forward(u) /\ DataMatchesRow(u)' /\ TaskMatchesRow(u)'
    <3>1. Forward(u) /\ TaskMatchesRow(u)'
      BY <1>0, <1>1, ForwardSame, TaskKept
    <3>2. DataMatchesRow(u)'
      BY <1>0, <1>1, <2>4, <2>5, <2>6, VerdictSame DEF DataMatchesRow, Unseen, Removing
    <3> QED
      BY <3>1, <3>2
  <2> QED
    BY <1>1, <2>6, <2>7 DEF ObservingFrame
<1> QED
  BY <1>2, <1>3 DEF Purge, DeletionPart, O!Purge

-----------------------------------------------------------------------------
(* Commands.                                                                *)

LEMMA BeginKeeps ==
    ASSUME TypeOK, PipeInv, NEW p \in Procs, NEW r \in P!RunIds,
           P!BeginAccept(p, r) \/ P!BeginReprocess(p, r) \/ P!BeginDiscard(p, r),
           UNCHANGED observingVars
    PROVE  TypeOK' /\ PipeInv'
<1>1. PICK s \in P!CommandSteps, from \in SUBSET P!RunStates : P!Validates(p, r, from, s)
  BY DEF P!BeginAccept, P!BeginReprocess, P!BeginDiscard, P!CommandSteps, P!RunStates
<1>2. /\ p # Controller /\ P!Become(p, s, r)
      /\ observations[r[1]].state = "STORED" /\ "live" \in raw[r[1]]
      /\ UNCHANGED <<observations, runs, raw, todoObs, containers>>
  BY <1>1 DEF P!Validates, P!Validated, P!VerdictAllowed, P!Cli, P!dbVars, P!taskVars
<1>3. ProcessingFrame
  BY <1>2 DEF ProcessingFrame, TypeOK, RunsTypeOK, RunForward
<1>4. \A o \in Obs : Forward(o)
  BY <1>2, ForwardSame
<1>5. RoutinesTypeOK'
  BY <1>2, BecomeType DEF TypeOK, Steps
<1>6. /\ step'[p] = s /\ target'[p] = r
      /\ \A q \in Procs \ {p} : step'[q] = step[q] /\ target'[q] = target[q]
  BY <1>2 DEF P!Become, TypeOK, RoutinesTypeOK
<1>7. RoutineMatchesRow(p)'
  BY <1>2, <1>6 DEF RoutineMatchesRow, Unseen, P!CommandSteps, RemovalSteps
<1>8. \A q \in Procs : RoutineMatchesRow(q)'
  BY <1>4, <1>6, <1>7, RoutinesKept DEF TypeOK, PipeInv
<1> QED
  BY <1>3, <1>5, <1>8, ProcessingFrameKeeps

LEMMA ReprocessKeeps ==
    ASSUME TypeOK, PipeInv, NEW p \in Procs, P!CommitReprocess(p), UNCHANGED observingVars
    PROVE  TypeOK' /\ PipeInv'
<1>0. RunsTypeOK /\ RoutinesTypeOK
  BY DEF TypeOK
<1>1. PICK r \in P!RunIds : r = target[p]
  BY <1>0 DEF P!CommitReprocess, RoutinesTypeOK
<1>2. /\ P!VerdictAllowed(r, {"AWAITING_QA", "FAILED"}) /\ r[2] < MaxRuns
      /\ runs[P!Replacement(r)].state = "ABSENT"
      /\ runs' = [runs EXCEPT ![r].state = "SUPERSEDED", ![P!Replacement(r)] = P!NewRun]
      /\ UNCHANGED <<observations, raw, todoObs, containers>> /\ P!Leave(p)
  BY <1>1 DEF P!CommitReprocess, P!ReprocessRunAndCreate, P!taskVars
<1>3. /\ runs[r].state \in {"AWAITING_QA", "FAILED"}
      /\ observations[r[1]].state = "STORED"
  BY <1>2 DEF P!VerdictAllowed
<1>4. P!Replacement(r) \in P!RunIds /\ P!Replacement(r) # r /\ P!Replacement(r)[1] = r[1]
  BY <1>2, PipelineAssumption DEF P!Replacement, P!RunIds, P!Attempts
<1>5. P!NewRun \in P!RunRows /\ P!NewRun.state = "QUEUED"
  BY DEF P!NewRun, P!RunRows, P!RunStates
<1>6. PICK s \in P!RunIds : s = P!Replacement(r)
  BY <1>4
<1>7. /\ runs' \in [P!RunIds -> P!RunRows]
      /\ runs'[r].state = "SUPERSEDED" /\ runs'[s].state = "QUEUED"
      /\ \A q \in P!RunIds \ {r, s} : runs'[q] = runs[q]
  <2>1. [runs[r] EXCEPT !.state = "SUPERSEDED"] \in P!RunRows
    BY <1>0 DEF RunsTypeOK, P!RunRows, P!RunStates
  <2>2. /\ runs'[r] = [runs[r] EXCEPT !.state = "SUPERSEDED"] /\ runs'[s] = P!NewRun
        /\ \A q \in P!RunIds \ {r, s} : runs'[q] = runs[q]
        /\ runs' = [q \in P!RunIds |-> runs'[q]]
    BY <1>0, <1>2, <1>4, <1>6 DEF RunsTypeOK
  <2>3. [runs[r] EXCEPT !.state = "SUPERSEDED"].state = "SUPERSEDED"
    BY <1>0 DEF RunsTypeOK, P!RunRows
  <2>4. \A q \in P!RunIds : runs'[q] \in P!RunRows
    BY <1>0, <1>5, <2>1, <2>2 DEF RunsTypeOK
  <2> QED
    BY <1>5, <2>2, <2>3, <2>4
<1>8. ASSUME NEW q \in P!RunIds PROVE RunForward(q)
  BY <1>2, <1>3, <1>4, <1>6, <1>7 DEF RunForward, Unseen
<1>9. ProcessingFrame
  BY <1>0, <1>2, <1>7, <1>8 DEF ProcessingFrame, RunsTypeOK
<1>10. \A o \in Obs : Forward(o)
  BY <1>2, ForwardSame
<1>11. RoutinesTypeOK'
  BY <1>0, <1>2, BecomeType
<1>12. \A q \in Procs : \/ step'[q] = step[q] /\ target'[q] = target[q]
                        \/ step'[q] \in {"idle", "requeue"}
  BY <1>0, <1>2 DEF P!Leave, P!Become, RoutinesTypeOK
<1>13. \A q \in Procs : RoutineMatchesRow(q)'
  BY <1>0, <1>10, <1>12, RoutineKept DEF PipeInv
<1> QED
  BY <1>9, <1>11, <1>13, ProcessingFrameKeeps

(* An observation is decided: its run, its row and the process that decided *)
(* move, nothing else.                                                      *)
LEMMA DecisionKeeps ==
    ASSUME TypeOK, PipeInv, NEW p \in Procs, P!CommitAccept(p) \/ P!CommitDiscard(p),
           UNCHANGED observingVars
    PROVE  TypeOK' /\ PipeInv'
<1>0. /\ RowsTypeOK /\ RunsTypeOK /\ RoutinesTypeOK
      /\ \A u \in Obs : DataMatchesRow(u) /\ TaskMatchesRow(u)
      /\ \A q \in Procs : RoutineMatchesRow(q)
  BY DEF TypeOK, PipeInv, RowsInv
<1>1. PICK r \in P!RunIds : r = target[p]
  BY <1>0 DEF P!CommitAccept, P!CommitDiscard, RoutinesTypeOK
<1>2. PICK o \in Obs : o = r[1]
  BY DEF P!RunIds
<1>3. PICK verdict \in {"ACCEPTED", "DISCARDED"} :
          /\ runs[r].state \in {"AWAITING_QA", "FAILED"}
          /\ observations[o].state = "STORED"
          /\ runs' = [runs EXCEPT ![r].state = verdict]
          /\ observations' = [observations EXCEPT ![o].state = "DELETING"]
  BY <1>1, <1>2
     DEF P!CommitAccept, P!CommitDiscard, P!AcceptRunAndBeginDeletion,
         P!DiscardFailedRunAndBeginDeletion, P!VerdictAllowed, P!BeginDeletion
<1>4. /\ P!Become(p, "rename", r)
      /\ UNCHANGED <<raw, todoObs, containers, disk, task, writers, ophase, todo>>
  BY <1>1 DEF P!CommitAccept, P!CommitDiscard, P!Continue, P!taskVars, observingVars
<1>5. /\ observations' \in [Obs -> P!ObservationRows] /\ observations'[o].state = "DELETING"
      /\ \A u \in Obs \ {o} : observations'[u] = observations[u]
  <2>1. observations[o] \in P!ObservationRows
    BY <1>0 DEF RowsTypeOK
  <2> QED
    BY <1>0, <1>3, <2>1 DEF RowsTypeOK, P!ObservationRows, P!ObservationStates
<1>6. /\ runs' \in [P!RunIds -> P!RunRows] /\ runs'[r].state = verdict
      /\ \A q \in P!RunIds \ {r} : runs'[q] = runs[q]
  <2>1. runs[r] \in P!RunRows
    BY <1>0 DEF RunsTypeOK
  <2> QED
    BY <1>0, <1>3, <2>1 DEF RunsTypeOK, P!RunRows, P!RunStates
<1>7. \A q \in P!RunIds : RunForward(q)
  BY <1>3, <1>6 DEF RunForward
<1>8. ASSUME NEW u \in Obs PROVE Forward(u) /\ DataMatchesRow(u)' /\ TaskMatchesRow(u)'
  <2>1. CASE u = o
    <3>1. P!HasVerdict(o)'
      BY <1>2, <1>6 DEF P!HasVerdict, P!RunsOf
    <3> QED
      BY <1>0, <1>3, <1>4, <1>5, <2>1, <3>1
         DEF DataMatchesRow, Forward, TaskMatchesRow, Unseen, Removing, RowsTypeOK, O!Tasks
  <2>2. CASE u # o
    <3>1. observations'[u] = observations[u]
      BY <1>5, <2>2
    <3> QED
      BY <1>0, <1>4, <1>7, <3>1, ForwardSame, DataKept, TaskKept
  <2> QED
    BY <2>1, <2>2
<1>9. RowsTypeOK' /\ RunsTypeOK'
  BY <1>0, <1>4, <1>5, <1>6 DEF RowsTypeOK, RunsTypeOK
<1>10. RunsInv'
  BY <1>0, <1>4, <1>7, <1>8, RunsKept DEF PipeInv, RunsTypeOK
<1>11. RoutinesTypeOK'
  BY <1>0, <1>4, BecomeType DEF Steps, P!FinishSteps
<1>12. /\ step'[p] = "rename" /\ target'[p] = r
       /\ \A q \in Procs \ {p} : step'[q] = step[q] /\ target'[q] = target[q]
  BY <1>0, <1>4 DEF P!Become, RoutinesTypeOK
<1>13. RoutineMatchesRow(p)'
  BY <1>2, <1>5, <1>12 DEF RoutineMatchesRow, Unseen, P!CommandSteps, RemovalSteps
<1>14. \A q \in Procs : RoutineMatchesRow(q)'
  BY <1>0, <1>8, <1>12, <1>13, RoutinesKept
<1> QED
  BY <1>8, <1>9, <1>10, <1>11, <1>14 DEF TypeOK, PipeInv, RowsInv

(* A step of a deletion takes something away, and goes on or ends.          *)
LEMMA DeletionKeeps ==
    ASSUME TypeOK, PipeInv, NEW p \in Procs, DeletionStep(p)
    PROVE  TypeOK' /\ PipeInv'
<1>0. /\ RowsTypeOK /\ RunsTypeOK /\ RoutinesTypeOK
      /\ \A u \in Obs : DataMatchesRow(u) /\ TaskMatchesRow(u)
      /\ \A q \in Procs : RoutineMatchesRow(q)
  BY DEF TypeOK, PipeInv, RowsInv
<1>1. P!FinishStep(p) \/ P!DropStep(p)
  BY DEF DeletionStep, P!FinishDeletion, P!ForceDrop
<1>2. target[p] \in P!RunIds
  BY <1>0, <1>1 DEF P!FinishStep, P!FinishRename, P!FinishRemove, P!FinishMark,
                    P!DropStep, P!DropLive, P!DropTrash, P!DropMark, RoutinesTypeOK
<1>3. PICK o \in Obs : o = target[p][1]
  BY <1>2 DEF P!RunIds
<1>4. /\ UNCHANGED <<runs, todoObs, containers, task, writers, ophase, todo>>
      /\ disk' = [u \in Obs |-> IF raw'[u] = {} THEN 0 ELSE disk[u]]
  BY DEF DeletionStep, P!FinishDeletion, P!ForceDrop, O!DeletionStep, P!FinishStep,
         P!FinishRename, P!FinishRemove, P!FinishMark, P!DropStep, P!DropLive, P!DropTrash,
         P!DropMark, P!TransitionObservation, P!dbVars, P!taskVars
<1>5. observations[o].state \in Removing
  BY <1>0, <1>1, <1>3
     DEF P!FinishStep, P!FinishRename, P!FinishRemove, P!FinishMark, P!DropStep,
         P!DropLive, P!DropTrash, P!DropMark, RoutineMatchesRow, RemovalSteps, Removing
<1>6. /\ raw' \in [Obs -> SUBSET P!Places]
      /\ \A u \in Obs \ {o} : raw'[u] = raw[u]
      /\ \/ raw'[o] \subseteq raw[o]
         \/ observations[o].state = "DELETING" /\ "live" \in raw[o] /\ raw'[o] = {"trash"}
  <2>1. CASE P!FinishRename(p)
    <3>1. /\ raw' = [raw EXCEPT ![o] = IF "live" \in raw[o] THEN {"trash"} ELSE raw[o]]
          /\ observations[o].state = "DELETING"
      BY <1>3, <2>1 DEF P!FinishRename
    <3> QED
      BY <1>0, <3>1 DEF RowsTypeOK, P!Places
  <2>2. CASE ~ P!FinishRename(p)
    <3>1. \/ raw' = raw
          \/ raw' = [raw EXCEPT ![o] = raw[o] \ {"trash"}]
          \/ raw' = [raw EXCEPT ![o] = raw[o] \ {"live"}]
      BY <1>1, <1>3, <2>2
         DEF P!FinishStep, P!FinishRemove, P!FinishMark, P!DropStep, P!DropLive,
             P!DropTrash, P!DropMark
    <3> QED
      BY <1>0, <3>1 DEF RowsTypeOK, P!Places
  <2> QED
    BY <2>1, <2>2
<1>7. /\ observations' \in [Obs -> P!ObservationRows]
      /\ \A u \in Obs \ {o} : observations'[u] = observations[u]
      /\ \/ observations'[o] = observations[o]
         \/ observations'[o].state = "DELETED" /\ raw'[o] = {}
  <2>1. CASE UNCHANGED observations
    BY <1>0, <2>1 DEF RowsTypeOK
  <2>2. CASE P!FinishMark(p) \/ P!DropMark(p)
    <3> DEFINE row == [state |-> "DELETED", size |-> 0, reserved |-> 0]
    <3>1. observations' = [observations EXCEPT ![o] = row] /\ UNCHANGED raw
      BY <1>3, <2>2 DEF P!FinishMark, P!DropMark, P!TransitionObservation
    <3>2. row \in P!ObservationRows /\ row.state = "DELETED"
      BY DEF P!ObservationRows, P!ObservationStates
    <3>3. raw[o] = {}
      BY <1>0, <1>3, <2>2 DEF P!FinishMark, P!DropMark, RoutineMatchesRow
    <3> HIDE DEF row
    <3> QED
      BY <1>0, <3>1, <3>2, <3>3 DEF RowsTypeOK
  <2> QED
    BY <1>1, <2>1, <2>2
       DEF P!FinishStep, P!FinishRename, P!FinishRemove, P!DropStep, P!DropLive,
           P!DropTrash, P!dbVars
<1>8. \A r \in P!RunIds : RunForward(r)
  BY <1>4 DEF RunForward
<1>9. RowsTypeOK' /\ RunsTypeOK'
  BY <1>0, <1>4, <1>6, <1>7 DEF RowsTypeOK, RunsTypeOK
<1>10. ASSUME NEW u \in Obs PROVE Forward(u) /\ DataMatchesRow(u)' /\ TaskMatchesRow(u)'
  <2>1. disk'[u] = IF raw'[u] = {} THEN 0 ELSE disk[u]
    BY <1>4
  <2>2. CASE u = o
    <3>1. /\ observations[o].state \in Removing /\ observations'[o].state \in Removing
          /\ task[o] = "none" /\ o \notin writers
      BY <1>0, <1>5, <1>7 DEF Removing, TaskMatchesRow, RowsTypeOK, O!Tasks
    <3>2. TaskMatchesRow(o)'
      BY <1>0, <1>4, <3>1 DEF TaskMatchesRow, Removing
    <3>3. Forward(o)
      BY <1>6, <3>1 DEF Forward, Removing, Unseen
    <3>4. DataMatchesRow(o)'
      BY <1>0, <1>4, <1>6, <1>7, <2>1, <2>2, <3>1, VerdictSame
         DEF DataMatchesRow, Removing, Unseen
    <3> QED
      BY <2>2, <3>2, <3>3, <3>4
  <2>3. CASE u # o
    <3>1. raw'[u] = raw[u] /\ observations'[u] = observations[u]
      BY <1>6, <1>7, <2>3
    <3>2. disk'[u] = disk[u]
      BY <1>0, <2>1, <3>1 DEF DataMatchesRow
    <3> QED
      BY <1>0, <1>4, <1>8, <3>1, <3>2, ForwardSame, DataKept, TaskKept
  <2> QED
    BY <2>2, <2>3
<1>11. RunsInv'
  BY <1>0, <1>4, <1>8, <1>10, RunsKept DEF PipeInv, RunsTypeOK
<1>12. /\ target' = [target EXCEPT ![p] = IF step'[p] = "idle" THEN None ELSE target[p]]
       /\ \E s \in Steps : step' = [step EXCEPT ![p] = s]
       /\ P!Leave(p) \/ \E s \in Steps : P!Become(p, s, target[p])
  BY <1>0, <1>1
     DEF P!FinishStep, P!FinishRename, P!FinishRemove, P!FinishMark, P!DropStep, P!DropLive,
         P!DropTrash, P!DropMark, P!Continue, P!Leave, P!Become, Steps, P!FinishSteps,
         P!DropSteps, RoutinesTypeOK
<1>13. RoutinesTypeOK'
  BY <1>0, <1>2, <1>12, BecomeType
<1>14. \A q \in Procs \ {p} : step'[q] = step[q] /\ target'[q] = target[q]
  BY <1>0, <1>12 DEF RoutinesTypeOK
<1>15. RoutineMatchesRow(p)'
  <2>1. CASE step'[p] = "idle"
    BY <2>1 DEF RoutineMatchesRow, RemovalSteps, P!CommandSteps
  <2>2. CASE step'[p] # "idle"
    <3>1. target'[p][1] = o
      BY <1>0, <1>3, <1>12, <2>2 DEF RoutinesTypeOK
    <3>2. /\ observations'[o].state \in Removing
          /\ step'[p] \in {"remove", "mark", "dropTrash", "dropMark"}
      BY <1>0, <1>1, <1>5, <1>7, <2>2
         DEF P!FinishStep, P!FinishRename, P!FinishRemove, P!FinishMark, P!DropStep,
             P!DropLive, P!DropTrash, P!DropMark, P!Continue, P!Leave, P!Become, Removing,
             RoutinesTypeOK
    <3>3. "live" \notin raw'[o]
      BY <1>0, <1>1, <1>3, <1>6, <2>2
         DEF P!FinishStep, P!FinishRename, P!FinishRemove, P!FinishMark, P!DropStep,
             P!DropLive, P!DropTrash, P!DropMark, P!Continue, P!Leave, P!Become,
             RoutinesTypeOK, RowsTypeOK, RoutineMatchesRow, RemovalSteps
    <3>4. step'[p] \in {"mark", "dropMark"} => raw'[o] = {}
      BY <1>0, <1>1, <1>3, <2>2, <3>3
         DEF P!FinishStep, P!FinishRename, P!FinishRemove, P!FinishMark, P!DropStep,
             P!DropLive, P!DropTrash, P!DropMark, P!Continue, P!Leave, P!Become,
             RoutinesTypeOK, RowsTypeOK, P!Places, RoutineMatchesRow, RemovalSteps
    <3> QED
      BY <3>1, <3>2, <3>3, <3>4 DEF RoutineMatchesRow, Unseen, P!CommandSteps, Removing
  <2> QED
    BY <2>1, <2>2
<1>16. \A q \in Procs : RoutineMatchesRow(q)'
  BY <1>0, <1>10, <1>14, <1>15, RoutinesKept
<1> QED
  BY <1>9, <1>10, <1>11, <1>13, <1>16 DEF TypeOK, PipeInv, RowsInv
LEMMA FirstRun == \A o \in Obs : \E r \in P!RunIds : r = <<o, 1>>
<1>1. 1 \in P!Attempts
  BY PipelineAssumption DEF P!Attempts
<1> QED
  BY <1>1 DEF P!RunIds


LEMMA ResolveKeeps ==
    ASSUME TypeOK, PipeInv, NEW p \in Procs, Resolve(p) \/ CommandEnds(p)
    PROVE  TypeOK' /\ PipeInv'
<1>0. RoutinesTypeOK
  BY DEF TypeOK
<1>1. ProcessingFrame
  BY DEF Resolve, CommandEnds, P!BeginResolve, P!BeginDrop, P!CommandEnds, P!Abandon,
         O!CommandResolve, O!CommandEnds, O!obsVars, observingVars, P!dbVars, P!taskVars,
         ProcessingFrame, TypeOK, RunsTypeOK, RunForward
<1>2. \A o \in Obs : Forward(o)
  BY <1>1, ForwardSame DEF ProcessingFrame
<1>3. CASE CommandEnds(p)
  <2>1. P!Leave(p)
    BY <1>3 DEF CommandEnds, P!CommandEnds, P!Abandon
  <2>2. RoutinesTypeOK'
    BY <1>0, <2>1, BecomeType
  <2>3. \A q \in Procs : \/ step'[q] = step[q] /\ target'[q] = target[q]
                         \/ step'[q] \in {"idle", "requeue"}
    BY <1>0, <2>1 DEF P!Leave, P!Become, RoutinesTypeOK
  <2>4. \A q \in Procs : RoutineMatchesRow(q)'
    BY <1>0, <1>2, <2>3, RoutineKept DEF PipeInv
  <2> QED
    BY <1>1, <2>2, <2>4, ProcessingFrameKeeps
<1>4. CASE Resolve(p)
  <2>1. PICK o \in Obs : /\ observations[o].state \in {"DELETING", "INCONSISTENT"}
                         /\ P!Become(p, "dropLive", <<o, 1>>)
    BY <1>4 DEF Resolve, P!BeginResolve, P!BeginDrop
  <2>2. PICK r \in P!RunIds : r = <<o, 1>>
    BY FirstRun
  <2>3. RoutinesTypeOK'
    BY <1>0, <2>1, <2>2, BecomeType DEF Steps, P!DropSteps
  <2>4. /\ step'[p] = "dropLive" /\ target'[p][1] = o
        /\ \A q \in Procs \ {p} : step'[q] = step[q] /\ target'[q] = target[q]
    BY <1>0, <2>1, <2>2 DEF P!Become, RoutinesTypeOK
  <2>5. observations'[o].state \in {"DELETING", "INCONSISTENT"}
    BY <1>1, <2>1 DEF ProcessingFrame
  <2>6. RoutineMatchesRow(p)'
    BY <2>4, <2>5 DEF RoutineMatchesRow, Unseen, P!CommandSteps, RemovalSteps, Removing
  <2>7. \A q \in Procs : RoutineMatchesRow(q)'
    BY <1>0, <1>2, <2>4, <2>6, RoutinesKept DEF PipeInv
  <2> QED
    BY <1>1, <2>3, <2>7, ProcessingFrameKeeps
<1> QED
  BY <1>3, <1>4

-----------------------------------------------------------------------------
(* Crash, start and recovery.                                               *)

(* What a crash, a start, the gate and the lists of recovery have in common *)
(* with the end of a routine.                                               *)
LEMMA ControlKeeps ==
    ASSUME TypeOK, PipeInv, UNCHANGED <<observations, runs, raw, disk>>,
           containers' \subseteq containers, writers' \subseteq writers, todo' \subseteq Obs,
           \/ UNCHANGED task
           \/ task' = [o \in Obs |-> "none"],
           ophase' \in Recovering => \A o \in Obs : task'[o] = "none",
           \A o \in todo' : ophase' = "recObserving" => observations[o].state = "OBSERVING",
           todoObs' \subseteq {o \in Obs : ~ Unseen(o)},
           UNCHANGED <<step, target>> \/ P!Leave(Controller)
    PROVE  TypeOK' /\ PipeInv'
<1>0. /\ RowsTypeOK /\ RunsTypeOK /\ RoutinesTypeOK
      /\ \A u \in Obs : DataMatchesRow(u) /\ TaskMatchesRow(u)
      /\ \A q \in Procs : RoutineMatchesRow(q)
  BY DEF TypeOK, PipeInv, RowsInv
<1>1. RowsTypeOK' /\ RunsTypeOK'
  BY <1>0 DEF RowsTypeOK, RunsTypeOK, O!Tasks
<1>2. /\ \A o \in Obs : Forward(o)
      /\ \A r \in P!RunIds : RunForward(r)
  BY ForwardSame DEF RunForward
<1>3. ASSUME NEW o \in Obs PROVE DataMatchesRow(o)' /\ TaskMatchesRow(o)'
  <2>1. DataMatchesRow(o)'
    BY <1>0, <1>2, DataKept
  <2>2. task'[o] = task[o] \/ task'[o] = "none"
    OBVIOUS
  <2> QED
    BY <1>0, <2>1, <2>2 DEF TaskMatchesRow
<1>4. RunsInv'
  BY <1>0, <1>2, RunsKept DEF PipeInv
<1>5. Controller \in Procs
  BY PipelineAssumption
<1>6. RoutinesTypeOK'
  BY <1>0, <1>5, BecomeType DEF RoutinesTypeOK
<1>7. \A q \in Procs : \/ step'[q] = step[q] /\ target'[q] = target[q]
                       \/ step'[q] \in {"idle", "requeue"}
  BY <1>0, <1>5 DEF P!Leave, P!Become, RoutinesTypeOK
<1>8. \A q \in Procs : RoutineMatchesRow(q)'
  BY <1>0, <1>2, <1>7, RoutineKept
<1> QED
  BY <1>1, <1>3, <1>4, <1>6, <1>8 DEF TypeOK, PipeInv, RowsInv

LEMMA RecoverDeletionKeeps ==
    ASSUME TypeOK, PipeInv, RecoverDeletion
    PROVE  TypeOK' /\ PipeInv'
<1>0. /\ RowsTypeOK /\ RunsTypeOK /\ RoutinesTypeOK
      /\ \A u \in Obs : DataMatchesRow(u) /\ TaskMatchesRow(u)
      /\ \A q \in Procs : RoutineMatchesRow(q)
  BY DEF TypeOK, PipeInv, RowsInv
<1>1. PICK o \in Obs : P!RecoverDeletion(o) /\ O!RecoverDeletion(o)
  BY DEF RecoverDeletion
<1>2. /\ UNCHANGED <<observations, runs, raw, disk, containers, writers, task>>
      /\ o \in todoObs /\ todoObs' \subseteq todoObs /\ todo' \subseteq todo
      /\ ophase = "recDeleting" /\ ophase' = "recDeleting"
      /\ P!Become(Controller, "rename", <<o, 1>>)
  BY <1>1 DEF P!RecoverDeletion, O!RecoverDeletion, O!Advance, P!dbVars
<1>3. /\ \A u \in Obs : Forward(u)
      /\ \A r \in P!RunIds : RunForward(r)
  BY <1>2, ForwardSame DEF RunForward
<1>4. \A u \in Obs : DataMatchesRow(u)' /\ TaskMatchesRow(u)'
  BY <1>0, <1>2, <1>3, DataKept, TaskKept DEF Recovering
<1>5. RowsTypeOK' /\ RunsTypeOK'
  BY <1>0, <1>2 DEF RowsTypeOK, RunsTypeOK
<1>6. RunsInv'
  BY <1>0, <1>2, <1>3, RunsKept DEF PipeInv, RunsTypeOK
<1>7. PICK r \in P!RunIds : r = <<o, 1>>
  BY FirstRun
<1>8. Controller \in Procs
  BY PipelineAssumption
<1>9. RoutinesTypeOK'
  BY <1>0, <1>2, <1>7, <1>8, BecomeType DEF Steps, P!FinishSteps
<1>10. /\ step'[Controller] = "rename" /\ target'[Controller][1] = o
       /\ \A q \in Procs \ {Controller} : step'[q] = step[q] /\ target'[q] = target[q]
  BY <1>0, <1>2, <1>7, <1>8 DEF P!Become, RoutinesTypeOK
<1>11. ~ Unseen(o) /\ observations'[o] = observations[o]
  BY <1>2 DEF PipeInv, RunsInv
<1>12. RoutineMatchesRow(Controller)'
  BY <1>10, <1>11 DEF RoutineMatchesRow, Unseen, P!CommandSteps, RemovalSteps
<1>13. \A q \in Procs : RoutineMatchesRow(q)'
  BY <1>0, <1>3, <1>8, <1>10, <1>12, RoutinesKept
<1> QED
  BY <1>4, <1>5, <1>6, <1>9, <1>13 DEF TypeOK, PipeInv, RowsInv

LEMMA RecoverStoredKeeps ==
    ASSUME TypeOK, PipeInv, RecoverStored
    PROVE  TypeOK' /\ PipeInv'
<1>0. /\ RowsTypeOK /\ RunsTypeOK /\ RoutinesTypeOK
      /\ \A u \in Obs : DataMatchesRow(u) /\ TaskMatchesRow(u)
      /\ \A q \in Procs : RoutineMatchesRow(q)
  BY DEF TypeOK, PipeInv, RowsInv
<1>1. /\ UNCHANGED <<runs, raw, step, target, disk, containers, writers, task, todo, todoObs>>
      /\ ophase' = "idle"
  BY DEF RecoverStored, P!RecoverStored, O!RecoverStored, O!Advance, P!taskVars
<1>2. PICK missing \in SUBSET {o \in P!ObservationsIn({"STORED"}) : "live" \notin raw[o]} :
          observations' = [o \in Obs |->
              IF o \in missing THEN [state |-> "INCONSISTENT", size |-> 0, reserved |-> 0]
                               ELSE observations[o]]
  BY DEF RecoverStored, P!RecoverStored
<1>3. ASSUME NEW u \in Obs
      PROVE  /\ observations'[u] \in P!ObservationRows
             /\ \/ observations'[u] = observations[u]
                \/ /\ observations[u].state = "STORED" /\ "live" \notin raw[u]
                   /\ observations'[u].state = "INCONSISTENT"
  <2>1. CASE u \in missing
    <3>1. observations'[u] = [state |-> "INCONSISTENT", size |-> 0, reserved |-> 0]
      BY <1>2, <2>1
    <3>2. observations[u].state = "STORED" /\ "live" \notin raw[u]
      BY <2>1 DEF P!ObservationsIn
    <3> QED
      BY <3>1, <3>2 DEF P!ObservationRows, P!ObservationStates
  <2>2. CASE u \notin missing
    BY <1>0, <1>2, <2>2 DEF RowsTypeOK
  <2> QED
    BY <2>1, <2>2
<1>4. /\ \A r \in P!RunIds : RunForward(r)
      /\ observations' \in [Obs -> P!ObservationRows]
  BY <1>1, <1>2, <1>3 DEF RunForward
<1>5. ASSUME NEW u \in Obs PROVE Forward(u) /\ DataMatchesRow(u)' /\ TaskMatchesRow(u)'
  <2>1. CASE observations'[u] = observations[u]
    BY <1>0, <1>1, <1>4, <2>1, ForwardSame, DataKept, TaskKept DEF Recovering
  <2>2. CASE /\ observations[u].state = "STORED" /\ "live" \notin raw[u]
             /\ observations'[u].state = "INCONSISTENT"
    BY <1>0, <1>1, <2>2
       DEF Forward, DataMatchesRow, TaskMatchesRow, Unseen, Removing, Recovering,
           RowsTypeOK, O!Tasks
  <2> QED
    BY <1>3, <2>1, <2>2
<1>6. RowsTypeOK' /\ RunsTypeOK'
  BY <1>0, <1>1, <1>4 DEF RowsTypeOK, RunsTypeOK
<1>7. RunsInv'
  BY <1>0, <1>1, <1>4, <1>5, RunsKept DEF PipeInv, RunsTypeOK
<1>8. RoutinesTypeOK' /\ \A q \in Procs : RoutineMatchesRow(q)'
  BY <1>0, <1>1, <1>5, RoutinesSame
<1> QED
  BY <1>5, <1>6, <1>7, <1>8 DEF TypeOK, PipeInv, RowsInv

LEMMA RecoveryKeeps ==
    ASSUME TypeOK, PipeInv, ControllerCrash \/ ControllerStart \/ KillManaged \/ RecoverAccepted
    PROVE  TypeOK' /\ PipeInv'
<1>0. /\ todoObs \subseteq {o \in Obs : ~ Unseen(o)}
      /\ ophase \in Recovering => \A o \in Obs : task[o] = "none"
  BY DEF TypeOK, RunsTypeOK, PipeInv, RunsInv, RowsInv, TaskMatchesRow
<1>1. CASE ControllerCrash
  BY <1>0, <1>1, ControlKeeps
     DEF ControllerCrash, P!ControllerCrash, O!ControllerCrash, P!dbVars, Recovering
<1>2. CASE ControllerStart
  <2>1. todo \subseteq Obs
    BY DEF TypeOK, RowsTypeOK
  <2> QED
    BY <1>0, <1>2, <2>1, ControlKeeps
       DEF ControllerStart, P!ControllerStart, O!ControllerStart, O!Advance, P!dbVars,
           P!taskVars, Recovering
<1>3. CASE KillManaged
  <2>1. P!ObservationsIn({"OBSERVING"}) \subseteq Obs
        /\ \A o \in P!ObservationsIn({"OBSERVING"}) : observations[o].state = "OBSERVING"
    BY DEF P!ObservationsIn
  <2>2. /\ UNCHANGED <<observations, runs, raw, disk, task, todoObs, step, target>>
        /\ containers' \subseteq containers /\ writers' \subseteq writers
        /\ todo' = O!ObservationsIn({"OBSERVING"}) /\ ophase = "kill"
    BY <1>3 DEF KillManaged, P!KillManaged, P!GateOpens, O!KillManaged, O!Advance, P!dbVars
  <2>3. todo' = P!ObservationsIn({"OBSERVING"})
    BY <2>2 DEF O!ObservationsIn, P!ObservationsIn
  <2> QED
    BY <1>0, <2>1, <2>2, <2>3, ControlKeeps DEF Recovering
<1>4. CASE RecoverAccepted
  <2>1. /\ UNCHANGED <<observations, runs, raw, disk, task, containers, writers, step, target>>
        /\ ophase = "recObserving" /\ ophase' = "recDeleting"
        /\ todo' = O!ObservationsIn({"DELETING"})
        /\ todoObs' = {o \in Obs : observations'[o].state = "DELETING"}
    BY <1>4 DEF RecoverAccepted, P!RecoverAccepted, P!ResumesDeletion, O!RecoverObservingDone,
                O!Advance, O!dbVars
  <2>2. todo' \subseteq Obs /\ todoObs' \subseteq {o \in Obs : ~ Unseen(o)}
    BY <2>1 DEF O!ObservationsIn, Unseen
  <2> QED
    BY <1>0, <2>1, <2>2, ControlKeeps DEF Recovering
<1> QED
  BY <1>1, <1>2, <1>3, <1>4

-----------------------------------------------------------------------------
(* All steps together.                                                      *)

LEMMA InitKeeps ==
    ASSUME Init
    PROVE  TypeOK /\ PipeInv
<1>1. /\ observations = [o \in Obs |-> P!NoObservation]
      /\ runs = [r \in P!RunIds |-> P!NoRun]
      /\ raw = [o \in Obs |-> {}] /\ disk = [o \in Obs |-> 0]
      /\ task = [o \in Obs |-> "none"] /\ writers = {} /\ todo = {}
      /\ containers = {} /\ todoObs = {} /\ ophase = "down"
      /\ step = [p \in Procs |-> "idle"] /\ target = [p \in Procs |-> None]
  BY DEF Init, P!Init, O!Init, O!NoObservation, P!NoObservation
<1>2. P!NoObservation \in P!ObservationRows /\ P!NoObservation.state = "ABSENT"
  BY DEF P!NoObservation, P!ObservationRows, P!ObservationStates
<1>3. P!NoRun \in P!RunRows /\ P!NoRun.state = "ABSENT"
  BY DEF P!NoRun, P!RunRows, P!RunStates
<1>4. \A o \in Obs : observations[o].state = "ABSENT" /\ raw[o] = {} /\ disk[o] = 0
  BY <1>1, <1>2
<1>5. \A r \in P!RunIds : runs[r].state = "ABSENT"
  BY <1>1, <1>3
<1>6. TypeOK
  BY <1>1, <1>2, <1>3
     DEF TypeOK, RowsTypeOK, RunsTypeOK, RoutinesTypeOK, Steps, O!Tasks
<1>7. RowsInv
  BY <1>1, <1>4 DEF RowsInv, DataMatchesRow, TaskMatchesRow, Unseen
<1>8. RunsInv
  BY <1>1, <1>5 DEF RunsInv, RunMatchesRow
<1>9. \A p \in Procs : RoutineMatchesRow(p)
  BY <1>1 DEF RoutineMatchesRow, P!CommandSteps, RemovalSteps
<1> QED
  BY <1>6, <1>7, <1>8, <1>9 DEF PipeInv

(* A processing container writes or ends.                                   *)
LEMMA ContainerKeeps ==
    ASSUME TypeOK, PipeInv, NEW r \in P!RunIds, P!ContainerWrites(r) \/ P!ContainerExits(r),
           UNCHANGED observingVars
    PROVE  TypeOK' /\ PipeInv'
<1>1. /\ UNCHANGED <<observations, runs, raw, step, target, todoObs>>
      /\ containers' \subseteq containers
  BY DEF P!ContainerWrites, P!ContainerExits, P!dbVars, P!taskVars
<1>2. ProcessingFrame
  BY <1>1 DEF ProcessingFrame, RunForward, TypeOK, RunsTypeOK
<1>3. \A o \in Obs : Forward(o)
  BY <1>1, ForwardSame
<1>4. RoutinesTypeOK' /\ \A p \in Procs : RoutineMatchesRow(p)'
  BY <1>1, <1>3, RoutinesSame DEF TypeOK, PipeInv
<1> QED
  BY <1>2, <1>4, ProcessingFrameKeeps

(* Nothing moves.                                                           *)
LEMMA StutterKeeps ==
    ASSUME TypeOK, PipeInv, UNCHANGED vars
    PROVE  TypeOK' /\ PipeInv'
<1>1. UNCHANGED <<observations, runs, raw, step, target, todoObs, containers, observingVars>>
  BY DEF vars, sharedVars, processingVars
<1>2. ProcessingFrame
  BY <1>1 DEF ProcessingFrame, RunForward, TypeOK, RunsTypeOK
<1>3. \A o \in Obs : Forward(o)
  BY <1>1, ForwardSame
<1>4. RoutinesTypeOK' /\ \A p \in Procs : RoutineMatchesRow(p)'
  BY <1>1, <1>3, RoutinesSame DEF TypeOK, PipeInv
<1> QED
  BY <1>2, <1>4, ProcessingFrameKeeps

LEMMA CommandKeeps ==
    ASSUME TypeOK, PipeInv, NEW p \in Procs, Command(p)
    PROVE  TypeOK' /\ PipeInv'
<1>1. CASE Verdict(p)
  BY <1>1, BeginKeeps, ReprocessKeeps, DecisionKeeps DEF Verdict
<1>2. CASE Resolve(p) \/ CommandEnds(p)
  BY <1>2, ResolveKeeps
<1>3. CASE DeletionStep(p)
  BY <1>3, DeletionKeeps
<1>4. CASE DeletionPart(p)
  BY <1>4, PartsKeep, ObservingFrameKeeps
<1> QED
  BY <1>1, <1>2, <1>3, <1>4 DEF Command

LEMMA StepKeeps ==
    ASSUME TypeOK, PipeInv, [Next]_vars
    PROVE  TypeOK' /\ PipeInv'
<1>1. CASE \E o \in Obs : ObservingTask(o)
  BY <1>1, ObservingTaskKeeps, ObservingFrameKeeps
<1>2. CASE \E r \in P!RunIds : ProcessingTask(r)
  BY <1>2, ProcessingTaskKeeps
<1>3. CASE Containers
  <2>1. CASE \E r \in P!RunIds :
                 (P!ContainerWrites(r) \/ P!ContainerExits(r)) /\ UNCHANGED observingVars
    BY <2>1, ContainerKeeps
  <2>2. CASE \E o \in Obs :
                 (O!WriterWrites(o) \/ O!WriterExits(o)) /\ UNCHANGED processingVars
    BY <2>2, WriterKeeps, ObservingFrameKeeps
  <2> QED
    BY <1>3, <2>1, <2>2 DEF Containers, O!Containers
<1>4. CASE TickSweepObservations
  BY <1>4, SweepKeeps, ObservingFrameKeeps
<1>5. CASE TickResume \/ TickAdmission
  BY <1>5, AdmissionKeeps, ObservingFrameKeeps
<1>6. CASE ProcessingTick
  BY <1>6, ProcessingTickKeeps
<1>7. CASE ControllerCrash \/ ControllerStart \/ KillManaged \/ RecoverAccepted
  BY <1>7, RecoveryKeeps
<1>8. CASE RecoverObserving
  BY <1>8, RecoverObservingKeeps, ObservingFrameKeeps
<1>9. CASE RecoverDeletion
  BY <1>9, RecoverDeletionKeeps
<1>10. CASE RecoverStored
  BY <1>10, RecoverStoredKeeps
<1>11. CASE \E p \in Procs : Command(p)
  BY <1>11, CommandKeeps
<1>12. CASE Purge
  BY <1>12, PartsKeep, ObservingFrameKeeps
<1>13. CASE UNCHANGED vars
  BY <1>13, StutterKeeps
<1> QED
  BY <1>1, <1>2, <1>3, <1>4, <1>5, <1>6, <1>7, <1>8, <1>9, <1>10, <1>11, <1>12, <1>13
     DEF Next, Tick, Recovery, ProcessingTick

(* What the database row of an observation says of its data, its task, its  *)
(* runs and the routines at work on it, in every order of ticks, tasks,     *)
(* crashes and commands (scheduler.py, reconcile.py, storage.py, qa.py).    *)
THEOREM Invariant == Spec => [](TypeOK /\ PipeInv)
<1>1. Init => TypeOK /\ PipeInv
  BY InitKeeps
<1>2. TypeOK /\ PipeInv /\ [Next]_vars => (TypeOK /\ PipeInv)'
  BY StepKeeps
<1> QED
  BY <1>1, <1>2, PTL DEF Spec

-----------------------------------------------------------------------------
(* A processing container never reads an MS that is still being written:    *)
(* the repair scan and the reprocess command make runs only of rows that    *)
(* left OBSERVING, and an observing container is of a row that has not --   *)
(* also when docker lets containers go on (store.py,                        *)
(* list_stored_observations_without_runs; reconcile.py, the safety gate).   *)
THEOREM InputIsCompleteHolds == Spec => []InputIsComplete
<1>1. TypeOK /\ PipeInv => InputIsComplete
  <2> SUFFICES ASSUME TypeOK, PipeInv, NEW r \in containers PROVE r[1] \notin writers
    BY DEF InputIsComplete
  <2>1. r \in P!RunIds /\ r[1] \in Obs
    BY DEF TypeOK, RunsTypeOK, P!RunIds
  <2>2. ~ Unseen(r[1])
    BY <2>1 DEF PipeInv, RunsInv, RunMatchesRow
  <2> QED
    BY <2>1, <2>2 DEF PipeInv, RowsInv, TaskMatchesRow, Unseen
<1> QED
  BY <1>1, Invariant, PTL

-----------------------------------------------------------------------------
(* Bytes.                                                                   *)

QuarantinedOK == quarantined \in [Obs -> Nat]

GoesByOperator(o) ==
    disk'[o] + quarantined'[o] < disk[o] + quarantined[o] =>
        \/ P!HasVerdict(o)
        \/ observations[o].state = "INCONSISTENT"
        \/ quarantined'[o] < quarantined[o] /\ disk'[o] = disk[o]

BytesStay == UNCHANGED <<disk, quarantined>> \/ \E S : O!Quarantine(S)

LEMMA BytesMove ==
    ASSUME TypeOK, QuarantinedOK, BytesStay
    PROVE  QuarantinedOK' /\ \A o \in Obs : GoesByOperator(o)
<1>1. /\ disk \in [Obs -> Nat] /\ quarantined \in [Obs -> Nat]
  BY DEF TypeOK, RowsTypeOK, QuarantinedOK
<1>2. CASE UNCHANGED <<disk, quarantined>>
  BY <1>1, <1>2 DEF QuarantinedOK, GoesByOperator
<1>3. CASE \E S : O!Quarantine(S)
  <2>1. PICK S : O!Quarantine(S)
    BY <1>3
  <2>2. quarantined' \in [Obs -> Nat]
    BY <1>1, <2>1 DEF O!Quarantine
  <2>3. ASSUME NEW o \in Obs PROVE disk'[o] + quarantined'[o] = disk[o] + quarantined[o]
    <3>1. disk[o] \in Nat /\ quarantined[o] \in Nat
      BY <1>1
    <3>2. /\ o \in S => disk'[o] = 0 /\ quarantined'[o] = quarantined[o] + disk[o]
          /\ o \notin S => disk'[o] = disk[o] /\ quarantined'[o] = quarantined[o]
      BY <2>1 DEF O!Quarantine, O!Moves
    <3> QED
      BY <3>1, <3>2
  <2> QED
    BY <1>1, <2>2, <2>3 DEF QuarantinedOK, GoesByOperator, TypeOK, RowsTypeOK
<1> QED
  BY <1>2, <1>3 DEF BytesStay

LEMMA TaskBytes ==
    ASSUME NEW o \in Obs, O!TaskMoves(o)
    PROVE  BytesStay
  BY DEF O!TaskMoves, O!ObserveStarts, O!ObserveRaisesBeforeStart, O!WatchdogAborts,
         O!ObserveAborted, O!ObserveCompletes, O!ObserveFails, O!ObserveRaises,
         O!HandlerFails, O!TriesToQuarantine, O!NothingMoved, BytesStay

LEMMA ControllerBytes ==
    ASSUME Tick \/ Recovery \/ ControllerCrash \/ ControllerStart
    PROVE  BytesStay
<1>1. CASE UNCHANGED observingVars
  BY <1>1 DEF observingVars, BytesStay
<1>2. CASE TickSweepObservations \/ RecoverObserving
  BY <1>2 DEF TickSweepObservations, O!TickSweep, RecoverObserving, O!RecoverObserving,
              O!RecoverObservingFails, O!NothingMoved, BytesStay
<1>3. CASE TickResume \/ TickAdmission
  BY <1>3 DEF TickResume, TickAdmission, O!TickResume, O!TickSignature, O!TickMeasure,
              O!TickAdmit, BytesStay
<1>4. CASE \/ ControllerCrash \/ ControllerStart \/ KillManaged \/ RecoverAccepted
           \/ RecoverDeletion \/ RecoverStored
  BY <1>4 DEF ControllerCrash, O!ControllerCrash, ControllerStart, O!ControllerStart,
              KillManaged, O!KillManaged, RecoverAccepted, O!RecoverObservingDone,
              RecoverDeletion, O!RecoverDeletion, RecoverStored, O!RecoverStored, BytesStay
<1> QED
  BY <1>1, <1>2, <1>3, <1>4
     DEF Tick, Recovery, TickSweepRuns, TickRetry, TickRepair, RecoverRuns,
         RecoverDeletionsDone

(* While a removal is under way and a copy is left, its row says why.       *)
LEMMA RemovalIsDecided ==
    ASSUME TypeOK, PipeInv, NEW p \in Procs, NEW o \in Obs, target[p][1] = o,
           step[p] \in RemovalSteps, raw[o] # {}
    PROVE  P!HasVerdict(o) \/ observations[o].state = "INCONSISTENT"
<1>1. observations[o].state \in Removing
  BY DEF PipeInv, RoutineMatchesRow
<1>2. DataMatchesRow(o)
  BY DEF PipeInv, RowsInv
<1> QED
  BY <1>1, <1>2 DEF DataMatchesRow, Removing

LEMMA DeletionBytes ==
    ASSUME TypeOK, PipeInv, QuarantinedOK, NEW p \in Procs, DeletionStep(p)
    PROVE  QuarantinedOK' /\ \A o \in Obs : GoesByOperator(o)
<1>1. /\ disk \in [Obs -> Nat] /\ raw \in [Obs -> SUBSET P!Places]
      /\ quarantined \in [Obs -> Nat] /\ UNCHANGED quarantined
      /\ disk' = [o \in Obs |-> IF raw'[o] = {} THEN 0 ELSE disk[o]]
      /\ P!FinishStep(p) \/ P!DropStep(p)
  BY DEF TypeOK, RowsTypeOK, QuarantinedOK, DeletionStep, O!DeletionStep,
         P!FinishDeletion, P!ForceDrop
<1>2. PICK t \in Obs : t = target[p][1]
  <2>1. step[p] # "idle"
    BY <1>1 DEF P!FinishStep, P!DropStep, P!FinishRename, P!FinishRemove, P!FinishMark,
                P!DropLive, P!DropTrash, P!DropMark
  <2> QED
    BY <2>1 DEF TypeOK, RoutinesTypeOK, P!RunIds
<1>3. ASSUME NEW o \in Obs PROVE GoesByOperator(o)
  <2>1. DataMatchesRow(o) /\ disk[o] \in Nat /\ quarantined[o] \in Nat
    BY <1>1 DEF PipeInv, RowsInv
  <2>2. CASE raw'[o] # {} \/ raw[o] = {}
    BY <1>1, <2>1, <2>2 DEF GoesByOperator, DataMatchesRow
  <2>3. CASE raw'[o] = {} /\ raw[o] # {}
    <3>1. o = t /\ step[p] \in RemovalSteps
      BY <1>1, <1>2, <2>3
         DEF P!FinishStep, P!DropStep, P!FinishRename, P!FinishRemove, P!FinishMark,
             P!DropLive, P!DropTrash, P!DropMark, RemovalSteps
    <3> QED
      BY <1>2, <2>3, <3>1, RemovalIsDecided DEF GoesByOperator
  <2> QED
    BY <2>2, <2>3
<1> QED
  BY <1>1, <1>3 DEF QuarantinedOK

LEMMA PartBytes ==
    ASSUME TypeOK, PipeInv, QuarantinedOK, NEW p \in Procs, DeletionPart(p)
    PROVE  QuarantinedOK' /\ \A o \in Obs : GoesByOperator(o)
<1>1. /\ disk \in [Obs -> Nat] /\ quarantined \in [Obs -> Nat] /\ UNCHANGED quarantined
      /\ step[p] \in {"remove", "dropLive", "dropTrash"}
  BY DEF TypeOK, RowsTypeOK, QuarantinedOK, DeletionPart, O!DeletionPart
<1>2. PICK t \in Obs : t = target[p][1]
  BY <1>1 DEF TypeOK, RoutinesTypeOK, P!RunIds
<1>3. raw[t] # {} /\ \A o \in Obs \ {t} : disk'[o] = disk[o]
  BY <1>1, <1>2 DEF DeletionPart, O!DeletionPart
<1>4. P!HasVerdict(t) \/ observations[t].state = "INCONSISTENT"
  BY <1>1, <1>2, <1>3, RemovalIsDecided DEF RemovalSteps
<1> QED
  BY <1>1, <1>3, <1>4 DEF GoesByOperator, QuarantinedOK

LEMMA PurgeBytes ==
    ASSUME TypeOK, QuarantinedOK, NEW o \in Obs, O!Purge(o)
    PROVE  QuarantinedOK' /\ \A u \in Obs : GoesByOperator(u)
<1>1. /\ disk \in [Obs -> Nat] /\ quarantined \in [Obs -> Nat] /\ UNCHANGED disk
      /\ quarantined[o] > 0
      /\ \E left \in 0 .. quarantined[o] - 1 : quarantined' = [quarantined EXCEPT ![o] = left]
  BY DEF TypeOK, RowsTypeOK, QuarantinedOK, O!Purge
<1>2. PICK left \in 0 .. quarantined[o] - 1 : quarantined' = [quarantined EXCEPT ![o] = left]
  BY <1>1
<1>3. left \in Nat /\ left < quarantined[o]
  BY <1>1, <1>2
<1> QED
  BY <1>1, <1>2, <1>3 DEF GoesByOperator, QuarantinedOK

LEMMA WriterBytes ==
    ASSUME TypeOK, QuarantinedOK, NEW o \in Obs, O!WriterWrites(o) \/ O!WriterExits(o)
    PROVE  QuarantinedOK' /\ \A u \in Obs : GoesByOperator(u)
<1>1. /\ disk \in [Obs -> Nat] /\ quarantined \in [Obs -> Nat]
  BY DEF TypeOK, RowsTypeOK, QuarantinedOK
<1>2. \/ UNCHANGED <<disk, quarantined>>
      \/ disk' = [disk EXCEPT ![o] = @ + 1] /\ UNCHANGED quarantined
      \/ quarantined' = [quarantined EXCEPT ![o] = @ + 1] /\ UNCHANGED disk
  BY DEF O!WriterWrites, O!WriterExits
<1> QED
  BY <1>1, <1>2 DEF GoesByOperator, QuarantinedOK

LEMMA BytesStep ==
    ASSUME TypeOK, PipeInv, QuarantinedOK, [Next]_vars
    PROVE  QuarantinedOK' /\ \A o \in Obs : GoesByOperator(o)
<1>1. CASE \E o \in Obs : ObservingTask(o)
  BY <1>1, TaskBytes, BytesMove DEF ObservingTask
<1>2. CASE UNCHANGED observingVars
  BY <1>2, BytesMove DEF BytesStay, observingVars
<1>3. CASE Containers
  <2>1. UNCHANGED observingVars \/ \E o \in Obs : O!WriterWrites(o) \/ O!WriterExits(o)
    BY <1>3 DEF Containers, O!Containers
  <2> QED
    BY <1>2, <2>1, WriterBytes
<1>4. CASE Tick \/ Recovery \/ ControllerCrash \/ ControllerStart
  BY <1>4, ControllerBytes, BytesMove
<1>5. CASE \E p \in Procs : Command(p)
  <2>1. PICK p \in Procs : Command(p)
    BY <1>5
  <2>2. CASE Resolve(p) \/ CommandEnds(p)
    BY <2>2, BytesMove
       DEF Resolve, CommandEnds, O!CommandResolve, O!CommandEnds, O!obsVars, BytesStay
  <2> QED
    BY <1>2, <2>1, <2>2, DeletionBytes, PartBytes DEF Command, Verdict
<1>6. CASE Purge
  BY <1>6, PurgeBytes DEF Purge
<1>7. CASE UNCHANGED vars
  BY <1>2, <1>7 DEF vars
<1> QED
  BY <1>1, <1>2, <1>3, <1>4, <1>5, <1>6, <1>7 DEF Next, ProcessingTask

(* From the first byte on, raw data leaves the disk only by the operator,   *)
(* whatever fails, crashes or races: by a verdict, by a drop of a row found *)
(* INCONSISTENT, or by a purge of quarantine (qa.py, storage.py, cli.py).   *)
(* No hypothesis about docker or the operating system is needed.            *)
THEOREM BytesGoOnlyByOperatorHolds == Spec => BytesGoOnlyByOperator
<1>1. Init => QuarantinedOK
  BY DEF Init, O!Init, QuarantinedOK
<1>2. /\ TypeOK /\ PipeInv /\ QuarantinedOK /\ [Next]_vars
      => QuarantinedOK' /\ \A o \in Obs : GoesByOperator(o)
  BY BytesStep
<1>3. Spec => []QuarantinedOK
  BY <1>1, <1>2, Invariant, PTL DEF Spec
<1>4. TypeOK /\ PipeInv /\ QuarantinedOK /\ [Next]_vars =>
          [\A o \in Obs : GoesByOperator(o)]_vars
  BY <1>2
<1>5. Spec => [][\A o \in Obs : GoesByOperator(o)]_vars
  BY <1>3, <1>4, Invariant, PTL DEF Spec
<1> QED
  BY <1>5 DEF BytesGoOnlyByOperator, GoesByOperator

-----------------------------------------------------------------------------
(* The whole implements Observing: operators of both, one below the other.  *)

LEMMA SameRow ==
    ASSUME NEW o, NEW from, NEW to, NEW size, NEW reserved,
           O!TransitionObservation(o, from, to, size, reserved)
    PROVE  AsObserving!TransitionObservation(o, from, to, size, reserved)
  BY DEF O!TransitionObservation, AsObserving!TransitionObservation, O!ObsTransitions,
         AsObserving!ObsTransitions

LEMMA SameDb ==
    UNCHANGED O!dbVars => UNCHANGED AsObserving!dbVars
  BY DEF O!dbVars, AsObserving!dbVars

LEMMA SameFailure ==
    ASSUME NEW o, O!FailObserving(o)
    PROVE  AsObserving!FailObserving(o)
  BY SameRow DEF O!FailObserving, AsObserving!FailObserving, O!TransitionObservation,
         AsObserving!TransitionObservation, O!ObsTransitions, AsObserving!ObsTransitions

LEMMA SameQuarantine ==
    ASSUME NEW S, O!Quarantine(S)
    PROVE  AsObserving!Quarantine(S)
  BY DEF O!Quarantine, AsObserving!Quarantine, O!Moves, AsObserving!Moves, O!Invalidates,
         AsObserving!Invalidates, O!NoCache, AsObserving!NoCache

LEMMA SameNothing ==
    O!NothingMoved => AsObserving!NothingMoved
  BY DEF O!NothingMoved, AsObserving!NothingMoved

LEMMA SameTurn ==
    ASSUME NEW o, NEW where
    PROVE  /\ O!TaskTurn(o, where) => AsObserving!TaskTurn(o, where)
           /\ O!TaskGoesTo(o, where) => AsObserving!TaskGoesTo(o, where)
           /\ O!RunnerReturned(o) => AsObserving!RunnerReturned(o)
           /\ O!StopsWriter(o) => AsObserving!StopsWriter(o)
  BY DEF O!TaskTurn, AsObserving!TaskTurn, O!TaskGoesTo, AsObserving!TaskGoesTo,
         O!RunnerReturned, AsObserving!RunnerReturned, O!StopsWriter,
         AsObserving!StopsWriter, Deleting

LEMMA SameAdvance ==
    ASSUME NEW from, NEW to, O!Advance(from, to), Controller \in Procs
    PROVE  AsObserving!Advance(from, to)
  BY DEF O!Advance, AsObserving!Advance, Deleting, P!FinishSteps, P!DropSteps

LEMMA TaskMapped ==
    ASSUME NEW o \in Obs, O!TaskMoves(o)
    PROVE  AsObserving!TaskMoves(o)
<1>1. CASE O!ObserveStarts(o)
  BY <1>1, SameTurn, SameNothing
     DEF O!ObserveStarts, AsObserving!ObserveStarts, AsObserving!TaskMoves,
         O!TransitionObservation, AsObserving!TransitionObservation, O!ObsTransitions,
         AsObserving!ObsTransitions
<1>2. CASE O!ObserveRaisesBeforeStart(o)
  BY <1>2, SameTurn, SameNothing, SameDb
     DEF O!ObserveRaisesBeforeStart, AsObserving!ObserveRaisesBeforeStart,
         AsObserving!TaskMoves
<1>3. CASE O!WatchdogAborts(o)
  BY <1>3, SameTurn, SameNothing, SameDb
     DEF O!WatchdogAborts, AsObserving!WatchdogAborts, AsObserving!TaskMoves
<1>4. CASE O!ObserveAborted(o)
  BY <1>4, SameTurn, SameQuarantine, SameFailure
     DEF O!ObserveAborted, AsObserving!ObserveAborted, AsObserving!TaskMoves
<1>5. CASE O!ObserveCompletes(o)
  BY <1>5, SameTurn, SameNothing
     DEF O!ObserveCompletes, AsObserving!ObserveCompletes, AsObserving!TaskMoves,
         O!TransitionObservation, AsObserving!TransitionObservation, O!ObsTransitions,
         AsObserving!ObsTransitions
<1>6. CASE O!ObserveFails(o)
  BY <1>6, SameTurn, SameQuarantine, SameFailure
     DEF O!ObserveFails, AsObserving!ObserveFails, AsObserving!TaskMoves
<1>7. CASE O!ObserveRaises(o)
  BY <1>7, SameTurn, SameQuarantine, SameNothing, SameDb
     DEF O!ObserveRaises, AsObserving!ObserveRaises, AsObserving!TaskMoves
<1>8. CASE O!HandlerFails(o)
  <2>1. O!TriesToQuarantine(o) => AsObserving!TriesToQuarantine(o)
    BY SameQuarantine, SameNothing DEF O!TriesToQuarantine, AsObserving!TriesToQuarantine
  <2>2. O!TransitionObservation(o, "PLANNED", "OBSERVE_FAILED", observations[o].size, 0) =>
        AsObserving!TransitionObservation(o, "PLANNED", "OBSERVE_FAILED",
                                          observations[o].size, 0)
    BY DEF O!TransitionObservation, AsObserving!TransitionObservation, O!ObsTransitions,
           AsObserving!ObsTransitions
  <2> QED
    BY <1>8, <2>1, <2>2, SameTurn, SameNothing, SameFailure, SameDb
       DEF O!HandlerFails, AsObserving!HandlerFails, AsObserving!TaskMoves
<1> QED
  BY <1>1, <1>2, <1>3, <1>4, <1>5, <1>6, <1>7, <1>8 DEF O!TaskMoves

LEMMA WritersMapped ==
    O!Containers => AsObserving!Containers
  BY SameDb DEF O!Containers, AsObserving!Containers, O!WriterWrites,
         AsObserving!WriterWrites, O!WriterExits, AsObserving!WriterExits, Deleting

LEMMA SweepMapped ==
    ASSUME O!TickSweep
    PROVE  AsObserving!TickSweep
<1>1. O!Orphaned = AsObserving!Orphaned
  BY DEF O!Orphaned, AsObserving!Orphaned, O!ObservationsIn, AsObserving!ObservationsIn
<1>2. O!Quarantine(O!Orphaned) => AsObserving!Quarantine(O!Orphaned)
  BY DEF O!Quarantine, AsObserving!Quarantine, O!Moves, AsObserving!Moves, O!Invalidates,
         AsObserving!Invalidates, O!NoCache, AsObserving!NoCache
<1>3. O!Advance("idle", "sweep") => AsObserving!Advance("idle", "sweep")
  BY SameAdvance, PipelineAssumption
<1> QED
  BY <1>1, <1>2, <1>3, SameNothing DEF O!TickSweep, AsObserving!TickSweep, Deleting

LEMMA SameCardinality == \A S : O!Cardinality(S) = AsObserving!Cardinality(S)
  BY DEF O!Cardinality, AsObserving!Cardinality

LEMMA SameBytes == \A sizes, S : O!Bytes(sizes, S) = AsObserving!Bytes(sizes, S)
  BY SameCardinality DEF O!Bytes, AsObserving!Bytes

LEMMA AdmissionMapped ==
    ASSUME TickResume \/ TickAdmission
    PROVE  AsObserving!Ticks
<1>0. Controller \in Procs
  BY PipelineAssumption
<1>1. CASE O!TickResume
  <2>1. /\ O!MayAdmit <=> AsObserving!MayAdmit
        /\ O!LogicalUsed = AsObserving!LogicalUsed
        /\ O!LogicalReserved = AsObserving!LogicalReserved
    <3>1. O!ObservationsIn({"PLANNED", "OBSERVING"}) =
          AsObserving!ObservationsIn({"PLANNED", "OBSERVING"})
      BY DEF O!ObservationsIn, AsObserving!ObservationsIn
    <3>2. O!MayAdmit <=> AsObserving!MayAdmit
      BY <3>1, SameCardinality DEF O!MayAdmit, AsObserving!MayAdmit
    <3> QED
      BY <3>2, SameBytes, Zenon
         DEF O!LogicalUsed, AsObserving!LogicalUsed, O!LogicalReserved,
             AsObserving!LogicalReserved, O!ObservationsIn, AsObserving!ObservationsIn
  <2>2. AsObserving!Advance("sweep", IF O!MayAdmit THEN "admit" ELSE "idle")
    BY <1>0, <1>1
       DEF O!TickResume, O!Advance, AsObserving!Advance, Deleting, P!FinishSteps, P!DropSteps
  <2> QED
    BY <1>1, <2>1, <2>2, SameDb
       DEF O!TickResume, AsObserving!TickResume, AsObserving!Ticks, Deleting
<1>2. CASE O!TickSignature
  <2>1. AsObserving!Advance("admit", IF aux.match THEN "decide" ELSE "measure")
    BY <1>0, <1>2
       DEF O!TickSignature, O!Advance, AsObserving!Advance, Deleting, P!FinishSteps,
           P!DropSteps
  <2> QED
    BY <1>2, <2>1, SameDb
       DEF O!TickSignature, AsObserving!TickSignature, AsObserving!Ticks, Deleting
<1>3. CASE O!TickMeasure
  <2>1. /\ O!QuarantineBytes = AsObserving!QuarantineBytes
        /\ O!TrashBytes = AsObserving!TrashBytes
    BY SameBytes, Zenon
       DEF O!QuarantineBytes, AsObserving!QuarantineBytes, O!TrashBytes,
           AsObserving!TrashBytes
  <2> QED
    BY <1>0, <1>3, <2>1, SameDb, SameAdvance
       DEF O!TickMeasure, AsObserving!TickMeasure, AsObserving!Ticks, Deleting
<1>4. CASE O!TickAdmit
  <2>1. /\ O!Fits <=> AsObserving!Fits
        /\ \A o \in Obs : O!Admit(o) => AsObserving!Admit(o)
    BY DEF O!Fits, AsObserving!Fits, O!Admit, AsObserving!Admit, O!InsertObservation,
           AsObserving!InsertObservation
  <2> QED
    BY <1>0, <1>4, <2>1, SameDb, SameAdvance
       DEF O!TickAdmit, AsObserving!TickAdmit, AsObserving!Ticks, O!NoCache,
           AsObserving!NoCache, Deleting
<1> QED
  BY <1>1, <1>2, <1>3, <1>4 DEF TickResume, TickAdmission

LEMMA RecoverObservingMapped ==
    ASSUME NEW o \in Obs, O!RecoverObserving(o) \/ O!RecoverObservingFails(o)
    PROVE  AsObserving!Recovery
<1>1. O!Recovers(o) => AsObserving!Recovers(o)
  BY SameAdvance, PipelineAssumption DEF O!Recovers, AsObserving!Recovers, Deleting
<1> QED
  BY <1>1, SameQuarantine, SameFailure, SameNothing, SameDb
     DEF O!RecoverObserving, AsObserving!RecoverObserving, O!RecoverObservingFails,
         AsObserving!RecoverObservingFails, AsObserving!Recovery

LEMMA RecoveryMapped ==
    ASSUME O!ControllerStart \/ O!KillManaged \/ O!RecoverObservingDone \/ O!RecoverStored
    PROVE  AsObserving!Recovery
<1>0. Controller \in Procs
  BY PipelineAssumption
<1>1. CASE O!ControllerStart
  BY <1>0, <1>1, SameDb, SameAdvance
     DEF O!ControllerStart, AsObserving!ControllerStart, AsObserving!Recovery, Deleting
<1>2. CASE O!KillManaged
  BY <1>0, <1>2, SameDb, SameAdvance
     DEF O!KillManaged, AsObserving!KillManaged, AsObserving!Recovery, O!ObservationsIn,
         AsObserving!ObservationsIn, Deleting
<1>3. CASE O!RecoverObservingDone
  BY <1>0, <1>3, SameDb, SameAdvance
     DEF O!RecoverObservingDone, AsObserving!RecoverObservingDone, AsObserving!Recovery,
         O!ObservationsIn, AsObserving!ObservationsIn, Deleting
<1>4. CASE O!RecoverStored
  BY <1>0, <1>4, SameAdvance
     DEF O!RecoverStored, AsObserving!RecoverStored, AsObserving!Recovery,
         O!ObservationsIn, AsObserving!ObservationsIn, Deleting
<1> QED
  BY <1>1, <1>2, <1>3, <1>4

(* What Observing sees of a process that begins, goes on with or leaves a    *)
(* routine.                                                                 *)
LEMMA BecomeMapped ==
    ASSUME RoutinesTypeOK, NEW p \in Procs, NEW s \in P!FinishSteps \cup P!DropSteps, NEW r,
           P!Become(p, s, r)
    PROVE  AsObserving!Become(p, s, <<r[1], 1>>)
<1>1. /\ step' = [step EXCEPT ![p] = s] /\ target' = [target EXCEPT ![p] = r]
      /\ step \in [Procs -> Steps] /\ target \in [Procs -> P!RunIds \cup {None}]
  BY DEF P!Become, RoutinesTypeOK
<1>2. /\ step'[p] = s /\ target'[p] = r
      /\ \A q \in Procs \ {p} : step'[q] = step[q] /\ target'[q] = target[q]
  BY <1>1
<1>3. [q \in Procs |-> IF Deleting(q) THEN step[q] ELSE "idle"]' =
          [[q \in Procs |-> IF Deleting(q) THEN step[q] ELSE "idle"] EXCEPT ![p] = s]
  BY <1>2 DEF Deleting
<1>4. [q \in Procs |-> IF Deleting(q) THEN <<target[q][1], 1>> ELSE None]' =
          [[q \in Procs |-> IF Deleting(q) THEN <<target[q][1], 1>> ELSE None]
              EXCEPT ![p] = <<r[1], 1>>]
  BY <1>2 DEF Deleting
<1> QED
  BY <1>3, <1>4 DEF AsObserving!Become

LEMMA LeaveMapped ==
    ASSUME RoutinesTypeOK, NEW p \in Procs, P!Leave(p)
    PROVE  AsObserving!Leave(p)
<1>1. /\ step' = [step EXCEPT ![p] = "idle"] /\ target' = [target EXCEPT ![p] = None]
      /\ step \in [Procs -> Steps] /\ target \in [Procs -> P!RunIds \cup {None}]
  BY DEF P!Leave, P!Become, RoutinesTypeOK
<1>2. /\ step'[p] = "idle"
      /\ \A q \in Procs \ {p} : step'[q] = step[q] /\ target'[q] = target[q]
  BY <1>1
<1>3. ~ Deleting(p)'
  BY <1>2 DEF Deleting, P!FinishSteps, P!DropSteps
<1>4. [q \in Procs |-> IF Deleting(q) THEN step[q] ELSE "idle"]' =
          [[q \in Procs |-> IF Deleting(q) THEN step[q] ELSE "idle"] EXCEPT ![p] = "idle"]
  BY <1>2, <1>3 DEF Deleting
<1>5. [q \in Procs |-> IF Deleting(q) THEN <<target[q][1], 1>> ELSE None]' =
          [[q \in Procs |-> IF Deleting(q) THEN <<target[q][1], 1>> ELSE None]
              EXCEPT ![p] = None]
  BY <1>2, <1>3 DEF Deleting
<1> QED
  BY <1>4, <1>5 DEF AsObserving!Leave, AsObserving!Become

LEMMA OtherRoutine ==
    ASSUME RoutinesTypeOK, NEW p \in Procs, ~ Deleting(p),
           \/ P!Leave(p)
           \/ \E s \in P!CommandSteps \cup {"requeue"} : \E r : P!Become(p, s, r)
    PROVE  UNCHANGED <<[q \in Procs |-> IF Deleting(q) THEN step[q] ELSE "idle"],
                       [q \in Procs |-> IF Deleting(q) THEN <<target[q][1], 1>> ELSE None]>>
<1>1. /\ \A q \in Procs \ {p} : step'[q] = step[q] /\ target'[q] = target[q]
      /\ step'[p] \in P!CommandSteps \cup {"requeue", "idle"}
  BY DEF P!Leave, P!Become, RoutinesTypeOK
<1>2. ~ Deleting(p)'
  BY <1>1 DEF Deleting, P!FinishSteps, P!DropSteps, P!CommandSteps
<1> QED
  BY <1>1, <1>2 DEF Deleting

-----------------------------------------------------------------------------
(* ... its commands, ...                                                    *)

SeenRoutines ==
    <<[q \in Procs |-> IF Deleting(q) THEN step[q] ELSE "idle"],
      [q \in Procs |-> IF Deleting(q) THEN <<target[q][1], 1>> ELSE None]>>

SeenByObserving == <<observations, raw, SeenRoutines, observingVars>>

LEMMA ObservingStutters ==
    UNCHANGED SeenByObserving => UNCHANGED AsObserving!vars
  BY DEF SeenByObserving, SeenRoutines, observingVars, AsObserving!vars, AsObserving!dbVars,
         AsObserving!obsVars

LEMMA VerdictMapped ==
    ASSUME TypeOK, PipeInv, NEW p \in Procs, Verdict(p)
    PROVE  AsObserving!Commands \/ UNCHANGED SeenByObserving
<1>0. RoutinesTypeOK /\ RoutineMatchesRow(p) /\ UNCHANGED observingVars
  BY DEF TypeOK, PipeInv, Verdict
<1>1. CASE \E r \in P!RunIds :
               P!BeginAccept(p, r) \/ P!BeginReprocess(p, r) \/ P!BeginDiscard(p, r)
  <2>1. PICK r \in P!RunIds, from \in SUBSET P!RunStates, s \in P!CommandSteps :
            P!Validates(p, r, from, s)
    BY <1>1 DEF P!BeginAccept, P!BeginReprocess, P!BeginDiscard, P!CommandSteps, P!RunStates
  <2>2. /\ ~ Deleting(p) /\ P!Become(p, s, r) /\ UNCHANGED <<observations, raw>>
    BY <2>1 DEF P!Validates, Deleting, P!FinishSteps, P!DropSteps, P!dbVars
  <2> QED
    BY <1>0, <2>2, OtherRoutine DEF SeenByObserving, SeenRoutines
<1>2. CASE P!CommitReprocess(p)
  <2>1. ~ Deleting(p) /\ P!Leave(p) /\ UNCHANGED <<observations, raw>>
    BY <1>2 DEF P!CommitReprocess, P!ReprocessRunAndCreate, Deleting, P!FinishSteps,
                P!DropSteps
  <2> QED
    BY <1>0, <2>1, OtherRoutine DEF SeenByObserving, SeenRoutines
<1>3. CASE P!CommitAccept(p) \/ P!CommitDiscard(p)
  <2>1. PICK r \in P!RunIds : r = target[p]
    BY <1>0, <1>3 DEF P!CommitAccept, P!CommitDiscard, RoutinesTypeOK
  <2>2. PICK o \in Obs : o = r[1]
    BY DEF P!RunIds
  <2>3. /\ step[p] \in P!CommandSteps /\ P!Become(p, "rename", r)
        /\ observations[o].state = "STORED" /\ UNCHANGED raw
        /\ observations' = [observations EXCEPT ![o].state = "DELETING"]
    BY <1>3, <2>1, <2>2
       DEF P!CommitAccept, P!CommitDiscard, P!Continue, P!AcceptRunAndBeginDeletion,
           P!DiscardFailedRunAndBeginDeletion, P!VerdictAllowed, P!BeginDeletion,
           P!CommandSteps
  <2>4. p # Controller /\ "live" \in raw[o]
    BY <1>0, <2>1, <2>2, <2>3 DEF RoutineMatchesRow
  <2>5. AsObserving!Become(p, "rename", <<o, 1>>)
    BY <1>0, <2>2, <2>3, BecomeMapped DEF P!FinishSteps
  <2>6. ~ Deleting(p)
    BY <2>3 DEF Deleting, P!FinishSteps, P!DropSteps, P!CommandSteps
  <2>7. AsObserving!CommandVerdict(p, o)
    BY <1>0, <2>3, <2>4, <2>5, <2>6
       DEF AsObserving!CommandVerdict, AsObserving!Cli, AsObserving!BeginDeletion,
           AsObserving!obsVars, observingVars
  <2> QED
    BY <2>7 DEF AsObserving!Commands
<1> QED
  BY <1>1, <1>2, <1>3 DEF Verdict

LEMMA ResolveMapped ==
    ASSUME TypeOK, NEW p \in Procs, Resolve(p)
    PROVE  AsObserving!Commands
<1>1. PICK o \in Obs : O!CommandResolve(p, o)
  BY DEF Resolve
<1>2. /\ p \in O!Cli /\ step[p] = "idle"
      /\ observations[o].state \in {"DELETING", "INCONSISTENT"}
      /\ UNCHANGED <<observations, runs, raw, O!obsVars>>
      /\ P!Become(p, "dropLive", <<o, 1>>)
  BY <1>1 DEF O!CommandResolve, O!BeginDrop, O!Become, P!Become, O!dbVars
<1>3. PICK r : r = <<o, 1>>
  OBVIOUS
<1>4. AsObserving!Become(p, "dropLive", <<r[1], 1>>)
  BY <1>2, <1>3, BecomeMapped DEF TypeOK, P!DropSteps
<1>5. AsObserving!Become(p, "dropLive", <<o, 1>>)
  BY <1>3, <1>4
<1>6. ~ Deleting(p)
  BY <1>2 DEF Deleting, P!FinishSteps, P!DropSteps
<1>7. AsObserving!CommandResolve(p, o)
  BY <1>2, <1>5, <1>6
     DEF AsObserving!CommandResolve, AsObserving!BeginDrop, O!Cli, AsObserving!Cli,
         AsObserving!dbVars, AsObserving!obsVars, O!obsVars
<1> QED
  BY <1>7 DEF AsObserving!Commands

LEMMA EndsMapped ==
    ASSUME TypeOK, NEW p \in Procs, CommandEnds(p)
    PROVE  AsObserving!Commands \/ UNCHANGED SeenByObserving
<1>1. /\ P!Leave(p) /\ RoutinesTypeOK
      /\ UNCHANGED <<observations, runs, raw, O!obsVars>>
  BY DEF CommandEnds, P!CommandEnds, P!Abandon, O!CommandEnds, P!dbVars, TypeOK
<1>2. CASE ~ Deleting(p)
  BY <1>1, <1>2, OtherRoutine DEF SeenByObserving, SeenRoutines, observingVars, O!obsVars
<1>3. CASE Deleting(p)
  <2>1. AsObserving!Leave(p)
    BY <1>1, LeaveMapped
  <2>2. AsObserving!CommandEnds(p)
    BY <1>1, <1>3, <2>1
       DEF AsObserving!CommandEnds, AsObserving!Abandon, AsObserving!dbVars,
           AsObserving!obsVars, O!obsVars, Deleting, P!FinishSteps, P!DropSteps
  <2> QED
    BY <2>2 DEF AsObserving!Commands
<1> QED
  BY <1>2, <1>3

LEMMA PartMapped ==
    ASSUME NEW p \in Procs, DeletionPart(p)
    PROVE  AsObserving!Commands
<1>1. /\ O!DeletionPart(p) /\ step[p] \in {"remove", "dropLive", "dropTrash"}
  BY DEF DeletionPart, O!DeletionPart
<1>2. Deleting(p)
  BY <1>1 DEF Deleting, P!FinishSteps, P!DropSteps
<1>3. AsObserving!DeletionPart(p)
  BY <1>1, <1>2, SameDb DEF O!DeletionPart, AsObserving!DeletionPart, Deleting
<1> QED
  BY <1>3 DEF AsObserving!Commands

LEMMA PurgeMapped ==
    Purge => AsObserving!Commands
  BY SameDb
     DEF Purge, O!Purge, AsObserving!Purge, O!ShowsChange, AsObserving!ShowsChange,
         O!NoCache, AsObserving!NoCache, AsObserving!Commands, Deleting

LEMMA DeletionMapped ==
    ASSUME TypeOK, NEW p \in Procs, DeletionStep(p)
    PROVE  AsObserving!Commands
<1>1. /\ RoutinesTypeOK /\ O!DeletionStep(p)
      /\ P!FinishStep(p) \/ P!DropStep(p)
  BY DEF TypeOK, DeletionStep, P!FinishDeletion, P!ForceDrop
<1>2. Deleting(p) /\ step[p] # "idle"
  BY <1>1 DEF P!FinishStep, P!DropStep, P!FinishRename, P!FinishRemove, P!FinishMark,
              P!DropLive, P!DropTrash, P!DropMark, Deleting, P!FinishSteps, P!DropSteps
<1>3. PICK r \in P!RunIds : r = target[p]
  BY <1>1, <1>2 DEF RoutinesTypeOK
<1>4. \A s \in P!FinishSteps \cup P!DropSteps :
          P!Continue(p, s) => AsObserving!Continue(p, s)
  <2> SUFFICES ASSUME NEW s \in P!FinishSteps \cup P!DropSteps, P!Continue(p, s)
               PROVE  AsObserving!Continue(p, s)
    OBVIOUS
  <2>1. AsObserving!Become(p, s, <<r[1], 1>>)
    BY <1>1, <1>3, BecomeMapped DEF P!Continue
  <2>2. [q \in Procs |-> IF Deleting(q) THEN <<target[q][1], 1>> ELSE None][p] = <<r[1], 1>>
    BY <1>2, <1>3
  <2> QED
    BY <2>1, <2>2 DEF AsObserving!Continue, AsObserving!Become
<1>5. P!Leave(p) => AsObserving!Leave(p)
  BY <1>1, LeaveMapped
<1>6. [q \in Procs |-> IF Deleting(q) THEN step[q] ELSE "idle"][p] = step[p]
      /\ [q \in Procs |-> IF Deleting(q) THEN <<target[q][1], 1>> ELSE None][p][1] = target[p][1]
  BY <1>2
<1>7. P!FinishStep(p) => AsObserving!FinishStep(p)
  BY <1>4, <1>5, <1>6
     DEF P!FinishStep, P!FinishRename, P!FinishRemove, P!FinishMark, AsObserving!FinishStep,
         AsObserving!FinishRename, AsObserving!FinishRemove, AsObserving!FinishMark,
         P!FinishSteps, P!TransitionObservation, AsObserving!TransitionObservation,
         P!ObsTransitions, AsObserving!ObsTransitions, P!dbVars, AsObserving!dbVars
<1>8. P!DropStep(p) => AsObserving!DropStep(p)
  BY <1>4, <1>5, <1>6
     DEF P!DropStep, P!DropLive, P!DropTrash, P!DropMark, AsObserving!DropStep,
         AsObserving!DropLive, AsObserving!DropTrash, AsObserving!DropMark,
         P!DropSteps, P!TransitionObservation, AsObserving!TransitionObservation,
         P!ObsTransitions, AsObserving!ObsTransitions, P!dbVars, AsObserving!dbVars
<1>9. AsObserving!DeletionStep(p)
  BY <1>1, <1>7, <1>8
     DEF O!DeletionStep, AsObserving!DeletionStep, O!ShowsChange, AsObserving!ShowsChange,
         O!NoCache, AsObserving!NoCache
<1> QED
  BY <1>9 DEF AsObserving!Commands

-----------------------------------------------------------------------------
(* ... its crashes, its start and its recovery together with Processing's.  *)

LEMMA CrashMapped ==
    ASSUME TypeOK, ControllerCrash
    PROVE  AsObserving!ControllerCrash
<1>1. P!Leave(Controller) /\ O!ControllerCrash /\ Controller \in Procs
  BY PipelineAssumption DEF ControllerCrash, P!ControllerCrash
<1>2. AsObserving!Leave(Controller)
  BY <1>1, LeaveMapped DEF TypeOK
<1> QED
  BY <1>1, <1>2, SameDb
     DEF O!ControllerCrash, AsObserving!ControllerCrash, O!NoCache, AsObserving!NoCache

LEMMA RecoverDeletionMapped ==
    ASSUME TypeOK, RecoverDeletion
    PROVE  AsObserving!Recovery
<1>1. PICK o \in Obs : P!RecoverDeletion(o) /\ O!RecoverDeletion(o)
  BY DEF RecoverDeletion
<1>2. Controller \in Procs /\ P!Become(Controller, "rename", <<o, 1>>)
  BY <1>1, PipelineAssumption DEF P!RecoverDeletion
<1>3. PICK r : r = <<o, 1>>
  OBVIOUS
<1>4. AsObserving!Become(Controller, "rename", <<r[1], 1>>)
  BY <1>2, <1>3, BecomeMapped DEF TypeOK, P!FinishSteps
<1>5. AsObserving!RecoverDeletion(o)
  BY <1>1, <1>2, <1>3, <1>4, SameAdvance, SameDb
     DEF O!RecoverDeletion, AsObserving!RecoverDeletion
<1> QED
  BY <1>5 DEF AsObserving!Recovery

(* What only Processing sees.                                               *)
LEMMA ProcessingUnseen ==
    ASSUME TypeOK, PipeInv,
           \/ ProcessingTick
           \/ \E r \in P!RunIds : ProcessingTask(r)
           \/ Containers /\ UNCHANGED observingVars
    PROVE  UNCHANGED SeenByObserving \/ AsObserving!Containers
<1>1. CASE ProcessingTick
  <2>1. UNCHANGED <<observations, raw, observingVars>>
    BY <1>1, ProcessingTickFrame DEF ProcessingFrame
  <2>2. \/ UNCHANGED <<step, target>>
        \/ ~ Deleting(Controller) /\ P!Leave(Controller)
        \/ ~ Deleting(Controller) /\ \E r \in P!RunIds : P!Become(Controller, "requeue", r)
    BY <1>1
       DEF ProcessingTick, TickSweepRuns, TickRetry, TickRepair, RecoverRuns,
           RecoverDeletionsDone, P!TickSweep, P!TickMarkExhausted, P!TickListRetryable,
           P!TickCleanup, P!TickCleanupFails, P!TickRequeue, P!TickListWithoutRuns,
           P!TickCreateRun, P!TickSpawn, P!RecoverRun, P!RecoverRunFails,
           P!RecoverRunsDone, P!RecoverDeletionsDone, P!Advance, Deleting,
           P!FinishSteps, P!DropSteps
  <2>3. UNCHANGED SeenRoutines
    BY <2>2, OtherRoutine, PipelineAssumption DEF TypeOK, SeenRoutines, Deleting
  <2> QED
    BY <2>1, <2>3 DEF SeenByObserving
<1>2. CASE \E r \in P!RunIds : ProcessingTask(r)
  BY <1>2, WorkersFrame
     DEF ProcessingTask, ProcessingFrame, SeenByObserving, SeenRoutines, Deleting
<1>3. CASE Containers /\ UNCHANGED observingVars
  BY <1>3, WritersMapped
     DEF Containers, P!ContainerWrites, P!ContainerExits, P!dbVars, SeenByObserving,
         SeenRoutines, Deleting
<1> QED
  BY <1>1, <1>2, <1>3

LEMMA ObservingInit ==
    ASSUME Init
    PROVE  AsObserving!Init
<1>1. [r \in P!RunIds |-> P!NoRun] = [r \in AsObserving!RunIds |-> AsObserving!NoRun]
  BY DEF P!RunIds, P!Attempts, P!NoRun, AsObserving!RunIds, AsObserving!Attempts,
         AsObserving!NoRun
<1>2. \A q \in Procs : ~ Deleting(q)
  BY DEF Init, P!Init, Deleting, P!FinishSteps, P!DropSteps
<1>3. O!Init
  BY DEF Init
<1> QED
  BY <1>1, <1>2, <1>3
     DEF O!Init, AsObserving!Init, O!NoObservation, AsObserving!NoObservation, O!NoCache,
         AsObserving!NoCache

LEMMA ObservingStep ==
    ASSUME TypeOK, PipeInv, [Next]_vars
    PROVE  AsObserving!Next \/ UNCHANGED SeenByObserving
<1>1. CASE \E o \in Obs : ObservingTask(o)
  BY <1>1, TaskMapped DEF ObservingTask, AsObserving!Next
<1>2. CASE ProcessingTick \/ \E r \in P!RunIds : ProcessingTask(r)
  BY <1>2, ProcessingUnseen DEF AsObserving!Next
<1>3. CASE Containers
  BY <1>3, ProcessingUnseen, WritersMapped DEF Containers, AsObserving!Next
<1>4. CASE TickSweepObservations
  BY <1>4, SweepMapped DEF TickSweepObservations, AsObserving!Next, AsObserving!Ticks
<1>5. CASE TickResume \/ TickAdmission
  BY <1>5, AdmissionMapped DEF AsObserving!Next
<1>6. CASE ControllerCrash
  BY <1>6, CrashMapped DEF AsObserving!Next
<1>7. CASE ControllerStart \/ KillManaged \/ RecoverAccepted \/ RecoverStored
  BY <1>7, RecoveryMapped
     DEF ControllerStart, KillManaged, RecoverAccepted, RecoverStored, AsObserving!Next
<1>8. CASE RecoverObserving
  BY <1>8, RecoverObservingMapped DEF RecoverObserving, AsObserving!Next
<1>9. CASE RecoverDeletion
  BY <1>9, RecoverDeletionMapped DEF AsObserving!Next
<1>10. CASE \E p \in Procs : Command(p)
  BY <1>10, VerdictMapped, ResolveMapped, EndsMapped, PartMapped, DeletionMapped
     DEF Command, AsObserving!Next
<1>11. CASE Purge
  BY <1>11, PurgeMapped DEF AsObserving!Next
<1>12. CASE UNCHANGED vars
  BY <1>12
     DEF vars, sharedVars, SeenByObserving, SeenRoutines, Deleting
<1> QED
  BY <1>1, <1>2, <1>3, <1>4, <1>5, <1>6, <1>7, <1>8, <1>9, <1>10, <1>11, <1>12
     DEF Next, Tick, Recovery, ProcessingTick

(* Every step of the whole controller is a step of Observing, or changes    *)
(* nothing it sees: retries, repairs, verdicts and processing containers    *)
(* never change what is charged, measured or quarantined, and a verdict     *)
(* that begins a deletion finds the MS it decides on, because only the      *)
(* command itself takes it out of the way (scheduler.py, reconcile.py,      *)
(* qa.py).                                                                  *)
THEOREM ImplementsObservingHolds == Spec => ImplementsObserving
<1>1. Init => AsObserving!Init
  BY ObservingInit
<1>2. TypeOK /\ PipeInv /\ [Next]_vars => [AsObserving!Next]_(AsObserving!vars)
  BY ObservingStep, ObservingStutters
<1> QED
  BY <1>1, <1>2, Invariant, PTL DEF Spec, ImplementsObserving, AsObserving!Spec

-----------------------------------------------------------------------------
(* The whole implements Processing: operators of both, one below the other. *)

SeenObservations == [o \in Obs |-> SeenRow(o)]

SeenRaw == [o \in Obs |-> IF Unseen(o) THEN {} ELSE raw[o]]

Seen == <<SeenObservations, SeenRaw>>

LEMMA SeenStays == UNCHANGED <<observations, raw>> => UNCHANGED Seen
  BY DEF Seen, SeenObservations, SeenRaw, SeenRow, Unseen

(* What does not touch a row Processing sees does not touch what it sees.   *)
LEMMA UnseenStays ==
    ASSUME \A o \in Obs : \/ observations'[o] = observations[o] /\ raw'[o] = raw[o]
                          \/ Unseen(o) /\ Unseen(o)'
    PROVE  UNCHANGED Seen
<1>1. ASSUME NEW o \in Obs
      PROVE  /\ SeenRow(o)' = SeenRow(o)
             /\ (IF Unseen(o) THEN {} ELSE raw[o])' = (IF Unseen(o) THEN {} ELSE raw[o])
  BY DEF SeenRow, Unseen
<1> QED
  BY <1>1 DEF Seen, SeenObservations, SeenRaw

LEMMA ProcessingStutters ==
    UNCHANGED <<Seen, runs, step, target, processingVars>> => UNCHANGED AsProcessing!vars
  BY DEF Seen, SeenObservations, SeenRaw, processingVars, AsProcessing!vars,
         AsProcessing!dbVars, AsProcessing!taskVars

LEMMA SameRuns ==
    /\ P!RunIds = AsProcessing!RunIds
    /\ \A o : P!RunsOf(o) = AsProcessing!RunsOf(o)
    /\ \A states : P!RunsIn(states) = AsProcessing!RunsIn(states)
    /\ \A o : P!HasActiveRuns(o) <=> AsProcessing!HasActiveRuns(o)
    /\ \A o : P!HasAcceptedRun(o) <=> AsProcessing!HasAcceptedRun(o)
    /\ \A r : P!HasOtherActiveRuns(r) <=> AsProcessing!HasOtherActiveRuns(r)
<1>1. P!RunIds = AsProcessing!RunIds
  BY DEF P!RunIds, AsProcessing!RunIds, P!Attempts, AsProcessing!Attempts
<1>2. \A o : P!RunsOf(o) = AsProcessing!RunsOf(o)
  BY <1>1 DEF P!RunsOf, AsProcessing!RunsOf
<1>3. \A states : P!RunsIn(states) = AsProcessing!RunsIn(states)
  BY <1>1 DEF P!RunsIn, AsProcessing!RunsIn
<1> QED
  BY <1>1, <1>2, <1>3
     DEF P!HasActiveRuns, AsProcessing!HasActiveRuns, P!HasAcceptedRun,
         AsProcessing!HasAcceptedRun, P!HasOtherActiveRuns, AsProcessing!HasOtherActiveRuns,
         P!ActiveRunStates, AsProcessing!ActiveRunStates

LEMMA SameProcessingDb ==
    UNCHANGED P!dbVars => UNCHANGED AsProcessing!dbVars
  BY SeenStays DEF P!dbVars, AsProcessing!dbVars, SeenRow, Unseen

LEMMA SameRaw ==
    UNCHANGED <<observations, raw>> =>
        UNCHANGED [o \in Obs |-> IF Unseen(o) THEN {} ELSE raw[o]]
  BY DEF Unseen

LEMMA SameObservations ==
    UNCHANGED observations => UNCHANGED [o \in Obs |-> SeenRow(o)]
  BY DEF SeenRow, Unseen

LEMMA SameRunChange ==
    ASSUME NEW r, NEW from, NEW to, P!TransitionRun(r, from, to)
    PROVE  AsProcessing!TransitionRun(r, from, to)
  BY SameObservations
     DEF P!TransitionRun, AsProcessing!TransitionRun, P!RunTransitions,
         AsProcessing!RunTransitions, P!Moved, AsProcessing!Moved

LEMMA SameState ==
    ASSUME NEW o \in Obs
    PROVE  /\ [u \in Obs |-> SeenRow(u)][o] = SeenRow(o)
           /\ ~ Unseen(o) => /\ SeenRow(o).state = observations[o].state
                             /\ [u \in Obs |-> IF Unseen(u) THEN {} ELSE raw[u]][o] = raw[o]
           /\ Unseen(o) => /\ SeenRow(o).state = "ABSENT"
                           /\ [u \in Obs |-> IF Unseen(u) THEN {} ELSE raw[u]][o] = {}
  BY DEF SeenRow, Unseen

LEMMA SameStates ==
    ASSUME NEW states,
           states \cap {"ABSENT", "PLANNED", "OBSERVING", "OBSERVE_FAILED"} = {}
    PROVE  P!ObservationsIn(states) = AsProcessing!ObservationsIn(states)
  BY SameState DEF P!ObservationsIn, AsProcessing!ObservationsIn, Unseen

LEMMA SameVerdict ==
    ASSUME NEW r \in P!RunIds, NEW from
    PROVE  /\ P!VerdictAllowed(r, from) <=> AsProcessing!VerdictAllowed(r, from)
           /\ P!Validated(r, from) => AsProcessing!Validated(r, from)
<1>1. PICK o \in Obs : o = r[1]
  BY DEF P!RunIds
<1>2. /\ observations[o].state = "STORED" <=> [u \in Obs |-> SeenRow(u)][o].state = "STORED"
      /\ observations[o].state = "STORED" =>
             [u \in Obs |-> IF Unseen(u) THEN {} ELSE raw[u]][o] = raw[o]
  BY SameState DEF Unseen
<1> QED
  BY <1>1, <1>2, SameRuns
     DEF P!VerdictAllowed, AsProcessing!VerdictAllowed, P!Validated, AsProcessing!Validated

-----------------------------------------------------------------------------
(* ... its worker tasks, ...                                                *)

LEMMA WorkersMapped ==
    ASSUME NEW r \in P!RunIds, P!WorkerMoves(r)
    PROVE  AsProcessing!WorkerMoves(r)
<1>1. /\ \A k : P!WorkerTurn(r, k) => AsProcessing!WorkerTurn(r, k)
      /\ P!RunnerReturned(r) => AsProcessing!RunnerReturned(r)
      /\ P!SlotFree => AsProcessing!SlotFree
  <2>1. P!Running = AsProcessing!Running
    BY SameRuns DEF P!Running, AsProcessing!Running
  <2>2. \A S : P!Cardinality(S) = AsProcessing!Cardinality(S)
    BY DEF P!Cardinality, AsProcessing!Cardinality
  <2> QED
    BY <2>1, <2>2
       DEF P!WorkerTurn, AsProcessing!WorkerTurn, P!RunnerReturned,
           AsProcessing!RunnerReturned, P!SlotFree, AsProcessing!SlotFree
<1>2. UNCHANGED <<observations, raw>>
  BY DEF P!WorkerMoves, P!WorkerClaims, P!WorkerRaisesBeforeClaim, P!WorkerSucceeds,
         P!WorkerFails, P!WorkerDies, P!WorkerEnds, P!TransitionRun, P!dbVars
<1>3. P!WorkerEnds(r) => AsProcessing!WorkerEnds(r)
  BY <1>2, SameRaw DEF P!WorkerEnds, AsProcessing!WorkerEnds
<1>4. \A from, to : P!TransitionRun(r, from, to) => AsProcessing!TransitionRun(r, from, to)
  BY SameRunChange
<1>5. P!WorkerClaims(r) => AsProcessing!WorkerClaims(r)
  BY <1>1, <1>2, <1>4, SameRaw DEF P!WorkerClaims, AsProcessing!WorkerClaims
<1>6. P!WorkerRaisesBeforeClaim(r) => AsProcessing!WorkerRaisesBeforeClaim(r)
  BY <1>1, <1>3, <1>4, SameProcessingDb
     DEF P!WorkerRaisesBeforeClaim, AsProcessing!WorkerRaisesBeforeClaim
<1>7. P!WorkerSucceeds(r) => AsProcessing!WorkerSucceeds(r)
  BY <1>1, <1>3, <1>4 DEF P!WorkerSucceeds, AsProcessing!WorkerSucceeds
<1>8. P!WorkerFails(r) => AsProcessing!WorkerFails(r)
  BY <1>1, <1>3, <1>4 DEF P!WorkerFails, AsProcessing!WorkerFails
<1>9. P!WorkerDies(r) => AsProcessing!WorkerDies(r)
  BY <1>1, <1>3, SameProcessingDb DEF P!WorkerDies, AsProcessing!WorkerDies
<1> QED
  BY <1>5, <1>6, <1>7, <1>8, <1>9 DEF P!WorkerMoves, AsProcessing!WorkerMoves

-----------------------------------------------------------------------------
(* ... the tick and the recovery of runs, ...                               *)

LEMMA SameRoutine ==
    ASSUME NEW p, NEW s, NEW r
    PROVE  /\ P!Become(p, s, r) => AsProcessing!Become(p, s, r)
           /\ P!Leave(p) => AsProcessing!Leave(p)
           /\ P!Continue(p, s) => AsProcessing!Continue(p, s)
  BY DEF P!Become, AsProcessing!Become, P!Leave, AsProcessing!Leave, P!Continue,
         AsProcessing!Continue

LEMMA SamePhase ==
    ASSUME NEW from, NEW to
    PROVE  P!Advance(from, to) => AsProcessing!Advance(from, to)
  BY DEF P!Advance, AsProcessing!Advance

LEMMA TickRunsMapped ==
    ASSUME \/ P!TickSweep \/ P!TickMarkExhausted \/ P!TickListRetryable
           \/ \E r \in P!RunIds : P!TickCleanup(r) \/ P!TickCleanupFails(r)
    PROVE  AsProcessing!Ticks
<1>1. CASE P!TickSweep
  BY <1>1, SamePhase, SameRuns, SameObservations, SameRaw
     DEF P!TickSweep, AsProcessing!TickSweep, AsProcessing!Ticks, P!Orphaned,
         AsProcessing!Orphaned, P!taskVars, AsProcessing!taskVars
<1>2. CASE P!TickMarkExhausted
  BY <1>2, SamePhase, SameRuns, SameObservations, SameRaw
     DEF P!TickMarkExhausted, AsProcessing!TickMarkExhausted, AsProcessing!Ticks,
         P!MarkExhaustedFailedRuns, AsProcessing!MarkExhaustedFailedRuns, P!taskVars,
         AsProcessing!taskVars
<1>3. CASE P!TickListRetryable
  <2>1. \A r \in P!RunIds :
            observations[r[1]].state = "STORED" <=>
                [u \in Obs |-> SeenRow(u)][r[1]].state = "STORED"
    BY SameState DEF Unseen, P!RunIds
  <2>2. P!RetryableFailedRuns(MaxProcessingAttempts) =
            AsProcessing!RetryableFailedRuns(MaxProcessingAttempts)
    BY <2>1, SameRuns
       DEF P!RetryableFailedRuns, AsProcessing!RetryableFailedRuns, P!RunsIn,
           AsProcessing!RunsIn
  <2> QED
    BY <1>3, <2>2, SamePhase, SameProcessingDb, SameRaw
       DEF P!TickListRetryable, AsProcessing!TickListRetryable, AsProcessing!Ticks, P!dbVars
<1>4. CASE \E r \in P!RunIds : P!TickCleanup(r)
  <2>1. PICK r \in P!RunIds : P!TickCleanup(r)
    BY <1>4
  <2>2. AsProcessing!TickCleanup(r)
    BY <2>1, SamePhase, SameProcessingDb, SameRaw, SameRoutine
       DEF P!TickCleanup, AsProcessing!TickCleanup, P!dbVars
  <2> QED
    BY <2>2, SameRuns DEF AsProcessing!Ticks
<1>5. CASE \E r \in P!RunIds : P!TickCleanupFails(r)
  <2>1. PICK r \in P!RunIds : P!TickCleanupFails(r)
    BY <1>5
  <2>2. P!MarkRunRetryExhausted(r) => AsProcessing!MarkRunRetryExhausted(r)
    BY SameObservations DEF P!MarkRunRetryExhausted, AsProcessing!MarkRunRetryExhausted
  <2>3. AsProcessing!TickCleanupFails(r)
    BY <2>1, <2>2, SamePhase, SameRaw
       DEF P!TickCleanupFails, AsProcessing!TickCleanupFails, P!MarkRunRetryExhausted
  <2> QED
    BY <2>3, SameRuns DEF AsProcessing!Ticks
<1> QED
  BY <1>1, <1>2, <1>3, <1>4, <1>5

LEMMA RequeueMapped ==
    ASSUME TypeOK, P!TickRequeue
    PROVE  AsProcessing!TickRequeue
<1>1. PICK r \in P!RunIds : r = target[Controller]
  BY PipelineAssumption DEF P!TickRequeue, TypeOK, RoutinesTypeOK
<1>2. P!TransitionRun(r, "FAILED", "QUEUED") =>
          AsProcessing!TransitionRun(r, "FAILED", "QUEUED")
  BY SameRunChange
<1>3. UNCHANGED <<observations, raw>>
  BY DEF P!TickRequeue, P!TransitionRun, P!dbVars
<1> QED
  BY <1>1, <1>2, <1>3, SameProcessingDb, SameRaw, SameRoutine
     DEF P!TickRequeue, AsProcessing!TickRequeue, P!taskVars, AsProcessing!taskVars

LEMMA RepairMapped ==
    ASSUME P!TickListWithoutRuns \/ (\E o \in Obs : P!TickCreateRun(o)) \/ P!TickSpawn
    PROVE  AsProcessing!Ticks
<1>1. CASE P!TickListWithoutRuns
  <2>1. P!StoredObservationsWithoutRuns = AsProcessing!StoredObservationsWithoutRuns
    BY SameRuns, SameStates
       DEF P!StoredObservationsWithoutRuns, AsProcessing!StoredObservationsWithoutRuns
  <2> QED
    BY <1>1, <2>1, SamePhase, SameProcessingDb, SameRaw
       DEF P!TickListWithoutRuns, AsProcessing!TickListWithoutRuns, AsProcessing!Ticks,
           P!dbVars
<1>2. CASE \E o \in Obs : P!TickCreateRun(o)
  <2>1. PICK o \in Obs : P!TickCreateRun(o)
    BY <1>2
  <2>2. P!CreateRun(o) => AsProcessing!CreateRun(o)
    BY SameRuns, SameObservations
       DEF P!CreateRun, AsProcessing!CreateRun, P!Attempts, AsProcessing!Attempts,
           P!NewRun, AsProcessing!NewRun
  <2>3. AsProcessing!TickCreateRun(o)
    BY <2>1, <2>2, SamePhase, SameRaw
       DEF P!TickCreateRun, AsProcessing!TickCreateRun, P!CreateRun
  <2> QED
    BY <2>3 DEF AsProcessing!Ticks
<1>3. CASE P!TickSpawn
  BY <1>3, SamePhase, SameRuns, SameProcessingDb, SameRaw
     DEF P!TickSpawn, AsProcessing!TickSpawn, AsProcessing!Ticks, P!dbVars
<1> QED
  BY <1>1, <1>2, <1>3

LEMMA RecoverRunsMapped ==
    ASSUME RecoverRuns \/ RecoverDeletionsDone
    PROVE  AsProcessing!Recovery
<1>1. CASE \E r \in P!RunIds : P!RecoverRun(r)
  <2>1. PICK r \in P!RunIds : P!RecoverRun(r)
    BY <1>1
  <2>2. AsProcessing!RecoverRun(r)
    BY <2>1, SamePhase, SameRunChange, SameRaw
       DEF P!RecoverRun, AsProcessing!RecoverRun, P!TransitionRun
  <2> QED
    BY <2>2, SameRuns DEF AsProcessing!Recovery
<1>2. CASE \E r \in P!RunIds : P!RecoverRunFails(r)
  <2>1. PICK r \in P!RunIds : P!RecoverRunFails(r)
    BY <1>2
  <2>2. AsProcessing!RecoverRunFails(r)
    BY <2>1, SamePhase, SameProcessingDb, SameRaw
       DEF P!RecoverRunFails, AsProcessing!RecoverRunFails, P!dbVars
  <2> QED
    BY <2>2, SameRuns DEF AsProcessing!Recovery
<1>3. CASE P!RecoverRunsDone \/ P!RecoverDeletionsDone
  BY <1>3, SamePhase, SameProcessingDb, SameRaw
     DEF P!RecoverRunsDone, AsProcessing!RecoverRunsDone, P!RecoverDeletionsDone,
         AsProcessing!RecoverDeletionsDone, AsProcessing!Recovery, P!dbVars, P!taskVars,
         AsProcessing!taskVars
<1> QED
  BY <1>1, <1>2, <1>3 DEF RecoverRuns, RecoverDeletionsDone

LEMMA TickMapped ==
    ASSUME TypeOK, TickSweepRuns \/ TickRetry \/ TickRepair
    PROVE  AsProcessing!Ticks
<1>1. P!TickRequeue => AsProcessing!Ticks
  BY RequeueMapped DEF AsProcessing!Ticks
<1> QED
  BY <1>1, TickRunsMapped, RepairMapped DEF TickSweepRuns, TickRetry, TickRepair

LEMMA ContainersMapped ==
    ASSUME NEW r \in P!RunIds, P!ContainerWrites(r) \/ P!ContainerExits(r)
    PROVE  AsProcessing!Environment
<1>1. AsProcessing!ContainerWrites(r) \/ AsProcessing!ContainerExits(r)
  BY SameProcessingDb, SameRaw
     DEF P!ContainerWrites, AsProcessing!ContainerWrites, P!ContainerExits,
         AsProcessing!ContainerExits, P!dbVars, P!taskVars, AsProcessing!taskVars
<1> QED
  BY <1>1, SameRuns DEF AsProcessing!Environment

-----------------------------------------------------------------------------
(* ... the gate, the recovery of rows, crashes and starts, ...              *)

LEMMA ControlMapped ==
    ASSUME ControllerCrash \/ ControllerStart \/ KillManaged
    PROVE  AsProcessing!Next
<1>1. CASE P!ControllerCrash
  <2>1. AsProcessing!ControllerCrash
    BY <1>1, SameRuns, SameRoutine, SameProcessingDb, SameRaw
       DEF P!ControllerCrash, AsProcessing!ControllerCrash, P!dbVars
  <2> QED
    BY <2>1 DEF AsProcessing!Next
<1>2. CASE P!ControllerStart
  <2>1. AsProcessing!ControllerStart
    BY <1>2, SameProcessingDb, SameRaw
       DEF P!ControllerStart, AsProcessing!ControllerStart, P!dbVars, P!taskVars,
           AsProcessing!taskVars
  <2> QED
    BY <2>1 DEF AsProcessing!Next, AsProcessing!Recovery
<1>3. CASE P!KillManaged
  <2>1. ASSUME NEW left, P!GateOpens(left)
        PROVE  AsProcessing!GateOpens(left)
    BY <2>1, SamePhase, SameRuns, SameProcessingDb, SameRaw
       DEF P!GateOpens, AsProcessing!GateOpens, P!dbVars
  <2>2. P!GateOpens({}) => AsProcessing!GateOpens({})
    BY <2>1
  <2>3. P!GateOpens(containers) => AsProcessing!GateOpens(containers)
    BY SamePhase, SameRuns, SameProcessingDb, SameRaw
       DEF P!GateOpens, AsProcessing!GateOpens, P!dbVars
  <2> QED
    BY <1>3, <2>2, <2>3
       DEF P!KillManaged, AsProcessing!KillManaged, AsProcessing!Next, AsProcessing!Recovery
<1> QED
  BY <1>1, <1>2, <1>3 DEF ControllerCrash, ControllerStart, KillManaged

LEMMA AcceptedMapped ==
    ASSUME TypeOK, RecoverAccepted
    PROVE  AsProcessing!Recovery
<1>1. P!RecoverAccepted /\ UNCHANGED observations
  BY DEF RecoverAccepted, O!RecoverObservingDone, O!dbVars
<1>2. PICK resumed \in
          SUBSET {o \in P!ObservationsIn({"STORED"}) :
                     P!HasAcceptedRun(o) /\ ~ P!HasActiveRuns(o)} :
          P!ResumesDeletion(resumed)
  BY <1>1 DEF P!RecoverAccepted
<1>3. \A o \in Obs : o \in resumed => observations[o].state = "STORED"
  BY <1>2 DEF P!ObservationsIn
<1>4. \A o \in Obs : o \notin resumed
  <2> SUFFICES ASSUME NEW o \in Obs, o \in resumed PROVE FALSE
    OBVIOUS
  <2>1. observations'[o] = [observations[o] EXCEPT !.state = "DELETING"]
    BY <1>2 DEF P!ResumesDeletion
  <2>2. observations[o] \in P!ObservationRows
    BY DEF TypeOK, RowsTypeOK
  <2>3. observations'[o].state = "DELETING"
    BY <2>1, <2>2 DEF P!ObservationRows
  <2> QED
    BY <1>1, <1>3, <2>3
<1>5. P!Advance("recAccepted", "recDeleting") /\ resumed = {}
      /\ todoObs' = {o \in Obs : observations'[o].state = "DELETING"}
      /\ UNCHANGED <<runs, raw, step, target, lost, products, todoRuns, worker, containers>>
  BY <1>2, <1>4 DEF P!ResumesDeletion, P!ObservationsIn
<1>6. todoObs' = {o \in Obs : [u \in Obs |-> SeenRow(u)]'[o].state = "DELETING"}
  BY <1>1, <1>5 DEF SeenRow, Unseen
<1>7. [u \in Obs |-> SeenRow(u)]' =
          [o \in Obs |->
              IF o \in {} THEN [[u \in Obs |-> SeenRow(u)][o] EXCEPT !.state = "DELETING"]
                          ELSE [u \in Obs |-> SeenRow(u)][o]]
  BY <1>1 DEF SeenRow, Unseen
<1>8. AsProcessing!ResumesDeletion({})
  BY <1>1, <1>5, <1>6, <1>7, SamePhase, SameRaw DEF AsProcessing!ResumesDeletion
<1> QED
  BY <1>8 DEF AsProcessing!RecoverAccepted, AsProcessing!Recovery

LEMMA DeletionsMapped ==
    ASSUME RecoverDeletion
    PROVE  AsProcessing!Recovery
<1>1. PICK o \in Obs : P!RecoverDeletion(o)
  BY DEF RecoverDeletion
<1>2. P!Become(Controller, "rename", <<o, 1>>) =>
          AsProcessing!Become(Controller, "rename", <<o, 1>>)
  BY SameRoutine
<1>3. AsProcessing!RecoverDeletion(o)
  BY <1>1, <1>2, SamePhase, SameProcessingDb, SameRaw
     DEF P!RecoverDeletion, AsProcessing!RecoverDeletion, P!dbVars
<1> QED
  BY <1>3 DEF AsProcessing!Recovery

LEMMA StoredMapped ==
    ASSUME TypeOK, RecoverStored
    PROVE  AsProcessing!Recovery
<1>1. /\ P!Advance("recStored", "idle")
      /\ UNCHANGED <<runs, raw, step, target, lost, products, P!taskVars>>
  BY DEF RecoverStored, P!RecoverStored
<1>2. PICK missing \in SUBSET {o \in P!ObservationsIn({"STORED"}) : "live" \notin raw[o]} :
          observations' = [o \in Obs |->
              IF o \in missing THEN [state |-> "INCONSISTENT", size |-> 0, reserved |-> 0]
                               ELSE observations[o]]
  BY DEF RecoverStored, P!RecoverStored
<1>3. \A o \in Obs : o \in missing => observations[o].state = "STORED" /\ "live" \notin raw[o]
  BY <1>2 DEF P!ObservationsIn
<1>4. ASSUME NEW o \in Obs
      PROVE  /\ SeenRow(o)' = IF o \in missing
                                THEN [state |-> "INCONSISTENT", size |-> 0, reserved |-> 0]
                                ELSE SeenRow(o)
             /\ Unseen(o)' <=> Unseen(o)
  <2>1. CASE o \in missing
    <3>1. observations'[o] = [state |-> "INCONSISTENT", size |-> 0, reserved |-> 0]
      BY <1>2, <2>1
    <3> QED
      BY <1>3, <2>1, <3>1 DEF SeenRow, Unseen
  <2>2. CASE o \notin missing
    <3>1. observations'[o] = observations[o]
      BY <1>2, <2>2
    <3> QED
      BY <2>2, <3>1 DEF SeenRow, Unseen
  <2> QED
    BY <2>1, <2>2
<1>5. [u \in Obs |-> SeenRow(u)]' =
          [o \in Obs |->
              IF o \in missing THEN [state |-> "INCONSISTENT", size |-> 0, reserved |-> 0]
                               ELSE [u \in Obs |-> SeenRow(u)][o]]
  BY <1>4
<1>6. UNCHANGED [u \in Obs |-> IF Unseen(u) THEN {} ELSE raw[u]]
  BY <1>1, <1>4
<1>7. missing \in SUBSET {o \in AsProcessing!ObservationsIn({"STORED"}) :
          "live" \notin [u \in Obs |-> IF Unseen(u) THEN {} ELSE raw[u]][o]}
  <2>1. ASSUME NEW o \in missing
        PROVE  /\ o \in AsProcessing!ObservationsIn({"STORED"})
               /\ "live" \notin [u \in Obs |-> IF Unseen(u) THEN {} ELSE raw[u]][o]
    <3>1. o \in Obs /\ observations[o].state = "STORED" /\ "live" \notin raw[o]
      BY <1>2 DEF P!ObservationsIn
    <3> QED
      BY <3>1, SameState DEF AsProcessing!ObservationsIn, Unseen
  <2> QED
    BY <2>1
<1>8. AsProcessing!RecoverStored
  BY <1>1, <1>5, <1>6, <1>7, SamePhase
     DEF AsProcessing!RecoverStored, P!taskVars, AsProcessing!taskVars
<1> QED
  BY <1>8 DEF AsProcessing!Recovery

-----------------------------------------------------------------------------
(* ... the commands, ...                                                    *)

LEMMA BeginMapped ==
    ASSUME NEW p \in Procs, NEW r \in P!RunIds,
           P!BeginAccept(p, r) \/ P!BeginReprocess(p, r) \/ P!BeginDiscard(p, r)
    PROVE  AsProcessing!Commands
<1>1. ASSUME NEW from, NEW s, P!Validates(p, r, from, s)
      PROVE  AsProcessing!Validates(p, r, from, s)
  BY <1>1, SameVerdict, SameRoutine, SameProcessingDb, SameRaw
     DEF P!Validates, AsProcessing!Validates, P!Cli, AsProcessing!Cli, P!dbVars, P!taskVars,
         AsProcessing!taskVars
<1>2. \/ AsProcessing!BeginAccept(p, r) \/ AsProcessing!BeginReprocess(p, r)
      \/ AsProcessing!BeginDiscard(p, r)
  BY <1>1 DEF P!BeginAccept, P!BeginReprocess, P!BeginDiscard, AsProcessing!BeginAccept,
              AsProcessing!BeginReprocess, AsProcessing!BeginDiscard
<1> QED
  BY <1>2, SameRuns DEF AsProcessing!Commands

LEMMA BeginDeletionMapped ==
    ASSUME TypeOK, NEW o \in Obs, observations[o].state = "STORED", P!BeginDeletion(o),
           UNCHANGED raw
    PROVE  /\ AsProcessing!BeginDeletion(o)
           /\ UNCHANGED [u \in Obs |-> IF Unseen(u) THEN {} ELSE raw[u]]
<1>1. /\ observations \in [Obs -> P!ObservationRows]
      /\ observations' = [observations EXCEPT ![o].state = "DELETING"]
  BY DEF TypeOK, RowsTypeOK, P!BeginDeletion
<1>2. /\ \A u \in Obs \ {o} : observations'[u] = observations[u]
      /\ observations'[o].state = "DELETING" /\ observations'[o].size = observations[o].size
  BY <1>1 DEF P!ObservationRows
<1>3. \A u \in Obs : Unseen(u)' <=> Unseen(u)
  BY <1>2 DEF Unseen
<1>4. \A u \in Obs \ {o} : SeenRow(u)' = SeenRow(u)
  BY <1>2 DEF SeenRow, Unseen
<1>5. SeenRow(o)' = [SeenRow(o) EXCEPT !.state = "DELETING"]
  BY <1>2 DEF SeenRow, Unseen
<1>6. [u \in Obs |-> SeenRow(u)]' =
          [[u \in Obs |-> SeenRow(u)] EXCEPT ![o].state = "DELETING"]
  BY <1>4, <1>5
<1> QED
  BY <1>3, <1>6 DEF AsProcessing!BeginDeletion

LEMMA CommitMapped ==
    ASSUME TypeOK, NEW p \in Procs,
           P!CommitAccept(p) \/ P!CommitReprocess(p) \/ P!CommitDiscard(p)
    PROVE  AsProcessing!Commands
<1>1. PICK r \in P!RunIds : r = target[p]
  BY DEF P!CommitAccept, P!CommitReprocess, P!CommitDiscard, TypeOK, RoutinesTypeOK
<1>2. PICK o \in Obs : o = r[1]
  BY DEF P!RunIds
<1>3. \A from : P!VerdictAllowed(r, from) => AsProcessing!VerdictAllowed(r, from)
  BY SameVerdict
<1>4. CASE P!CommitAccept(p)
  <2>1. observations[o].state = "STORED" /\ P!BeginDeletion(o) /\ UNCHANGED raw
    BY <1>1, <1>2, <1>4
       DEF P!CommitAccept, P!AcceptRunAndBeginDeletion, P!VerdictAllowed
  <2>2. /\ AsProcessing!BeginDeletion(o)
        /\ UNCHANGED [u \in Obs |-> IF Unseen(u) THEN {} ELSE raw[u]]
    BY <2>1, BeginDeletionMapped
  <2>3. AsProcessing!AcceptRunAndBeginDeletion(r)
    BY <1>1, <1>2, <1>3, <1>4, <2>2
       DEF P!CommitAccept, P!AcceptRunAndBeginDeletion, AsProcessing!AcceptRunAndBeginDeletion
  <2>4. AsProcessing!CommitAccept(p)
    BY <1>1, <1>4, <2>2, <2>3, SameRoutine
       DEF P!CommitAccept, AsProcessing!CommitAccept, P!taskVars, AsProcessing!taskVars
  <2> QED
    BY <2>4 DEF AsProcessing!Commands
<1>5. CASE P!CommitDiscard(p)
  <2>1. observations[o].state = "STORED" /\ P!BeginDeletion(o) /\ UNCHANGED raw
    BY <1>1, <1>2, <1>5
       DEF P!CommitDiscard, P!DiscardFailedRunAndBeginDeletion, P!VerdictAllowed
  <2>2. /\ AsProcessing!BeginDeletion(o)
        /\ UNCHANGED [u \in Obs |-> IF Unseen(u) THEN {} ELSE raw[u]]
    BY <2>1, BeginDeletionMapped
  <2>3. AsProcessing!DiscardFailedRunAndBeginDeletion(r)
    BY <1>1, <1>2, <1>3, <1>5, <2>2
       DEF P!CommitDiscard, P!DiscardFailedRunAndBeginDeletion,
           AsProcessing!DiscardFailedRunAndBeginDeletion
  <2>4. AsProcessing!CommitDiscard(p)
    BY <1>1, <1>5, <2>2, <2>3, SameRoutine
       DEF P!CommitDiscard, AsProcessing!CommitDiscard, P!taskVars, AsProcessing!taskVars
  <2> QED
    BY <2>4 DEF AsProcessing!Commands
<1>6. CASE P!CommitReprocess(p)
  <2>1. UNCHANGED <<observations, raw>>
    BY <1>6 DEF P!CommitReprocess, P!ReprocessRunAndCreate
  <2>2. AsProcessing!ReprocessRunAndCreate(r)
    BY <1>1, <1>3, <1>6, <2>1, SameObservations
       DEF P!CommitReprocess, P!ReprocessRunAndCreate, AsProcessing!ReprocessRunAndCreate,
           P!Replacement, AsProcessing!Replacement, P!NewRun, AsProcessing!NewRun
  <2>3. AsProcessing!CommitReprocess(p)
    BY <1>1, <1>6, <2>1, <2>2, SameRaw, SameRoutine
       DEF P!CommitReprocess, AsProcessing!CommitReprocess, P!taskVars, AsProcessing!taskVars
  <2> QED
    BY <2>3 DEF AsProcessing!Commands
<1> QED
  BY <1>4, <1>5, <1>6

LEMMA DropMapped ==
    ASSUME NEW p \in Procs, Resolve(p) \/ CommandEnds(p)
    PROVE  AsProcessing!Commands
<1>1. CASE Resolve(p)
  <2>1. PICK o \in Obs : P!BeginResolve(p, o)
    BY <1>1 DEF Resolve
  <2>2. /\ observations[o].state \in {"DELETING", "INCONSISTENT"} =>
              [u \in Obs |-> SeenRow(u)][o].state \in {"DELETING", "INCONSISTENT"}
        /\ P!Become(p, "dropLive", <<o, 1>>) => AsProcessing!Become(p, "dropLive", <<o, 1>>)
    BY SameState, SameRoutine DEF Unseen
  <2>3. AsProcessing!BeginResolve(p, o)
    BY <2>1, <2>2, SameProcessingDb, SameRaw
       DEF P!BeginResolve, AsProcessing!BeginResolve, P!BeginDrop, AsProcessing!BeginDrop,
           P!Cli, AsProcessing!Cli, P!dbVars, P!taskVars, AsProcessing!taskVars
  <2> QED
    BY <2>3 DEF AsProcessing!Commands
<1>2. CASE CommandEnds(p)
  <2>1. AsProcessing!CommandEnds(p)
    BY <1>2, SameRoutine, SameProcessingDb, SameRaw
       DEF CommandEnds, P!CommandEnds, AsProcessing!CommandEnds, P!Abandon,
           AsProcessing!Abandon, P!dbVars, P!taskVars, AsProcessing!taskVars
  <2> QED
    BY <2>1 DEF AsProcessing!Commands
<1> QED
  BY <1>1, <1>2

LEMMA RemovalMapped ==
    ASSUME RowsTypeOK, NEW o \in Obs, ~ Unseen(o), UNCHANGED observations, NEW left,
           raw' = [raw EXCEPT ![o] = left]
    PROVE  [u \in Obs |-> IF Unseen(u) THEN {} ELSE raw[u]]' =
               [[u \in Obs |-> IF Unseen(u) THEN {} ELSE raw[u]] EXCEPT ![o] = left]
<1>1. \A u \in Obs : Unseen(u)' <=> Unseen(u)
  BY DEF Unseen
<1>2. raw'[o] = left /\ \A u \in Obs \ {o} : raw'[u] = raw[u]
  BY DEF RowsTypeOK
<1> QED
  BY <1>1, <1>2

LEMMA RowGone ==
    ASSUME RowsTypeOK, NEW o \in Obs, NEW from \in {"DELETING", "INCONSISTENT"},
           P!TransitionObservation(o, from, "DELETED", 0, 0), UNCHANGED raw
    PROVE  /\ AsProcessing!TransitionObservation(o, from, "DELETED", 0, 0)
           /\ UNCHANGED [u \in Obs |-> IF Unseen(u) THEN {} ELSE raw[u]]
<1> DEFINE gone == [state |-> "DELETED", size |-> 0, reserved |-> 0]
<1>1. /\ observations[o].state = from /\ UNCHANGED runs
      /\ observations' = [observations EXCEPT ![o] = gone]
  BY DEF P!TransitionObservation
<1>2. gone.state = "DELETED" /\ gone.size = 0
  OBVIOUS
<1> HIDE DEF gone
<1>3. observations'[o] = gone /\ \A u \in Obs \ {o} : observations'[u] = observations[u]
  BY <1>1 DEF RowsTypeOK
<1>4. \A u \in Obs : Unseen(u)' <=> Unseen(u)
  BY <1>1, <1>2, <1>3 DEF Unseen
<1>5. \A u \in Obs \ {o} : SeenRow(u)' = SeenRow(u)
  BY <1>3 DEF SeenRow, Unseen
<1>6. SeenRow(o)' = [state |-> "DELETED", size |-> 0, reserved |-> 0]
  BY <1>2, <1>3 DEF SeenRow, Unseen
<1>7. [u \in Obs |-> SeenRow(u)]' =
          [[u \in Obs |-> SeenRow(u)] EXCEPT ![o] =
              [state |-> "DELETED", size |-> 0, reserved |-> 0]]
  BY <1>5, <1>6
<1>8. [u \in Obs |-> SeenRow(u)][o].state = from
  BY <1>1, SameState DEF Unseen
<1>9. <<from, "DELETED">> \in AsProcessing!ObsTransitions
  BY DEF AsProcessing!ObsTransitions
<1> QED
  BY <1>1, <1>4, <1>7, <1>8, <1>9 DEF AsProcessing!TransitionObservation

LEMMA RemovalStepMapped ==
    ASSUME TypeOK, PipeInv, NEW p \in Procs, DeletionStep(p)
    PROVE  AsProcessing!Commands
<1>1. /\ P!FinishStep(p) \/ P!DropStep(p)
      /\ UNCHANGED <<lost, products, phase, P!taskVars>>
      /\ RowsTypeOK
  BY DEF TypeOK, DeletionStep, P!FinishDeletion, P!ForceDrop
<1>2. step[p] \in P!FinishSteps \cup P!DropSteps
  BY <1>1 DEF P!FinishStep, P!DropStep, P!FinishRename, P!FinishRemove, P!FinishMark,
              P!DropLive, P!DropTrash, P!DropMark, P!FinishSteps, P!DropSteps
<1>3. PICK o \in Obs : o = target[p][1]
  BY <1>2 DEF TypeOK, RoutinesTypeOK, P!RunIds, P!FinishSteps, P!DropSteps
<1>4. ~ Unseen(o)
  BY <1>2, <1>3 DEF PipeInv, RoutineMatchesRow, P!FinishSteps, P!DropSteps
<1>5. /\ [u \in Obs |-> SeenRow(u)][o].state = observations[o].state
      /\ [u \in Obs |-> IF Unseen(u) THEN {} ELSE raw[u]][o] = raw[o]
  BY <1>4, SameState
<1>6. CASE P!FinishRename(p)
  <2>1. PICK left : left = IF "live" \in raw[o] THEN {"trash"} ELSE raw[o]
    OBVIOUS
  <2>2. raw' = [raw EXCEPT ![o] = left] /\ UNCHANGED P!dbVars
    BY <1>3, <1>6, <2>1 DEF P!FinishRename
  <2>3. [u \in Obs |-> IF Unseen(u) THEN {} ELSE raw[u]]' =
            [[u \in Obs |-> IF Unseen(u) THEN {} ELSE raw[u]] EXCEPT ![o] = left]
    BY <1>1, <1>4, <2>2, RemovalMapped DEF P!dbVars
  <2>4. AsProcessing!FinishRename(p)
    BY <1>3, <1>5, <1>6, <2>1, <2>2, <2>3, SameRoutine, SameProcessingDb
       DEF P!FinishRename, AsProcessing!FinishRename
  <2> QED
    BY <1>1, <2>4
       DEF AsProcessing!FinishStep, AsProcessing!FinishDeletion, AsProcessing!Commands,
           P!taskVars, AsProcessing!taskVars
<1>7. CASE P!FinishRemove(p)
  <2>1. PICK left : left = raw[o] \ {"trash"}
    OBVIOUS
  <2>2. raw' = [raw EXCEPT ![o] = left] /\ UNCHANGED P!dbVars
    BY <1>3, <1>7, <2>1 DEF P!FinishRemove
  <2>3. [u \in Obs |-> IF Unseen(u) THEN {} ELSE raw[u]]' =
            [[u \in Obs |-> IF Unseen(u) THEN {} ELSE raw[u]] EXCEPT ![o] = left]
    BY <1>1, <1>4, <2>2, RemovalMapped DEF P!dbVars
  <2>4. AsProcessing!FinishRemove(p)
    BY <1>3, <1>5, <1>7, <2>1, <2>2, <2>3, SameRoutine, SameProcessingDb
       DEF P!FinishRemove, AsProcessing!FinishRemove
  <2> QED
    BY <1>1, <2>4
       DEF AsProcessing!FinishStep, AsProcessing!FinishDeletion, AsProcessing!Commands,
           P!taskVars, AsProcessing!taskVars
<1>8. CASE P!FinishMark(p)
  <2>1. P!TransitionObservation(o, "DELETING", "DELETED", 0, 0) /\ UNCHANGED raw
    BY <1>3, <1>8 DEF P!FinishMark
  <2>2. /\ AsProcessing!TransitionObservation(o, "DELETING", "DELETED", 0, 0)
        /\ UNCHANGED [u \in Obs |-> IF Unseen(u) THEN {} ELSE raw[u]]
    BY <1>1, <2>1, RowGone
  <2>3. AsProcessing!FinishMark(p)
    BY <1>3, <1>8, <2>2, SameRoutine DEF P!FinishMark, AsProcessing!FinishMark
  <2> QED
    BY <1>1, <2>3
       DEF AsProcessing!FinishStep, AsProcessing!FinishDeletion, AsProcessing!Commands,
           P!taskVars, AsProcessing!taskVars
<1>9. CASE P!DropLive(p)
  <2>1. PICK left : left = raw[o] \ {"live"}
    OBVIOUS
  <2>2. raw' = [raw EXCEPT ![o] = left] /\ UNCHANGED P!dbVars
    BY <1>3, <1>9, <2>1 DEF P!DropLive
  <2>3. [u \in Obs |-> IF Unseen(u) THEN {} ELSE raw[u]]' =
            [[u \in Obs |-> IF Unseen(u) THEN {} ELSE raw[u]] EXCEPT ![o] = left]
    BY <1>1, <1>4, <2>2, RemovalMapped DEF P!dbVars
  <2>4. AsProcessing!DropLive(p)
    BY <1>3, <1>5, <1>9, <2>1, <2>2, <2>3, SameRoutine, SameProcessingDb
       DEF P!DropLive, AsProcessing!DropLive
  <2> QED
    BY <1>1, <2>4
       DEF AsProcessing!DropStep, AsProcessing!ForceDrop, AsProcessing!Commands,
           P!taskVars, AsProcessing!taskVars
<1>10. CASE P!DropTrash(p)
  <2>1. PICK left : left = raw[o] \ {"trash"}
    OBVIOUS
  <2>2. raw' = [raw EXCEPT ![o] = left] /\ UNCHANGED P!dbVars
    BY <1>3, <1>10, <2>1 DEF P!DropTrash
  <2>3. [u \in Obs |-> IF Unseen(u) THEN {} ELSE raw[u]]' =
            [[u \in Obs |-> IF Unseen(u) THEN {} ELSE raw[u]] EXCEPT ![o] = left]
    BY <1>1, <1>4, <2>2, RemovalMapped DEF P!dbVars
  <2>4. AsProcessing!DropTrash(p)
    BY <1>3, <1>5, <1>10, <2>1, <2>2, <2>3, SameRoutine, SameProcessingDb
       DEF P!DropTrash, AsProcessing!DropTrash
  <2> QED
    BY <1>1, <2>4
       DEF AsProcessing!DropStep, AsProcessing!ForceDrop, AsProcessing!Commands,
           P!taskVars, AsProcessing!taskVars
<1>11. CASE P!DropMark(p)
  <2>1. PICK from \in {"DELETING", "INCONSISTENT"} :
            P!TransitionObservation(o, from, "DELETED", 0, 0)
    BY <1>3, <1>11 DEF P!DropMark
  <2>2. /\ AsProcessing!TransitionObservation(o, from, "DELETED", 0, 0)
        /\ UNCHANGED [u \in Obs |-> IF Unseen(u) THEN {} ELSE raw[u]]
    BY <1>1, <1>11, <2>1, RowGone DEF P!DropMark
  <2>3. AsProcessing!DropMark(p)
    BY <1>3, <1>11, <2>2, SameRoutine DEF P!DropMark, AsProcessing!DropMark
  <2> QED
    BY <1>1, <2>3
       DEF AsProcessing!DropStep, AsProcessing!ForceDrop, AsProcessing!Commands,
           P!taskVars, AsProcessing!taskVars
<1> QED
  BY <1>1, <1>6, <1>7, <1>8, <1>9, <1>10, <1>11 DEF P!FinishStep, P!DropStep

-----------------------------------------------------------------------------
(* ... and what only Observing sees.                                        *)

(* A completed observation is the environment's one step in Processing: its *)
(* data is at the live path, or there is none and nothing was taken away.   *)
LEMMA CompletedMapped ==
    ASSUME TypeOK, PipeInv, NEW o \in Obs, ObservingTask(o), O!ObserveCompletes(o)
    PROVE  AsProcessing!ObservationStored(o)
<1>0. /\ RowsTypeOK /\ DataMatchesRow(o)
      /\ observations \in [Obs -> P!ObservationRows] /\ raw \in [Obs -> SUBSET P!Places]
      /\ disk[o] \in Nat
  BY DEF TypeOK, PipeInv, RowsInv, RowsTypeOK
<1>1. /\ phase = "idle" /\ observations[o].state = "OBSERVING" /\ UNCHANGED raw
      /\ UNCHANGED <<runs, step, target, products, phase, P!taskVars>>
      /\ lost' = IF StoredWithoutMS(o) THEN lost \cup {o} ELSE lost
  BY DEF ObservingTask, Between, O!ObserveCompletes, O!TransitionObservation, O!TaskGoesTo,
         O!NothingMoved, P!taskVars
<1>2. PICK size \in Nat : size = disk[o]
  BY <1>0
<1>3. O!TransitionObservation(o, "OBSERVING", "STORED", size, 0)
  BY <1>2 DEF O!ObserveCompletes
<1> DEFINE row == [state |-> "STORED", size |-> size, reserved |-> 0]
<1>4. observations'[o] = row /\ \A u \in Obs \ {o} : observations'[u] = observations[u]
  <2>1. observations' = [observations EXCEPT ![o] = row]
    BY <1>3 DEF O!TransitionObservation
  <2> HIDE DEF row
  <2> QED
    BY <1>0, <2>1
<1>5. observations'[o].state = "STORED" /\ observations'[o].size = size
  BY <1>4
<1>6. Unseen(o) /\ ~ Unseen(o)' /\ \A u \in Obs \ {o} : Unseen(u)' <=> Unseen(u)
  BY <1>1, <1>4, <1>5 DEF Unseen
<1>7. \A u \in Obs \ {o} : SeenRow(u)' = SeenRow(u)
  BY <1>4 DEF SeenRow, Unseen
<1>8. SeenRow(o)' = [state |-> "STORED", size |-> IF size = 0 THEN 0 ELSE 1, reserved |-> 0]
  BY <1>5, <1>6 DEF SeenRow
<1>9. [u \in Obs |-> SeenRow(u)][o].state = "ABSENT"
  BY <1>6, SameState
<1>10. CASE raw[o] = {}
  <2>1. size = 0
    BY <1>0, <1>2, <1>10 DEF DataMatchesRow
  <2>2. [u \in Obs |-> SeenRow(u)]' =
            [[u \in Obs |-> SeenRow(u)] EXCEPT ![o] = AsProcessing!EmptyRow]
    BY <1>7, <1>8, <2>1 DEF AsProcessing!EmptyRow
  <2>3. UNCHANGED [u \in Obs |-> IF Unseen(u) THEN {} ELSE raw[u]]
    BY <1>1, <1>6, <1>10
  <2>4. lost' = lost \cup {o}
    BY <1>1, <1>5, <1>10 DEF StoredWithoutMS
  <2> QED
    BY <1>1, <1>9, <2>2, <2>3, <2>4
       DEF AsProcessing!ObservationStored, P!taskVars, AsProcessing!taskVars
<1>11. CASE raw[o] # {}
  <2>1. size > 0 /\ raw[o] = {"live"}
    BY <1>0, <1>1, <1>2, <1>6, <1>11 DEF DataMatchesRow, P!Places
  <2> SeenRow(o)' = AsProcessing!StoredRow
    BY <1>8, <2>1 DEF AsProcessing!StoredRow
  <2>2. [u \in Obs |-> SeenRow(u)]' =
            [[u \in Obs |-> SeenRow(u)] EXCEPT ![o] = AsProcessing!StoredRow]
    BY <1>7
  <2>3. [u \in Obs |-> IF Unseen(u) THEN {} ELSE raw[u]]' =
            [[u \in Obs |-> IF Unseen(u) THEN {} ELSE raw[u]] EXCEPT ![o] = {"live"}]
    BY <1>1, <1>6, <2>1
  <2>4. lost' = lost
    BY <1>1, <1>11 DEF StoredWithoutMS
  <2> QED
    BY <1>1, <1>9, <2>2, <2>3, <2>4
       DEF AsProcessing!ObservationStored, P!taskVars, AsProcessing!taskVars
<1> QED
  BY <1>10, <1>11

LEMMA ObservingTaskUnseen ==
    ASSUME TypeOK, PipeInv, NEW o \in Obs, ObservingTask(o), ~ O!ObserveCompletes(o)
    PROVE  UNCHANGED <<Seen, runs, step, target, processingVars>>
<1>0. /\ RowsTypeOK /\ O!TaskMoves(o) /\ TaskMatchesRow(o)
      /\ UNCHANGED <<products, phase, todoRuns, todoObs, worker, containers>>
      /\ lost' = IF StoredWithoutMS(o) THEN lost \cup {o} ELSE lost
  BY DEF TypeOK, PipeInv, RowsInv, ObservingTask
<1>1. /\ UNCHANGED <<runs, step, target>>
      /\ \A u \in Obs \ {o} : observations'[u] = observations[u] /\ raw'[u] = raw[u]
  BY <1>0, TaskFrame
<1>2. task[o] \in {"spawned", "watching", "stopping", "failing"}
  BY <1>0 DEF O!TaskMoves, O!ObserveStarts, O!ObserveRaisesBeforeStart, O!WatchdogAborts,
              O!ObserveAborted, O!ObserveCompletes, O!ObserveFails, O!ObserveRaises,
              O!HandlerFails, O!TaskTurn, O!RunnerReturned
<1>3. observations[o].state \in {"PLANNED", "OBSERVING"}
  BY <1>0, <1>2 DEF TaskMatchesRow
<1>4. \/ UNCHANGED observations
      \/ \E from : O!TransitionObservation(o, from, "OBSERVE_FAILED", observations[o].size, 0)
      \/ O!ObserveStarts(o)
  BY <1>0 DEF O!TaskMoves, O!ObserveRaisesBeforeStart, O!WatchdogAborts, O!ObserveAborted,
              O!ObserveFails, O!ObserveRaises, O!HandlerFails, O!FailObserving, O!dbVars
<1>5. observations'[o].state \in {"PLANNED", "OBSERVING", "OBSERVE_FAILED"}
  <2>1. CASE O!ObserveStarts(o)
    <3>1. PICK size \in Nat, reserved \in Nat :
              size = observations[o].size /\ reserved = observations[o].reserved
      BY <1>0 DEF RowsTypeOK, P!ObservationRows
    <3>2. O!TransitionObservation(o, "PLANNED", "OBSERVING", size, reserved)
      BY <2>1, <3>1 DEF O!ObserveStarts
    <3>3. observations'[o] = [state |-> "OBSERVING", size |-> size, reserved |-> reserved]
      BY <1>0, <3>2, RowTransition
    <3> QED
      BY <3>3
  <2> QED
    BY <1>0, <1>3, <1>4, <2>1, RowFails
<1>6. UNCHANGED Seen
  BY <1>1, <1>3, <1>5, UnseenStays DEF Unseen
<1>7. UNCHANGED lost
  BY <1>0, <1>5 DEF StoredWithoutMS
<1> QED
  BY <1>0, <1>1, <1>6, <1>7 DEF processingVars

LEMMA ObservingUnseen ==
    ASSUME TypeOK, PipeInv,
           \/ TickSweepObservations \/ TickResume \/ TickAdmission \/ RecoverObserving \/ Purge
           \/ \E p \in Procs : DeletionPart(p)
           \/ O!Containers /\ UNCHANGED processingVars
    PROVE  UNCHANGED <<Seen, runs, step, target, processingVars>>
<1>0. /\ RowsTypeOK /\ UNCHANGED processingVars
      /\ \A u \in Obs : TaskMatchesRow(u)
  BY DEF TypeOK, PipeInv, RowsInv, TickSweepObservations, TickResume, TickAdmission,
         RecoverObserving, Purge, DeletionPart
<1>1. CASE TickSweepObservations
  <2>1. \A u \in Obs : \/ observations'[u] = observations[u] /\ raw'[u] = raw[u]
                       \/ Unseen(u) /\ Unseen(u)'
    <3> SUFFICES ASSUME NEW u \in Obs
                 PROVE  \/ observations'[u] = observations[u] /\ raw'[u] = raw[u]
                        \/ Unseen(u) /\ Unseen(u)'
      OBVIOUS
    <3>1. O!NothingMoved \/ O!Quarantine(O!Orphaned)
      BY <1>1 DEF TickSweepObservations, O!TickSweep
    <3>2. CASE u \in O!Orphaned
      <4>1. /\ observations[u].state = "OBSERVING" /\ observations[u] \in P!ObservationRows
            /\ observations'[u] =
                  [observations[u] EXCEPT !.state = "OBSERVE_FAILED", !.reserved = 0]
        BY <1>0, <1>1, <3>2
           DEF TickSweepObservations, O!TickSweep, O!Orphaned, O!ObservationsIn, RowsTypeOK
      <4>2. observations'[u].state = "OBSERVE_FAILED"
        BY <4>1 DEF P!ObservationRows
      <4> QED
        BY <4>1, <4>2 DEF Unseen
    <3>3. CASE u \notin O!Orphaned
      BY <1>0, <1>1, <3>1, <3>3, QuarantineMoves
         DEF TickSweepObservations, O!TickSweep, O!NothingMoved, RowsTypeOK
    <3> QED
      BY <3>2, <3>3
  <2> QED
    BY <1>0, <1>1, <2>1, UnseenStays DEF TickSweepObservations, O!TickSweep
<1>2. CASE TickResume \/ TickAdmission
  <2>1. UNCHANGED <<runs, raw, step, target>>
    BY <1>2 DEF TickResume, TickAdmission, O!TickResume, O!TickSignature, O!TickMeasure,
                O!TickAdmit, O!Admit, O!InsertObservation, O!dbVars
  <2>2. CASE UNCHANGED observations
    BY <1>0, <2>1, <2>2, SeenStays
  <2>3. CASE \E o \in Obs : O!Admit(o)
    <3>1. PICK o \in Obs : O!Admit(o)
      BY <2>3
    <3> DEFINE row == [state |-> "PLANNED", size |-> 0, reserved |-> Reservation]
    <3>2. observations[o].state = "ABSENT" /\ observations' = [observations EXCEPT ![o] = row]
      BY <3>1 DEF O!Admit, O!InsertObservation
    <3>3. row.state = "PLANNED"
      OBVIOUS
    <3> HIDE DEF row
    <3>4. observations'[o] = row /\ \A u \in Obs \ {o} : observations'[u] = observations[u]
      BY <1>0, <3>2 DEF RowsTypeOK
    <3>5. UNCHANGED Seen
      BY <2>1, <3>2, <3>3, <3>4, UnseenStays DEF Unseen
    <3> QED
      BY <1>0, <2>1, <3>5
  <2> QED
    BY <1>2, <2>2, <2>3 DEF TickResume, TickAdmission, O!TickResume, O!TickSignature,
                            O!TickMeasure, O!TickAdmit, O!dbVars
<1>3. CASE RecoverObserving
  <2>1. PICK o \in Obs : O!RecoverObserving(o) \/ O!RecoverObservingFails(o)
    BY <1>3 DEF RecoverObserving
  <2>2. /\ ophase = "recObserving" /\ o \in todo /\ UNCHANGED <<step, target>>
        /\ O!NothingMoved \/ O!Quarantine({o})
        /\ O!FailObserving(o) \/ UNCHANGED O!dbVars
    BY <2>1 DEF O!RecoverObserving, O!RecoverObservingFails, O!Recovers, O!Advance
  <2>3. observations[o].state = "OBSERVING"
    BY <1>0, <2>2 DEF TaskMatchesRow
  <2>4. /\ UNCHANGED runs
        /\ \A u \in Obs \ {o} : observations'[u] = observations[u]
        /\ observations'[o].state \in {"OBSERVING", "OBSERVE_FAILED"}
    BY <1>0, <2>2, <2>3, RowFails DEF O!FailObserving, O!dbVars
  <2>5. \A u \in Obs \ {o} : raw'[u] = raw[u]
    BY <1>0, <2>2, QuarantineMoves DEF O!NothingMoved
  <2>6. UNCHANGED Seen
    BY <2>3, <2>4, <2>5, UnseenStays DEF Unseen
  <2> QED
    BY <1>0, <2>2, <2>4, <2>6
<1>4. CASE Purge \/ \E p \in Procs : DeletionPart(p)
  <2>1. UNCHANGED <<observations, runs, raw, step, target>>
    BY <1>4 DEF Purge, DeletionPart, O!Purge, O!DeletionPart, O!dbVars
  <2> QED
    BY <1>0, <2>1, SeenStays
<1>5. CASE O!Containers
  <2>1. PICK o \in Obs : O!WriterWrites(o) \/ O!WriterExits(o)
    BY <1>5 DEF O!Containers
  <2>2. UNCHANGED <<observations, runs, step, target>> /\ o \in writers
    BY <2>1 DEF O!WriterWrites, O!WriterExits, O!dbVars
  <2>3. Unseen(o) /\ Unseen(o)'
    BY <1>0, <2>2 DEF TaskMatchesRow, Unseen
  <2>4. \A u \in Obs \ {o} : raw'[u] = raw[u]
    BY <1>0, <2>1 DEF O!WriterWrites, O!WriterExits, RowsTypeOK
  <2>5. UNCHANGED Seen
    BY <2>2, <2>3, <2>4, UnseenStays
  <2> QED
    BY <1>0, <2>2, <2>5
<1> QED
  BY <1>1, <1>2, <1>3, <1>4, <1>5

LEMMA ProcessingInit ==
    ASSUME Init
    PROVE  AsProcessing!Init
<1>1. P!Init /\ observations = [o \in Obs |-> P!NoObservation]
  BY DEF Init, O!Init, P!Init, P!NoObservation, O!NoObservation
<1>2. \A o \in Obs : Unseen(o) /\ SeenRow(o) = AsProcessing!NoObservation
  BY <1>1 DEF Unseen, SeenRow, P!NoObservation, AsProcessing!NoObservation
<1> QED
  BY <1>1, <1>2, SameRuns
     DEF P!Init, AsProcessing!Init, P!NoRun, AsProcessing!NoRun

LEMMA ProcessingStep ==
    ASSUME TypeOK, PipeInv, [Next]_vars
    PROVE  AsProcessing!Next \/ UNCHANGED <<Seen, runs, step, target, processingVars>>
<1>1. CASE \E o \in Obs : ObservingTask(o)
  BY <1>1, CompletedMapped, ObservingTaskUnseen
     DEF AsProcessing!Next, AsProcessing!Environment
<1>2. CASE \E r \in P!RunIds : ProcessingTask(r)
  BY <1>2, WorkersMapped, SameRuns DEF ProcessingTask, AsProcessing!Next
<1>3. CASE Containers
  BY <1>3, ContainersMapped, ObservingUnseen DEF Containers, AsProcessing!Next
<1>4. CASE TickSweepObservations \/ TickResume \/ TickAdmission \/ RecoverObserving \/ Purge
  BY <1>4, ObservingUnseen
<1>5. CASE TickSweepRuns \/ TickRetry \/ TickRepair
  BY <1>5, TickMapped DEF AsProcessing!Next
<1>6. CASE ControllerCrash \/ ControllerStart \/ KillManaged
  BY <1>6, ControlMapped
<1>7. CASE RecoverRuns \/ RecoverDeletionsDone \/ RecoverAccepted \/ RecoverDeletion
             \/ RecoverStored
  BY <1>7, RecoverRunsMapped, AcceptedMapped, DeletionsMapped, StoredMapped
     DEF AsProcessing!Next
<1>8. CASE \E p \in Procs : Command(p)
  BY <1>8, BeginMapped, CommitMapped, DropMapped, RemovalStepMapped, ObservingUnseen
     DEF Command, Verdict, AsProcessing!Next
<1>9. CASE UNCHANGED vars
  BY <1>9, SeenStays DEF vars, sharedVars
<1> QED
  BY <1>1, <1>2, <1>3, <1>4, <1>5, <1>6, <1>7, <1>8, <1>9 DEF Next, Tick, Recovery

(* Every step of the whole controller is a step of Processing, or changes   *)
(* nothing it sees: an observation appears STORED in one step, with its MS  *)
(* at the live path or with none, and admission, observing, quarantine and  *)
(* purge never touch a row, a directory or a container that processing      *)
(* relies on, in any order of ticks, crashes and commands (scheduler.py,    *)
(* reconcile.py).                                                           *)
THEOREM ImplementsProcessingHolds == Spec => ImplementsProcessing
<1>1. Init => AsProcessing!Init
  BY ProcessingInit
<1>2. TypeOK /\ PipeInv /\ [Next]_vars => [AsProcessing!Next]_(AsProcessing!vars)
  BY ProcessingStep, ProcessingStutters
<1> QED
  BY <1>1, <1>2, Invariant, PTL DEF Spec, ImplementsProcessing, AsProcessing!Spec
=============================================================================
