---------------------------- MODULE WorkerProofs ----------------------------
(***************************************************************************)
(* The tasks and the containers of Processing: what a task may rely on     *)
(* while it waits and while it runs, how many containers there are, and    *)
(* what an execution starts from.                                          *)
(***************************************************************************)
EXTENDS ReleaseProofs, FiniteSetTheorems

-----------------------------------------------------------------------------
(* The inductive invariants.                                                *)

Recovering == {"down", "kill", "recRuns", "recAccepted", "recDeleting", "recStored"}

(* A task and its row say the same; before the first tick there is no task. *)
TaskMatchesRow(r) ==
    /\ worker[r] = "waiting" => runs[r].state = "QUEUED"
    /\ worker[r] = "running" => runs[r].state = "RUNNING"
    /\ phase \in Recovering => worker[r] = "none"

TasksInv == \A r \in RunIds : TaskMatchesRow(r)

(* After a verdict nothing is left to be done with any run.                 *)
VerdictIsFinal == \A o \in Obs : HasVerdict(o) => LiveRunsOf(o) = {}

(* The rows the retry is about to reset: none of them can start to run      *)
(* before the tick is over.                                                 *)
RetryIsIdle ==
    /\ phase = "retry" => \A r \in todoRuns : runs[r].state # "RUNNING"
    /\ step[Controller] = "requeue" =>
           /\ phase = "retry"
           /\ runs[target[Controller]].state # "RUNNING"
           /\ products[target[Controller]] = "none"

(* A container is of a task, but where the controller that had the task is  *)
(* gone; a run that has not been executed since it was put in the queue has *)
(* neither a container nor products.                                        *)
RunIsClean(r) ==
    /\ r \in containers =>
           /\ phase \notin {"down", "kill"} => worker[r] = "running"
           /\ runs[r].state \notin {"QUEUED", "ABSENT"}
    /\ runs[r].state \in {"QUEUED", "ABSENT"} => products[r] = "none"

CleanInv == RetryIsIdle /\ \A r \in RunIds : RunIsClean(r)

SlotsInv ==
    /\ IsFiniteSet(Running) /\ Cardinality(Running) <= MaxParallel
    /\ IsFiniteSet(containers) /\ Cardinality(containers) <= MaxParallel

-----------------------------------------------------------------------------
(* Tasks and rows.                                                          *)

LEMMA TaskStep ==
    ASSUME NEW r \in RunIds, TaskMatchesRow(r), worker'[r] \in {worker[r], "none"},
           worker'[r] # "none" => runs'[r].state = runs[r].state,
           phase' \in Recovering => phase \in Recovering \/ worker'[r] = "none"
    PROVE  TaskMatchesRow(r)'
  BY DEF TaskMatchesRow

(* Steps that move only rows no task can have.                              *)
RowsQuiet ==
    \A r \in RunIds :
        runs[r].state \in {"QUEUED", "RUNNING"} => runs'[r].state = runs[r].state

LEMMA QuietTasks ==
    ASSUME TypeOK, TasksInv, RowsQuiet, UNCHANGED worker,
           phase' \in Recovering => phase \in Recovering
    PROVE  TasksInv'
<1> SUFFICES ASSUME NEW r \in RunIds PROVE TaskMatchesRow(r)'
  BY DEF TasksInv
<1>1. TaskMatchesRow(r)
  BY DEF TasksInv
<1>2. worker[r] # "none" => runs[r].state \in {"QUEUED", "RUNNING"}
  BY <1>1 DEF TypeOK, TaskMatchesRow
<1> QED
  BY <1>1, <1>2, TaskStep DEF RowsQuiet

LEMMA TransitionRow ==
    ASSUME TypeOK, NEW r \in RunIds, NEW from, NEW to, TransitionRun(r, from, to)
    PROVE  /\ runs[r].state = from /\ runs'[r].state = to
           /\ \A s \in RunIds \ {r} : runs'[s] = runs[s]
<1>1. to \in RunStates
  BY DEF TransitionRun, RunTransitions, RunStates
<1>2. Moved(runs[r], to).state = to
  BY <1>1, MovedType DEF TypeOK, StoreTypeOK
<1> QED
  BY <1>2 DEF TransitionRun, TypeOK, StoreTypeOK

LEMMA WorkersTasks ==
    TypeOK /\ TasksInv /\ (\E r \in RunIds : WorkerMoves(r)) => TasksInv'
<1> SUFFICES ASSUME TypeOK, TasksInv, NEW r \in RunIds, WorkerMoves(r), NEW s \in RunIds
             PROVE  TaskMatchesRow(s)'
  BY DEF TasksInv
<1>1. TaskMatchesRow(s) /\ UNCHANGED phase
  BY DEF TasksInv, WorkerMoves, WorkerClaims, WorkerRaisesBeforeClaim, WorkerSucceeds,
         WorkerFails, WorkerDies, WorkerEnds
<1>2. CASE s # r
  <2>1. worker'[s] = worker[s]
    BY <1>2 DEF WorkerMoves, WorkerClaims, WorkerRaisesBeforeClaim, WorkerSucceeds,
                WorkerFails, WorkerDies, WorkerEnds, TypeOK
  <2>2. runs'[s] = runs[s]
    BY <1>2, TransitionRow
       DEF WorkerMoves, WorkerClaims, WorkerRaisesBeforeClaim, WorkerSucceeds, WorkerFails,
           WorkerDies, dbVars
  <2> QED
    BY <1>1, <2>1, <2>2, TaskStep
<1>3. CASE s = r /\ WorkerClaims(r)
  <2>1. runs'[r].state = "RUNNING" /\ worker'[r] = "running"
    BY <1>3, TransitionRow DEF WorkerClaims, TypeOK
  <2>2. phase' = "idle"
    BY <1>3 DEF WorkerClaims, WorkerTurn
  <2> QED
    BY <1>3, <2>1, <2>2 DEF TaskMatchesRow, Recovering
<1>4. CASE s = r /\ ~ WorkerClaims(r)
  <2>1. worker'[r] = "none"
    BY <1>4 DEF WorkerMoves, WorkerRaisesBeforeClaim, WorkerSucceeds, WorkerFails,
                WorkerDies, WorkerEnds, TypeOK
  <2> QED
    BY <1>4, <2>1 DEF TaskMatchesRow
<1> QED
  BY <1>2, <1>3, <1>4

LEMMA InsertRow ==
    ASSUME TypeOK, NEW o \in Obs, CreateRun(o)
    PROVE  \E k \in Attempts :
               LET new == <<o, k>> IN
               /\ new \in RunIds /\ runs[new].state = "ABSENT" /\ runs'[new].state = "QUEUED"
               /\ \A r \in RunIds \ {new} : runs'[r] = runs[r]
<1>1. PICK k \in Attempts : /\ \A r \in RunsOf(o) : r[2] < k
                            /\ runs' = [runs EXCEPT ![<<o, k>>] = NewRun]
  BY DEF CreateRun
<1>2. <<o, k>> \in RunIds /\ <<o, k>> \notin RunsOf(o)
  BY <1>1, StoreAssumption DEF Attempts, RunIds
<1> QED
  BY <1>1, <1>2 DEF RunsOf, TypeOK, StoreTypeOK, NewRun

LEMMA ReprocessRows ==
    ASSUME TypeOK, NEW r \in RunIds, ReprocessRunAndCreate(r)
    PROVE  /\ Replacement(r) \in RunIds
           /\ runs[r].state \in {"AWAITING_QA", "FAILED"} /\ runs'[r].state = "SUPERSEDED"
           /\ runs[Replacement(r)].state = "ABSENT" /\ runs'[Replacement(r)].state = "QUEUED"
           /\ \A s \in RunIds \ {r, Replacement(r)} : runs'[s] = runs[s]
<1>1. Replacement(r) \in RunIds /\ Replacement(r) # r
  BY StoreAssumption DEF ReprocessRunAndCreate, Replacement, RunIds, Attempts
<1> QED
  BY <1>1 DEF ReprocessRunAndCreate, VerdictAllowed, TypeOK, StoreTypeOK, RunRows, NewRun

LEMMA VerdictRow ==
    ASSUME TypeOK, NEW r \in RunIds,
           AcceptRunAndBeginDeletion(r) \/ DiscardFailedRunAndBeginDeletion(r)
    PROVE  /\ runs[r].state \in {"AWAITING_QA", "FAILED"} /\ runs'[r].state \in Verdicts
           /\ \A s \in RunIds \ {r} : runs'[s] = runs[s]
  BY DEF AcceptRunAndBeginDeletion, DiscardFailedRunAndBeginDeletion, VerdictAllowed,
         Verdicts, TypeOK, StoreTypeOK, RunRows

LEMMA TicksTasks == TypeOK /\ TasksInv /\ Ticks => TasksInv'
<1> SUFFICES ASSUME TypeOK, TasksInv, Ticks PROVE TasksInv'
  OBVIOUS
<1>1. phase' \notin Recovering \/ phase' = phase
  BY DEF Ticks, TickSweep, TickMarkExhausted, TickListRetryable, TickCleanup,
         TickCleanupFails, TickRequeue, TickListWithoutRuns, TickCreateRun, TickSpawn,
         Advance, Recovering
<1>2. CASE TickSpawn
  <2> SUFFICES ASSUME NEW r \in RunIds PROVE TaskMatchesRow(r)'
    BY DEF TasksInv
  <2>1. TaskMatchesRow(r) /\ runs' = runs /\ phase' = "idle"
    BY <1>2 DEF TasksInv, TickSpawn, Advance, dbVars
  <2>2. \/ worker'[r] = worker[r]
        \/ worker'[r] = "waiting" /\ runs[r].state = "QUEUED"
    BY <1>2 DEF TickSpawn, RunsIn
  <2> QED
    BY <2>1, <2>2 DEF TaskMatchesRow, Recovering
<1>3. CASE TickSweep
  <2> SUFFICES ASSUME NEW r \in RunIds PROVE TaskMatchesRow(r)'
    BY DEF TasksInv
  <2>1. TaskMatchesRow(r) /\ worker' = worker
    BY <1>3 DEF TasksInv, TickSweep, taskVars
  <2>2. worker[r] # "none" => runs'[r] = runs[r]
    BY <1>3 DEF TickSweep, Orphaned
  <2> QED
    BY <1>1, <2>1, <2>2, TaskStep
<1>4. CASE ~ TickSpawn /\ ~ TickSweep
  <2>1. UNCHANGED worker
    BY <1>4 DEF Ticks, TickMarkExhausted, TickListRetryable, TickCleanup,
           TickCleanupFails, TickRequeue, TickListWithoutRuns, TickCreateRun, taskVars
  <2>2. RowsQuiet
    <3>1. CASE UNCHANGED runs
      BY <3>1 DEF RowsQuiet
    <3>2. CASE TickMarkExhausted
      BY <3>2 DEF TickMarkExhausted, MarkExhaustedFailedRuns, RowsQuiet
    <3>3. ASSUME NEW r \in RunIds, MarkRunRetryExhausted(r) PROVE RowsQuiet
      BY <3>3 DEF MarkRunRetryExhausted, RowsQuiet, TypeOK, StoreTypeOK
    <3>4. CASE TickRequeue
      <4>1. target[Controller] \in RunIds
        BY <3>4, ProcessingAssumption DEF TickRequeue, TypeOK
      <4> QED
        BY <3>1, <3>4, <4>1, TransitionRow DEF TickRequeue, RowsQuiet, dbVars
    <3>5. ASSUME NEW o \in Obs, CreateRun(o) PROVE RowsQuiet
      BY <3>5, InsertRow DEF RowsQuiet
    <3> QED
      BY <1>4, <3>1, <3>2, <3>3, <3>4, <3>5
         DEF Ticks, TickListRetryable, TickCleanup, TickCleanupFails, TickListWithoutRuns,
             TickCreateRun, dbVars
  <2> QED
    BY <1>1, <2>1, <2>2, QuietTasks
<1> QED
  BY <1>2, <1>3, <1>4

LEMMA RecoveryTasks == TypeOK /\ TasksInv /\ (Recovery \/ ControllerCrash) => TasksInv'
<1> SUFFICES ASSUME TypeOK, TasksInv, Recovery \/ ControllerCrash, NEW r \in RunIds
             PROVE  TaskMatchesRow(r)'
  BY DEF TasksInv
<1>1. TaskMatchesRow(r)
  BY DEF TasksInv
<1>2. CASE ControllerCrash
  BY <1>2 DEF ControllerCrash, TaskMatchesRow
<1>3. CASE Recovery
  <2>1. phase \in Recovering /\ UNCHANGED worker
    BY <1>3 DEF Recovery, ControllerStart, KillManaged, GateOpens, RecoverRun,
           RecoverRunFails, RecoverRunsDone, RecoverAccepted, ResumesDeletion,
           RecoverDeletion, RecoverDeletionsDone, RecoverStored, Advance, taskVars, Recovering
  <2> QED
    BY <1>1, <2>1 DEF TaskMatchesRow
<1> QED
  BY <1>2, <1>3

LEMMA CommandsQuiet == TypeOK /\ Commands => RowsQuiet /\ UNCHANGED <<worker, phase, containers>>
<1> SUFFICES ASSUME TypeOK, Commands PROVE RowsQuiet /\ UNCHANGED <<worker, phase, containers>>
  OBVIOUS
<1>1. UNCHANGED <<worker, phase, containers>>
  BY DEF Commands, BeginAccept, BeginReprocess, BeginDiscard, Validates, CommitAccept,
         CommitReprocess, CommitDiscard, BeginResolve, FinishDeletion, ForceDrop,
         CommandEnds, taskVars
<1>2. CASE UNCHANGED runs
  BY <1>1, <1>2 DEF RowsQuiet
<1>3. ASSUME NEW p \in Procs, CommitAccept(p) \/ CommitDiscard(p) PROVE RowsQuiet
  <2>1. target[p] \in RunIds
    BY <1>3 DEF CommitAccept, CommitDiscard, TypeOK
  <2> QED
    BY <1>3, <2>1, VerdictRow DEF CommitAccept, CommitDiscard, RowsQuiet
<1>4. ASSUME NEW p \in Procs, CommitReprocess(p) PROVE RowsQuiet
  <2>1. target[p] \in RunIds
    BY <1>4 DEF CommitReprocess, TypeOK
  <2> QED
    BY <1>4, <2>1, ReprocessRows DEF CommitReprocess, RowsQuiet
<1> QED
  BY <1>1, <1>2, <1>3, <1>4
     DEF Commands, BeginAccept, BeginReprocess, BeginDiscard, Validates, BeginResolve,
         BeginDrop, FinishDeletion, FinishStep, FinishRename, FinishRemove, FinishMark,
         ForceDrop, DropStep, DropLive, DropTrash, DropMark, CommandEnds, Abandon,
         TransitionObservation, dbVars

LEMMA EnvironmentQuiet == Environment => UNCHANGED <<runs, worker, phase>>
  BY DEF Environment, ObservationStored, RawVanishes, ContainerWrites, ContainerExits,
         taskVars, dbVars

THEOREM TasksInvariant == Spec => []TasksInv
<1>1. Init => TasksInv
  BY DEF Init, TasksInv, TaskMatchesRow
<1>2. TypeOK /\ TasksInv /\ [Next]_vars => TasksInv'
  <2> SUFFICES ASSUME TypeOK, TasksInv, [Next]_vars PROVE TasksInv'
    OBVIOUS
  <2>1. CASE Environment \/ UNCHANGED vars
    BY <2>1, EnvironmentQuiet, QuietTasks DEF vars, dbVars, taskVars, RowsQuiet
  <2>2. CASE Commands
    BY <2>2, CommandsQuiet, QuietTasks
  <2> QED
    BY <2>1, <2>2, WorkersTasks, TicksTasks, RecoveryTasks DEF Next
<1> QED
  BY <1>1, <1>2, TypeCorrect, PTL DEF Spec

(* The claim of a waiting task never meets a TransitionError: no command    *)
(* and no sweep moves a row a task waits with (scheduler.py, _process).     *)
THEOREM WaitersAreQueuedHolds == Spec => []WaitersAreQueued
<1>1. TasksInv => WaitersAreQueued
  BY DEF TasksInv, TaskMatchesRow, WaitersAreQueued
<1> QED
  BY <1>1, TasksInvariant, PTL

-----------------------------------------------------------------------------
(* A verdict is final.                                                      *)

NoneRevived ==
    \A r \in RunIds :
        runs'[r].state \in LiveStates =>
            runs[r].state \in LiveStates \/ ~ HasVerdict(r[1])

LEMMA OthersReviveNone ==
    TypeOK /\ IInv /\ VerdictIsFinal /\ [Next]_vars => NoneRevived
<1> SUFFICES ASSUME TypeOK, IInv, VerdictIsFinal, [Next]_vars PROVE NoneRevived
  OBVIOUS
<1>1. CASE UNCHANGED runs
  BY <1>1 DEF NoneRevived
<1>2. ASSUME NEW r \in RunIds, NEW from \in LiveStates, NEW to, TransitionRun(r, from, to)
      PROVE  NoneRevived
  BY <1>2, TransitionRow DEF NoneRevived
<1>3. ASSUME NEW r \in RunIds, WorkerMoves(r) PROVE NoneRevived
  <2>1. UNCHANGED runs \/ \E from \in LiveStates, to \in RunStates : TransitionRun(r, from, to)
    BY <1>3 DEF WorkerMoves, WorkerClaims, WorkerRaisesBeforeClaim, WorkerSucceeds,
                WorkerFails, WorkerDies, LiveStates, RunStates, dbVars
  <2> QED
    BY <1>1, <1>2, <2>1
<1>4. CASE Recovery \/ ControllerCrash
  <2>1. UNCHANGED runs \/ \E r \in RunIds : TransitionRun(r, "RUNNING", "FAILED")
    BY <1>4 DEF Recovery, ControllerStart, KillManaged, GateOpens, RecoverRun,
           RecoverRunFails, RecoverRunsDone, RecoverAccepted, ResumesDeletion,
           RecoverDeletion, RecoverDeletionsDone, RecoverStored, ControllerCrash, dbVars
  <2> QED
    BY <1>1, <1>2, <2>1 DEF LiveStates
<1>5. CASE Ticks
  <2>1. CASE TickSweep
    BY <2>1 DEF TickSweep, Orphaned, RunsIn, NoneRevived, LiveStates
  <2>2. CASE TickMarkExhausted
    BY <2>2 DEF TickMarkExhausted, MarkExhaustedFailedRuns, NoneRevived, LiveStates
  <2>3. ASSUME NEW r \in RunIds, MarkRunRetryExhausted(r) PROVE NoneRevived
    BY <2>3 DEF MarkRunRetryExhausted, NoneRevived, LiveStates, TypeOK, StoreTypeOK
  <2>4. CASE TickRequeue
    <3>1. target[Controller] \in RunIds
      BY <2>4, ProcessingAssumption DEF TickRequeue, TypeOK
    <3> QED
      BY <1>1, <1>2, <2>4, <3>1 DEF TickRequeue, LiveStates, dbVars
  <2>5. ASSUME NEW o \in Obs, TickCreateRun(o) PROVE NoneRevived
    <3>1. ~ HasVerdict(o)
      BY <2>5 DEF TickCreateRun, Advance, IInv, RepairIsFirst, HasVerdict
    <3>2. PICK new \in RunIds : new[1] = o /\ \A r \in RunIds \ {new} : runs'[r] = runs[r]
      BY <2>5, InsertRow DEF TickCreateRun
    <3> QED
      BY <3>1, <3>2 DEF NoneRevived
  <2> QED
    BY <1>1, <1>5, <2>1, <2>2, <2>3, <2>4, <2>5
       DEF Ticks, TickListRetryable, TickCleanup, TickCleanupFails, TickListWithoutRuns,
           TickSpawn, dbVars
<1>6. CASE Commands
  <2>1. ASSUME NEW p \in Procs, CommitAccept(p) \/ CommitDiscard(p) PROVE NoneRevived
    <3>1. target[p] \in RunIds
      BY <2>1 DEF CommitAccept, CommitDiscard, TypeOK
    <3> QED
      BY <2>1, <3>1, VerdictRow
         DEF CommitAccept, CommitDiscard, NoneRevived, Verdicts, LiveStates
  <2>2. ASSUME NEW p \in Procs, CommitReprocess(p) PROVE NoneRevived
    <3>1. PICK r \in RunIds : ReprocessRunAndCreate(r)
      BY <2>2 DEF CommitReprocess, TypeOK
    <3>2. r \in LiveRunsOf(r[1]) /\ r[1] \in Obs
      BY <3>1 DEF ReprocessRunAndCreate, VerdictAllowed, LiveRunsOf, RunsOf, LiveStates, RunIds
    <3>3. ~ HasVerdict(r[1]) /\ Replacement(r)[1] = r[1]
      BY <3>2 DEF VerdictIsFinal, Replacement
    <3>4. /\ runs'[r].state = "SUPERSEDED"
          /\ \A s \in RunIds \ {r, Replacement(r)} : runs'[s] = runs[s]
      BY <3>1, ReprocessRows
    <3> QED
      BY <3>3, <3>4 DEF NoneRevived, LiveStates
  <2> QED
    BY <1>1, <1>6, <2>1, <2>2
       DEF Commands, BeginAccept, BeginReprocess, BeginDiscard, Validates, BeginResolve,
           BeginDrop, FinishDeletion, FinishStep, FinishRename, FinishRemove, FinishMark,
           ForceDrop, DropStep, DropLive, DropTrash, DropMark, CommandEnds, Abandon,
           TransitionObservation, dbVars
<1>7. CASE Environment
  BY <1>1, <1>7, EnvironmentQuiet
<1> QED
  BY <1>1, <1>3, <1>4, <1>5, <1>6, <1>7 DEF Next, vars, dbVars

LEMMA FinalStep ==
    TypeOK /\ IInv /\ VerdictIsFinal /\ [Next]_vars => VerdictIsFinal'
<1> SUFFICES ASSUME TypeOK, IInv, VerdictIsFinal, [Next]_vars,
                    NEW o \in Obs, HasVerdict(o)', NEW r \in RunIds,
                    r[1] = o, runs'[r].state \in LiveStates
             PROVE  FALSE
  BY DEF VerdictIsFinal, LiveRunsOf, RunsOf
<1>1. runs[r].state \in LiveStates \/ ~ HasVerdict(o)
  BY OthersReviveNone DEF NoneRevived
<1>2. CASE Verdict
  <2>1. PICK s \in RunIds : /\ runs[s].state \in {"AWAITING_QA", "FAILED"}
                            /\ runs'[s].state \in Verdicts
                            /\ \A u \in RunIds \ {s} : runs'[u] = runs[u]
    BY <1>2, VerdictRow DEF Verdict, CommitAccept, CommitDiscard, TypeOK
  <2>2. CASE s[1] = o
    <3>1. s \in LiveRunsOf(o)
      BY <2>1, <2>2 DEF LiveRunsOf, RunsOf, LiveStates
    <3>2. r # s /\ runs[r].state \in LiveStates
      BY <2>1 DEF Verdicts, LiveStates
    <3>3. r \in LiveRunsOf(o)
      BY <3>2 DEF LiveRunsOf, RunsOf, LiveStates
    <3> QED
      BY <3>1, <3>2, <3>3 DEF IInv, OneLiveRun, LiveRunsOf
  <2>3. CASE s[1] # o
    <3>1. HasVerdict(o)
      BY <2>1, <2>3 DEF HasVerdict, RunsOf
    <3> QED
      BY <1>1, <3>1 DEF VerdictIsFinal, LiveRunsOf, RunsOf, LiveStates
  <2> QED
    BY <2>2, <2>3
<1>3. CASE ~ Verdict
  <2>1. HasVerdict(o)
    BY <1>3, OthersGiveNone DEF VerdictsSame, HasVerdict, RunsOf, Verdicts
  <2> QED
    BY <1>1, <2>1 DEF VerdictIsFinal, LiveRunsOf, RunsOf, LiveStates
<1> QED
  BY <1>2, <1>3

THEOREM VerdictIsFinalHolds == Spec => []VerdictIsFinal
<1>1. Init => VerdictIsFinal
  BY DEF Init, VerdictIsFinal, LiveRunsOf, LiveStates, RunsOf, NoRun
<1> QED
  BY <1>1, FinalStep, TypeCorrect, InductiveInvariant, PTL DEF Spec

(* No verdict, whoever gives it and whenever, takes the Measurement Set     *)
(* away from a task that reads it: a running task's run is live, so its     *)
(* observation has no verdict (store.py, the checks of the verdicts).       *)
THEOREM InputOutlivesWorkerHolds == Spec => []InputOutlivesWorker
<1>1. TasksInv /\ IInv /\ VerdictIsFinal /\ RawGoneOnlyByVerdict => InputOutlivesWorker
  <2> SUFFICES ASSUME TasksInv, IInv, VerdictIsFinal, RawGoneOnlyByVerdict, NEW r \in Running
               PROVE  "live" \in raw[r[1]] \/ r[1] \in lost
    BY DEF InputOutlivesWorker
  <2>1. runs[r].state = "RUNNING" /\ r \in RunIds /\ r[1] \in Obs
    BY DEF Running, TasksInv, TaskMatchesRow, RunIds
  <2>2. r \in RunsOf(r[1]) /\ r \in LiveRunsOf(r[1])
    BY <2>1 DEF LiveRunsOf, RunsOf, LiveStates
  <2>3. ~ HasVerdict(r[1]) /\ observations[r[1]].state # "ABSENT"
    BY <2>1, <2>2 DEF VerdictIsFinal, IInv, NoRunsBeforeObservation
  <2> QED
    BY <2>1, <2>3 DEF RawGoneOnlyByVerdict
<1> QED
  BY <1>1, TasksInvariant, InductiveInvariant, VerdictIsFinalHolds,
     RawGoneOnlyByVerdictHolds, PTL

-----------------------------------------------------------------------------
(* What an execution starts from, when docker does what it says: `docker    *)
(* run` returns when its container is gone, `docker ps` names every one.    *)

LEMMA CleanKept ==
    ASSUME NEW r \in RunIds, RunIsClean(r), r \in containers' => r \in containers,
           runs'[r].state \in {"QUEUED", "ABSENT"} => runs[r].state \in {"QUEUED", "ABSENT"},
           products[r] = "none" => products'[r] = "none",
           r \in containers' /\ phase' \notin {"down", "kill"} =>
               phase \notin {"down", "kill"} /\ worker'[r] = worker[r]
    PROVE  RunIsClean(r)'
  BY DEF RunIsClean

LEMMA NotInContainer ==
    ASSUME TasksInv, CleanInv, phase \notin {"down", "kill"}, NEW r \in RunIds,
           runs[r].state # "RUNNING" \/ worker[r] # "running"
    PROVE  r \notin containers
  BY DEF TasksInv, TaskMatchesRow, CleanInv, RunIsClean

(* The row the retry is resetting is not reset twice, nor by anyone else.   *)
RetryKept ==
    step'[Controller] = "requeue" =>
        step[Controller] = "requeue" /\ target'[Controller] = target[Controller]

LEMMA RetryStep ==
    ASSUME TypeOK, CleanInv, RetryKept, UNCHANGED <<phase, todoRuns>>,
           \A r \in RunIds : runs'[r].state = "RUNNING" => runs[r].state = "RUNNING",
           step[Controller] = "requeue" =>
               products'[target[Controller]] = products[target[Controller]]
    PROVE  RetryIsIdle'
<1>1. step[Controller] = "requeue" => target[Controller] \in RunIds
  BY ProcessingAssumption DEF TypeOK
<1> QED
  BY <1>1 DEF CleanInv, RetryIsIdle, RetryKept, TypeOK

LEMMA EnvironmentClean == TypeOK /\ TasksInv /\ CleanInv /\ Environment => CleanInv'
<1> SUFFICES ASSUME TypeOK, TasksInv, CleanInv, Environment PROVE CleanInv'
  OBVIOUS
<1>1. UNCHANGED <<runs, worker, phase, step, target, todoRuns>>
  BY DEF Environment, ObservationStored, RawVanishes, ContainerWrites, ContainerExits,
         taskVars, dbVars
<1>2. containers' \subseteq containers
  BY DEF Environment, ObservationStored, RawVanishes, ContainerWrites, ContainerExits, taskVars
<1>3. ASSUME NEW r \in RunIds, products'[r] # products[r] PROVE r \in containers
  BY <1>3 DEF Environment, ObservationStored, RawVanishes, ContainerWrites, ContainerExits,
              TypeOK
<1>4. step[Controller] = "requeue" =>
          products'[target[Controller]] = products[target[Controller]]
  <2> SUFFICES ASSUME step[Controller] = "requeue"
               PROVE  products'[target[Controller]] = products[target[Controller]]
    OBVIOUS
  <2>1. /\ target[Controller] \in RunIds /\ runs[target[Controller]].state # "RUNNING"
        /\ phase = "retry"
    BY ProcessingAssumption DEF TypeOK, CleanInv, RetryIsIdle
  <2> QED
    BY <1>3, <2>1, NotInContainer
<1>5. RetryIsIdle'
  BY <1>1, <1>4, RetryStep DEF RetryKept
<1>6. \A r \in RunIds : RunIsClean(r)'
  BY <1>1, <1>2, <1>3 DEF CleanInv, RunIsClean
<1> QED
  BY <1>5, <1>6 DEF CleanInv

LEMMA WorkersClean ==
    ~ DockerFaults /\ TypeOK /\ TasksInv /\ CleanInv /\ (\E r \in RunIds : WorkerMoves(r))
    => CleanInv'
<1> SUFFICES ASSUME ~ DockerFaults, TypeOK, TasksInv, CleanInv, NEW r \in RunIds,
                    WorkerMoves(r)
             PROVE  CleanInv'
  OBVIOUS
<1>1. UNCHANGED <<phase, step, target, todoRuns>> /\ phase = "idle"
  BY DEF WorkerMoves, WorkerClaims, WorkerRaisesBeforeClaim, WorkerSucceeds, WorkerFails,
         WorkerDies, WorkerEnds, WorkerTurn, RunnerReturned
<1>2. RetryIsIdle'
  BY <1>1 DEF CleanInv, RetryIsIdle
<1>3. ASSUME NEW s \in RunIds \ {r} PROVE RunIsClean(s)'
  <2>1. /\ runs'[s] = runs[s] /\ products'[s] = products[s] /\ worker'[s] = worker[s]
        /\ s \in containers' => s \in containers
    BY <1>3, TransitionRow
       DEF WorkerMoves, WorkerClaims, WorkerRaisesBeforeClaim, WorkerSucceeds, WorkerFails,
           WorkerDies, WorkerEnds, TypeOK, dbVars
  <2> QED
    BY <1>1, <2>1, CleanKept DEF CleanInv
<1>4. RunIsClean(r)'
  <2>1. CASE WorkerClaims(r)
    <3>1. runs'[r].state = "RUNNING" /\ worker'[r] = "running"
      BY <2>1, TransitionRow DEF WorkerClaims, TypeOK
    <3> QED
      BY <3>1 DEF RunIsClean
  <2>2. CASE ~ WorkerClaims(r)
    <3>1. r \notin containers /\ UNCHANGED <<containers, products>>
      BY <1>1, <2>2, NotInContainer
         DEF WorkerMoves, WorkerRaisesBeforeClaim, WorkerSucceeds, WorkerFails, WorkerDies,
             WorkerEnds, WorkerTurn, RunnerReturned
    <3>2. runs'[r].state \in {"QUEUED", "ABSENT"} => runs[r].state \in {"QUEUED", "ABSENT"}
      BY <2>2, TransitionRow
         DEF WorkerMoves, WorkerRaisesBeforeClaim, WorkerSucceeds, WorkerFails, WorkerDies,
             dbVars
    <3> QED
      BY <3>1, <3>2, CleanKept DEF CleanInv
  <2> QED
    BY <2>1, <2>2
<1> QED
  BY <1>2, <1>3, <1>4 DEF CleanInv

LEMMA CommandsClean == TypeOK /\ CleanInv /\ Commands => CleanInv'
<1> SUFFICES ASSUME TypeOK, CleanInv, Commands PROVE CleanInv'
  OBVIOUS
<1>1. UNCHANGED <<worker, phase, containers, products, todoRuns>>
  BY DEF Commands, BeginAccept, BeginReprocess, BeginDiscard, Validates, CommitAccept,
         CommitReprocess, CommitDiscard, BeginResolve, FinishDeletion, ForceDrop,
         CommandEnds, taskVars
<1>2. PICK p \in Procs, s \in FinishSteps \cup DropSteps \cup CommandSteps \cup {"idle"} :
          (\E r : Become(p, s, r)) /\ step[p] # "requeue"
  BY DEF Commands, BeginAccept, BeginReprocess, BeginDiscard, Validates, CommitAccept,
         CommitReprocess, CommitDiscard, BeginResolve, BeginDrop, FinishDeletion, FinishStep,
         FinishRename, FinishRemove, FinishMark, ForceDrop, DropStep, DropLive, DropTrash,
         DropMark, CommandEnds, Abandon, Continue, Leave, FinishSteps, DropSteps,
         CommandSteps
<1>3. RetryKept
  BY <1>2, ProcessingAssumption
     DEF RetryKept, Become, TypeOK, FinishSteps, DropSteps, CommandSteps
<1>4. \A q \in RunIds : \/ runs'[q] = runs[q]
                        \/ runs'[q].state \in Verdicts \cup {"SUPERSEDED"}
                        \/ runs[q].state = "ABSENT" /\ runs'[q].state = "QUEUED"
  <2>1. ASSUME NEW q \in Procs, CommitAccept(q) \/ CommitDiscard(q)
        PROVE  \E t \in RunIds : /\ runs'[t].state \in Verdicts
                                 /\ \A u \in RunIds \ {t} : runs'[u] = runs[u]
    BY <2>1, VerdictRow DEF CommitAccept, CommitDiscard, TypeOK
  <2>2. ASSUME NEW q \in Procs, CommitReprocess(q)
        PROVE  \E t \in RunIds :
                  /\ runs'[t].state = "SUPERSEDED"
                  /\ runs[Replacement(t)].state = "ABSENT"
                  /\ runs'[Replacement(t)].state = "QUEUED"
                  /\ \A u \in RunIds \ {t, Replacement(t)} : runs'[u] = runs[u]
    BY <2>2, ReprocessRows DEF CommitReprocess, TypeOK
  <2>3. CASE UNCHANGED runs
    BY <2>3
  <2> QED
    BY <2>1, <2>2, <2>3
       DEF Commands, BeginAccept, BeginReprocess, BeginDiscard, Validates, BeginResolve,
           BeginDrop, FinishDeletion, FinishStep, FinishRename, FinishRemove, FinishMark,
           ForceDrop, DropStep, DropLive, DropTrash, DropMark, CommandEnds, Abandon,
           TransitionObservation, dbVars
<1>5. RetryIsIdle'
  BY <1>1, <1>3, <1>4, RetryStep DEF Verdicts
<1>6. \A q \in RunIds : RunIsClean(q)'
  BY <1>1, <1>4, CleanKept DEF CleanInv, Verdicts
<1> QED
  BY <1>5, <1>6 DEF CleanInv

LEMMA TicksClean == TypeOK /\ TasksInv /\ CleanInv /\ Ticks => CleanInv'
<1> SUFFICES ASSUME TypeOK, TasksInv, CleanInv, Ticks PROVE CleanInv'
  OBVIOUS
<1>0. Controller \in Procs /\ RetryIsIdle /\ \A r \in RunIds : RunIsClean(r)
  BY ProcessingAssumption DEF CleanInv
<1>1. /\ UNCHANGED containers
      /\ phase \notin {"down", "kill"} /\ phase' \notin {"down", "kill"}
  BY <1>0 DEF Ticks, TickSweep, TickMarkExhausted, TickListRetryable, TickCleanup,
         TickCleanupFails, TickRequeue, TickListWithoutRuns, TickCreateRun, TickSpawn,
         Advance, taskVars, RetryIsIdle
<1>2. \A r \in RunIds : r \in containers => worker'[r] = worker[r]
  BY <1>0, <1>1 DEF Ticks, TickSweep, TickMarkExhausted, TickListRetryable, TickCleanup,
         TickCleanupFails, TickRequeue, TickListWithoutRuns, TickCreateRun, TickSpawn,
         taskVars, RunIsClean
<1>3. CASE TickSweep \/ TickMarkExhausted \/ TickListWithoutRuns \/ TickSpawn
  <2>1. UNCHANGED products /\ phase' # "retry" /\ step'[Controller] # "requeue"
    BY <1>3 DEF TickSweep, TickMarkExhausted, TickListWithoutRuns, TickSpawn, Advance
  <2>2. \A r \in RunIds : runs'[r].state = runs[r].state \/ runs'[r].state = "FAILED"
    <3>1. \A r \in RunIds : /\ [runs[r] EXCEPT !.state = "FAILED"].state = "FAILED"
                            /\ [runs[r] EXCEPT !.exhausted = TRUE].state = runs[r].state
      BY DEF TypeOK, StoreTypeOK, RunRows
    <3> QED
      BY <1>3, <3>1 DEF TickSweep, TickMarkExhausted, MarkExhaustedFailedRuns,
                        TickListWithoutRuns, TickSpawn, dbVars
  <2>3. \A r \in RunIds : RunIsClean(r)'
    BY <1>0, <1>1, <1>2, <2>1, <2>2, CleanKept
  <2> QED
    BY <2>1, <2>3 DEF CleanInv, RetryIsIdle
<1>4. CASE TickListRetryable
  <2>1. /\ UNCHANGED <<products, runs>> /\ step'[Controller] # "requeue"
        /\ \A r \in todoRuns' : runs'[r].state # "RUNNING"
    BY <1>4 DEF TickListRetryable, Advance, RetryableFailedRuns, RunsIn, dbVars
  <2>2. \A r \in RunIds : RunIsClean(r)'
    BY <1>0, <1>1, <1>2, <2>1, CleanKept
  <2> QED
    BY <2>1, <2>2 DEF CleanInv, RetryIsIdle
<1>5. ASSUME NEW r \in RunIds, TickCleanup(r) PROVE CleanInv'
  <2>1. /\ UNCHANGED runs /\ phase = "retry" /\ phase' = "retry" /\ r \in todoRuns
        /\ step'[Controller] = "requeue" /\ target'[Controller] = r
        /\ todoRuns' = todoRuns \ {r}
    BY <1>0, <1>5 DEF TickCleanup, Advance, Become, TypeOK, dbVars
  <2>2. products'[r] = "none" /\ \A s \in RunIds \ {r} : products'[s] = products[s]
    BY <1>5 DEF TickCleanup, TypeOK
  <2>3. RetryIsIdle'
    BY <1>0, <2>1, <2>2 DEF RetryIsIdle
  <2>4. \A s \in RunIds : RunIsClean(s)'
    BY <1>0, <1>1, <1>2, <2>1, <2>2, CleanKept
  <2> QED
    BY <2>3, <2>4 DEF CleanInv
<1>6. ASSUME NEW r \in RunIds, TickCleanupFails(r) PROVE CleanInv'
  <2>1. /\ phase = "retry" /\ phase' = "retry" /\ todoRuns' = todoRuns \ {r}
        /\ step'[Controller] # "requeue" /\ products[r] # "none"
        /\ \A s \in RunIds \ {r} : products'[s] = products[s]
    BY <1>6 DEF TickCleanupFails, Advance, TypeOK
  <2>2. \A s \in RunIds : runs'[s].state = runs[s].state
    BY <1>6 DEF TickCleanupFails, MarkRunRetryExhausted, TypeOK, StoreTypeOK, RunRows
  <2>3. RetryIsIdle'
    BY <1>0, <2>1, <2>2 DEF RetryIsIdle, TypeOK
  <2>4. \A s \in RunIds : RunIsClean(s)'
    BY <1>0, <1>1, <1>2, <2>1, <2>2, CleanKept
  <2> QED
    BY <2>3, <2>4 DEF CleanInv
<1>7. CASE TickRequeue
  <2>1. PICK r \in RunIds : r = target[Controller]
    BY <1>0, <1>7 DEF TickRequeue, TypeOK
  <2>2. /\ phase = "retry" /\ runs[r].state # "RUNNING" /\ products[r] = "none"
        /\ UNCHANGED <<products, todoRuns>>
    BY <1>0, <1>7, <2>1 DEF TickRequeue, RetryIsIdle, taskVars
  <2>3. step'[Controller] # "requeue"
    BY <1>0, <1>7 DEF TickRequeue, Leave, Become, TypeOK
  <2>4. /\ runs'[r].state = runs[r].state \/ runs'[r].state = "QUEUED"
        /\ \A s \in RunIds \ {r} : runs'[s] = runs[s]
    BY <1>7, <2>1, TransitionRow DEF TickRequeue, dbVars
  <2>5. r \notin containers
    BY <2>2, NotInContainer
  <2>6. RunIsClean(r)'
    BY <1>1, <2>2, <2>5 DEF RunIsClean
  <2>7. \A s \in RunIds \ {r} : RunIsClean(s)'
    BY <1>0, <1>1, <1>2, <2>2, <2>4, CleanKept
  <2>8. RetryIsIdle'
    BY <1>0, <2>2, <2>3, <2>4 DEF RetryIsIdle, TypeOK
  <2> QED
    BY <2>6, <2>7, <2>8 DEF CleanInv
<1>8. ASSUME NEW o \in Obs, TickCreateRun(o) PROVE CleanInv'
  <2>1. UNCHANGED products /\ phase' # "retry" /\ step'[Controller] # "requeue"
    BY <1>8 DEF TickCreateRun, Advance
  <2>2. \A r \in RunIds : runs'[r] = runs[r] \/ runs[r].state = "ABSENT"
    BY <1>8, InsertRow DEF TickCreateRun
  <2>3. \A r \in RunIds : RunIsClean(r)'
    BY <1>0, <1>1, <1>2, <2>1, <2>2, CleanKept
  <2> QED
    BY <2>1, <2>3 DEF CleanInv, RetryIsIdle
<1> QED
  BY <1>3, <1>4, <1>5, <1>6, <1>7, <1>8 DEF Ticks

LEMMA RecoveryClean ==
    ~ DockerFaults /\ TypeOK /\ CleanInv /\ (Recovery \/ ControllerCrash) => CleanInv'
<1> SUFFICES ASSUME ~ DockerFaults, TypeOK, CleanInv, Recovery \/ ControllerCrash
             PROVE  CleanInv'
  OBVIOUS
<1>0. Controller \in Procs /\ RetryIsIdle
  BY ProcessingAssumption DEF CleanInv
<1>1. RetryIsIdle'
  <2>1. phase' # "retry"
    BY DEF Recovery, ControllerStart, KillManaged, GateOpens, RecoverRun, RecoverRunFails,
           RecoverRunsDone, RecoverAccepted, ResumesDeletion, RecoverDeletion,
           RecoverDeletionsDone, RecoverStored, ControllerCrash, Advance
  <2>2. CASE ControllerCrash
    BY <1>0, <2>1, <2>2 DEF ControllerCrash, Leave, Become, RetryIsIdle, TypeOK
  <2>3. CASE Recovery
    <3>1. step[Controller] # "requeue"
      BY <1>0, <2>3
         DEF Recovery, ControllerStart, KillManaged, GateOpens, RecoverRun, RecoverRunFails,
             RecoverRunsDone, RecoverAccepted, ResumesDeletion, RecoverDeletion,
             RecoverDeletionsDone, RecoverStored, Advance, RetryIsIdle
    <3>2. step' = step \/ \E r : Become(Controller, "rename", r)
      BY <2>3
         DEF Recovery, ControllerStart, KillManaged, GateOpens, RecoverRun, RecoverRunFails,
             RecoverRunsDone, RecoverAccepted, ResumesDeletion, RecoverDeletion,
             RecoverDeletionsDone, RecoverStored
    <3> QED
      BY <1>0, <2>1, <3>1, <3>2 DEF RetryIsIdle, Become, TypeOK
  <2> QED
    BY <2>2, <2>3
<1>2. \A r \in RunIds : runs'[r] = runs[r] \/ runs'[r].state = "FAILED"
  <2>1. UNCHANGED runs \/ \E r \in RunIds : TransitionRun(r, "RUNNING", "FAILED")
    BY DEF Recovery, ControllerStart, KillManaged, GateOpens, RecoverRun, RecoverRunFails,
           RecoverRunsDone, RecoverAccepted, ResumesDeletion, RecoverDeletion,
           RecoverDeletionsDone, RecoverStored, ControllerCrash, dbVars
  <2> QED
    BY <2>1, TransitionRow
<1>3. \A r \in RunIds : products[r] = "none" => products'[r] = "none"
  BY DEF Recovery, ControllerStart, KillManaged, GateOpens, RecoverRun, RecoverRunFails,
         RecoverRunsDone, RecoverAccepted, ResumesDeletion, RecoverDeletion,
         RecoverDeletionsDone, RecoverStored, ControllerCrash, TypeOK
<1>4. CASE KillManaged
  <2>1. containers' = {}
    BY <1>4 DEF KillManaged, GateOpens
  <2> QED
    BY <1>1, <1>2, <1>3, <2>1, CleanKept DEF CleanInv
<1>5. CASE ~ KillManaged
  <2>1. /\ UNCHANGED containers
        /\ phase' \notin {"down", "kill"} =>
               phase \notin {"down", "kill"} /\ UNCHANGED worker
    BY <1>5 DEF Recovery, ControllerStart, RecoverRun, RecoverRunFails, RecoverRunsDone,
           RecoverAccepted, ResumesDeletion, RecoverDeletion, RecoverDeletionsDone,
           RecoverStored, ControllerCrash, Advance, taskVars
  <2> QED
    BY <1>1, <1>2, <1>3, <2>1, CleanKept DEF CleanInv
<1> QED
  BY <1>4, <1>5

THEOREM CleanInvariant == ~ DockerFaults => (Spec => []CleanInv)
<1> SUFFICES ASSUME ~ DockerFaults PROVE Spec => []CleanInv
  OBVIOUS
<1>1. Init => CleanInv
  <2> SUFFICES ASSUME Init PROVE CleanInv
    OBVIOUS
  <2>1. RetryIsIdle
    BY ProcessingAssumption DEF Init, RetryIsIdle
  <2>2. ASSUME NEW r \in RunIds PROVE RunIsClean(r)
    BY DEF Init, RunIsClean, NoRun
  <2> QED
    BY <2>1, <2>2 DEF CleanInv
<1>2. TypeOK /\ TasksInv /\ CleanInv /\ [Next]_vars => CleanInv'
  <2> SUFFICES ASSUME TypeOK, TasksInv, CleanInv, [Next]_vars PROVE CleanInv'
    OBVIOUS
  <2>1. CASE UNCHANGED vars
    <3>1. \A r \in RunIds : RunIsClean(r)'
      BY <2>1 DEF vars, dbVars, taskVars, CleanInv, RunIsClean
    <3> QED
      BY <2>1, <3>1 DEF vars, dbVars, taskVars, CleanInv, RetryIsIdle
  <2> QED
    BY <2>1, EnvironmentClean, WorkersClean, TicksClean, RecoveryClean, CommandsClean
       DEF Next
<1> QED
  BY <1>1, <1>2, TypeCorrect, TasksInvariant, PTL DEF Spec

(* Where docker does what it says, an execution starts in an empty output   *)
(* directory that no other container writes to, whatever the removal of the *)
(* last attempt's products did (scheduler.py, the retry loop; reconcile.py).*)
THEOREM StartsCleanHolds == ~ DockerFaults => (Spec => []StartsClean)
<1>1. CleanInv => StartsClean
  BY DEF CleanInv, RunIsClean, StartsClean
<1> QED
  BY <1>1, CleanInvariant, PTL

-----------------------------------------------------------------------------
(* How many containers there are.                                           *)

LEMMA SlotsStep ==
    ASSUME SlotsInv,
           \/ Running' \subseteq Running
           \/ \E r : Running' = Running \cup {r} /\ Cardinality(Running) < MaxParallel,
           containers' \subseteq containers \/ containers' \subseteq Running'
    PROVE  SlotsInv'
<1> DEFINE Small(S) == IsFiniteSet(S) /\ Cardinality(S) \in Nat /\ Cardinality(S) <= MaxParallel
<1>0. MaxParallel \in Nat
  BY ProcessingAssumption
<1>1. Small(Running) /\ Small(containers)
  BY FS_CardinalityType DEF SlotsInv
<1>2. ASSUME NEW S, NEW T, T \subseteq S, Small(S) PROVE Small(T)
  BY <1>0, <1>2, FS_Subset, FS_CardinalityType
<1>3. Small(Running')
  <2>1. CASE Running' \subseteq Running
    BY <1>1, <1>2, <2>1
  <2>2. ASSUME NEW r, Running' = Running \cup {r}, Cardinality(Running) < MaxParallel
        PROVE  Small(Running')
    <3>1. /\ IsFiniteSet(Running \cup {r})
          /\ \/ Cardinality(Running \cup {r}) = Cardinality(Running)
             \/ Cardinality(Running \cup {r}) = Cardinality(Running) + 1
      BY <1>1, FS_AddElement
    <3> QED
      BY <1>0, <1>1, <2>2, <3>1
  <2> QED
    BY <2>1, <2>2
<1>4. Small(containers')
  BY <1>1, <1>2, <1>3
<1> QED
  BY <1>3, <1>4 DEF SlotsInv

THEOREM SlotsInvariant == ~ DockerFaults => (Spec => []SlotsInv)
<1> SUFFICES ASSUME ~ DockerFaults PROVE Spec => []SlotsInv
  OBVIOUS
<1>1. Init => SlotsInv
  <2> SUFFICES ASSUME Init PROVE SlotsInv
    OBVIOUS
  <2>1. Running = {} /\ containers = {}
    BY DEF Init, Running
  <2> QED
    BY <2>1, FS_EmptySet, ProcessingAssumption DEF SlotsInv
<1>2. TypeOK /\ TasksInv /\ CleanInv /\ CleanInv' /\ SlotsInv /\ [Next]_vars => SlotsInv'
  <2> SUFFICES ASSUME TypeOK, TasksInv, CleanInv, CleanInv', SlotsInv, [Next]_vars
               PROVE  SlotsInv'
    OBVIOUS
  <2>1. ASSUME NEW r \in RunIds, WorkerClaims(r) PROVE SlotsInv'
    <3>1. Running' = Running \cup {r} /\ Cardinality(Running) < MaxParallel
      BY <2>1 DEF WorkerClaims, SlotFree, Running, TypeOK
    <3>2. containers' \subseteq Running'
      BY <2>1 DEF WorkerClaims, WorkerTurn, Running, CleanInv, RunIsClean, TypeOK
    <3> QED
      BY <3>1, <3>2, SlotsStep
  <2>2. CASE ~ \E r \in RunIds : WorkerClaims(r)
    <3>1. ASSUME NEW r \in RunIds, worker'[r] = "running" PROVE worker[r] = "running"
      <4>1. CASE Commands
        BY <3>1, <4>1, CommandsQuiet
      <4>2. CASE Environment
        BY <3>1, <4>2, EnvironmentQuiet
      <4>3. ASSUME NEW s \in RunIds, WorkerMoves(s), ~ WorkerClaims(s) PROVE worker[r] = "running"
        BY <3>1, <4>3 DEF WorkerMoves, WorkerRaisesBeforeClaim, WorkerSucceeds,
             WorkerFails, WorkerDies, WorkerEnds, TypeOK
      <4>4. CASE Ticks \/ Recovery \/ ControllerCrash \/ UNCHANGED vars
        BY <3>1, <4>4
           DEF Ticks, TickSweep, TickMarkExhausted, TickListRetryable, TickCleanup,
               TickCleanupFails, TickRequeue, TickListWithoutRuns, TickCreateRun, TickSpawn,
               Recovery, ControllerStart, KillManaged, GateOpens, RecoverRun,
               RecoverRunFails, RecoverRunsDone, RecoverAccepted, ResumesDeletion,
               RecoverDeletion, RecoverDeletionsDone, RecoverStored, ControllerCrash,
               taskVars, vars
      <4> QED
        BY <2>2, <4>1, <4>2, <4>3, <4>4 DEF Next
    <3>2. containers' \subseteq containers
      <4>1. CASE Commands
        BY <4>1, CommandsQuiet
      <4>2. CASE ~ Commands
        BY <2>2, <4>2
           DEF Next, Environment, ObservationStored, RawVanishes, ContainerWrites,
               ContainerExits, WorkerMoves, WorkerRaisesBeforeClaim, WorkerSucceeds,
               WorkerFails, WorkerDies, WorkerEnds, Ticks, TickSweep, TickMarkExhausted,
               TickListRetryable, TickCleanup, TickCleanupFails, TickRequeue,
               TickListWithoutRuns, TickCreateRun, TickSpawn, Recovery, ControllerStart,
               KillManaged, GateOpens, RecoverRun, RecoverRunFails, RecoverRunsDone,
               RecoverAccepted, ResumesDeletion, RecoverDeletion, RecoverDeletionsDone,
               RecoverStored, ControllerCrash, taskVars, vars
      <4> QED
        BY <4>1, <4>2
    <3>3. Running' \subseteq Running
      BY <3>1 DEF Running
    <3> QED
      BY <3>2, <3>3, SlotsStep
  <2> QED
    BY <2>1, <2>2
<1> QED
  BY <1>1, <1>2, TypeCorrect, TasksInvariant, CleanInvariant, PTL DEF Spec

(* There are never more processing containers than the configuration        *)
(* allows, those a crashed controller left behind counted: the gate of      *)
(* recovery is behind them before the semaphore lets the next one through   *)
(* (scheduler.py; reconcile.py).                                            *)
THEOREM ContainersWithinLimitHolds == ~ DockerFaults => (Spec => []ContainersWithinLimit)
<1>1. SlotsInv => ContainersWithinLimit
  BY DEF SlotsInv, ContainersWithinLimit
<1> QED
  BY <1>1, SlotsInvariant, PTL
=============================================================================
