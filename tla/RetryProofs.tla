----------------------------- MODULE RetryProofs -----------------------------
(***************************************************************************)
(* The retry budget of Processing, for every bound: how often a run is     *)
(* executed, and that a run handed to the operator stays there.            *)
(***************************************************************************)
EXTENDS ProcessingProofs

(* What the retry loop selects a failed run for; it stays so until the run  *)
(* is executed or given up.                                                 *)
Retryable(r) == runs[r].execs < MaxProcessingAttempts /\ ~ runs[r].exhausted

(* The row of a run is within its budget: fully so while it waits for an    *)
(* execution.                                                               *)
RowWithinBudget(r) ==
    /\ runs[r].execs <= MaxProcessingAttempts
    /\ runs[r].state = "QUEUED" => runs[r].execs < MaxProcessingAttempts
    /\ runs[r].exhausted => runs[r].state \in {"FAILED", "SUPERSEDED", "DISCARDED"}

(* The runs the retry loop has still to visit, and the one it is about to   *)
(* put back, are still what they were when they were listed.                *)
ListIsRetryable ==
    /\ phase = "retry" => \A r \in todoRuns : Retryable(r)
    /\ step[Controller] = "requeue" => phase = "retry" /\ Retryable(target[Controller])

RetryInv ==
    /\ \A r \in RunIds : RowWithinBudget(r)
    /\ ListIsRetryable

-----------------------------------------------------------------------------
(* What the transactions do to the budget.                                  *)

LEMMA MaxIsNat == MaxProcessingAttempts \in Nat /\ 0 < MaxProcessingAttempts
  BY ProcessingAssumption

(* A transition that does not put the run back in the queue.                *)
LEMMA TransitionBudget ==
    ASSUME TypeOK, RetryInv, NEW r \in RunIds, NEW from, NEW to, to # "QUEUED",
           TransitionRun(r, from, to), from \in {"QUEUED", "RUNNING"}
    PROVE  \A s \in RunIds : RowWithinBudget(s)'
<1>1. runs[r] \in RunRows /\ runs[r].state = from
  BY DEF TypeOK, StoreTypeOK, TransitionRun
<1>2. RowWithinBudget(r) /\ ~ runs[r].exhausted
  BY <1>1 DEF RetryInv, RowWithinBudget
<1>3. to = "RUNNING" => from = "QUEUED"
  BY DEF TransitionRun, RunTransitions
<1>4. /\ runs'[r].state = to
      /\ runs'[r].exhausted = runs[r].exhausted
      /\ runs'[r].execs = IF to = "RUNNING" THEN runs[r].execs + 1 ELSE runs[r].execs
  BY <1>1 DEF TransitionRun, Moved, TypeOK, StoreTypeOK, RunRows
<1>5. RowWithinBudget(r)'
  <2>1. runs[r].execs \in Nat
    BY <1>1 DEF RunRows
  <2> QED
    BY <1>1, <1>2, <1>3, <1>4, <2>1, MaxIsNat DEF RowWithinBudget
<1>6. \A s \in RunIds \ {r} : runs'[s] = runs[s]
  BY DEF TransitionRun, TypeOK, StoreTypeOK
<1> QED
  BY <1>5, <1>6 DEF RetryInv, RowWithinBudget

(* A row that no execution is added to: it stays, it ends or moves between   *)
(* states where it is not waiting for an execution, or it is inserted.      *)
Kept(s) ==
    \/ runs'[s] = runs[s]
    \/ /\ runs'[s].execs = runs[s].execs
       /\ runs'[s].exhausted = runs[s].exhausted
       /\ runs'[s].state # "QUEUED"
       /\ runs[s].exhausted => runs'[s].state \in {"FAILED", "SUPERSEDED", "DISCARDED"}
    \/ runs'[s] = NewRun

LEMMA KeptBudget ==
    ASSUME RetryInv, NEW s \in RunIds, Kept(s)
    PROVE  RowWithinBudget(s)' /\ (Retryable(s) => Retryable(s)')
<1>1. RowWithinBudget(s)
  BY DEF RetryInv
<1>2. CASE runs'[s] = runs[s]
  BY <1>1, <1>2 DEF RowWithinBudget, Retryable
<1>3. CASE runs'[s] = NewRun
  BY <1>3, MaxIsNat DEF RowWithinBudget, Retryable, NewRun
<1>4. CASE /\ runs'[s].execs = runs[s].execs
           /\ runs'[s].exhausted = runs[s].exhausted
           /\ runs'[s].state # "QUEUED"
           /\ runs[s].exhausted => runs'[s].state \in {"FAILED", "SUPERSEDED", "DISCARDED"}
  BY <1>1, <1>4 DEF RowWithinBudget, Retryable
<1> QED
  BY <1>2, <1>3, <1>4 DEF Kept

(* A failed row that is marked for the operator stays within its budget.    *)
LEMMA MarkedBudget ==
    ASSUME TypeOK, RetryInv, NEW s \in RunIds,
           \/ runs'[s] = runs[s]
           \/ runs[s].state = "FAILED" /\ runs'[s] = [runs[s] EXCEPT !.exhausted = TRUE]
    PROVE  RowWithinBudget(s)'
<1>1. RowWithinBudget(s) /\ runs[s] \in RunRows
  BY DEF RetryInv, TypeOK, StoreTypeOK
<1> QED
  BY <1>1 DEF RowWithinBudget, RunRows

-----------------------------------------------------------------------------

LEMMA RetryInit == Init => RetryInv
<1> SUFFICES ASSUME Init PROVE RetryInv
  OBVIOUS
<1>1. ASSUME NEW r \in RunIds PROVE RowWithinBudget(r)
  <2>1. \/ runs[r] = [state |-> "ACCEPTED", execs |-> 1, exhausted |-> FALSE]
        \/ runs[r] = NoRun
    BY DEF Init
  <2> QED
    BY <2>1, MaxIsNat DEF RowWithinBudget, NoRun
<1>2. ListIsRetryable
  BY ProcessingAssumption DEF ListIsRetryable, Init
<1> QED
  BY <1>1, <1>2 DEF RetryInv

(* The loop's list only shrinks, and the run it is about to put back stays. *)
ListSteady ==
    /\ phase' = "retry" => phase = "retry" /\ todoRuns' \subseteq todoRuns
    /\ \/ step'[Controller] # "requeue"
       \/ /\ step'[Controller] = step[Controller]
          /\ target'[Controller] = target[Controller]
          /\ phase' = phase

LEMMA KeptStep ==
    ASSUME TypeOK, RetryInv, \A s \in RunIds : Kept(s), ListSteady
    PROVE  RetryInv'
<1>1. \A s \in RunIds : RowWithinBudget(s)' /\ (Retryable(s) => Retryable(s)')
  BY KeptBudget
<1>2. ASSUME phase' = "retry", NEW r \in todoRuns' PROVE Retryable(r)'
  BY <1>1, <1>2 DEF ListSteady, RetryInv, ListIsRetryable, TypeOK
<1>3. ASSUME step'[Controller] = "requeue"
      PROVE  phase' = "retry" /\ Retryable(target[Controller])'
             /\ target'[Controller] = target[Controller]
  <2>1. target[Controller] \in RunIds
    BY <1>3, ProcessingAssumption DEF TypeOK, ListSteady
  <2>2. phase = "retry" /\ Retryable(target[Controller])
    BY <1>3 DEF ListSteady, RetryInv, ListIsRetryable
  <2> QED
    BY <1>1, <1>3, <2>1, <2>2 DEF ListSteady, Retryable
<1>4. ListIsRetryable'
  BY <1>2, <1>3 DEF ListIsRetryable, Retryable
<1> QED
  BY <1>1, <1>4 DEF RetryInv

LEMMA UnchangedStep ==
    ASSUME TypeOK, RetryInv, UNCHANGED runs, ListSteady
    PROVE  RetryInv'
  BY KeptStep DEF Kept

LEMMA EnvironmentRetry == TypeOK /\ RetryInv /\ Environment => RetryInv'
<1> SUFFICES ASSUME TypeOK, RetryInv, Environment PROVE RetryInv'
  OBVIOUS
<1>1. UNCHANGED <<runs, phase, todoRuns, step, target>>
  BY DEF Environment, ObservationStored, RawVanishes, ContainerWrites, ContainerExits,
         dbVars, taskVars
<1> QED
  BY <1>1, UnchangedStep DEF ListSteady

LEMMA WorkersRetry ==
    TypeOK /\ RetryInv /\ (\E r \in RunIds : WorkerMoves(r)) => RetryInv'
<1> SUFFICES ASSUME TypeOK, RetryInv, NEW r \in RunIds, WorkerMoves(r) PROVE RetryInv'
  OBVIOUS
<1>1. phase = "idle" /\ phase' = "idle" /\ UNCHANGED <<step, target>>
  BY DEF WorkerMoves, WorkerClaims, WorkerRaisesBeforeClaim, WorkerSucceeds, WorkerFails,
         WorkerDies, WorkerEnds, WorkerTurn, RunnerReturned
<1>2. \/ UNCHANGED runs
      \/ \E from \in {"QUEUED", "RUNNING"}, to \in RunStates \ {"QUEUED"} :
             TransitionRun(r, from, to)
  BY DEF WorkerMoves, WorkerClaims, WorkerRaisesBeforeClaim, WorkerSucceeds, WorkerFails,
         WorkerDies, dbVars, RunStates
<1>3. CASE UNCHANGED runs
  BY <1>1, <1>3, UnchangedStep DEF ListSteady
<1>4. ASSUME NEW from \in {"QUEUED", "RUNNING"}, NEW to \in RunStates \ {"QUEUED"},
             TransitionRun(r, from, to)
      PROVE  RetryInv'
  <2>1. \A s \in RunIds : RowWithinBudget(s)'
    BY <1>4, TransitionBudget
  <2>2. step[Controller] # "requeue"
    BY <1>1 DEF RetryInv, ListIsRetryable
  <2> QED
    BY <1>1, <2>1, <2>2 DEF RetryInv, ListIsRetryable
<1> QED
  BY <1>2, <1>3, <1>4

LEMMA TicksRetry == TypeOK /\ RetryInv /\ Ticks => RetryInv'
<1> SUFFICES ASSUME TypeOK, RetryInv, Ticks PROVE RetryInv'
  OBVIOUS
<1> USE DEF Advance
<1>1. CASE TickSweep
  <2>1. \A s \in RunIds : Kept(s)
    <3> SUFFICES ASSUME NEW s \in RunIds PROVE Kept(s)
      OBVIOUS
    <3>1. runs'[s] = IF s \in Orphaned THEN [runs[s] EXCEPT !.state = "FAILED"]
                                       ELSE runs[s]
      BY <1>1 DEF TickSweep
    <3>2. runs[s] \in RunRows
      BY DEF TypeOK, StoreTypeOK
    <3> QED
      BY <3>1, <3>2 DEF Kept, RunRows
  <2> QED
    BY <1>1, <2>1, KeptStep DEF TickSweep, ListSteady
<1>2. CASE TickMarkExhausted
  <2>1. \A s \in RunIds :
            \/ runs'[s] = runs[s]
            \/ runs[s].state = "FAILED" /\ runs'[s] = [runs[s] EXCEPT !.exhausted = TRUE]
    BY <1>2 DEF TickMarkExhausted, MarkExhaustedFailedRuns
  <2>2. \A s \in RunIds : RowWithinBudget(s)'
    BY <2>1, MarkedBudget
  <2> QED
    BY <1>2, <2>2 DEF TickMarkExhausted, RetryInv, ListIsRetryable
<1>3. CASE TickListRetryable
  <2>1. UNCHANGED runs
    BY <1>3 DEF TickListRetryable, dbVars
  <2>2. \A s \in RunIds : RowWithinBudget(s)'
    BY <2>1 DEF RetryInv, RowWithinBudget
  <2>3. \A s \in todoRuns' : Retryable(s)'
    BY <1>3, <2>1 DEF TickListRetryable, RetryableFailedRuns, Retryable
  <2> QED
    BY <1>3, <2>2, <2>3 DEF TickListRetryable, RetryInv, ListIsRetryable
<1>4. ASSUME NEW r \in RunIds, TickCleanup(r) PROVE RetryInv'
  <2>1. UNCHANGED runs /\ todoRuns' \subseteq todoRuns /\ phase = "retry" /\ phase' = "retry"
    BY <1>4 DEF TickCleanup, dbVars
  <2>2. \A s \in RunIds : RowWithinBudget(s)'
    BY <2>1 DEF RetryInv, RowWithinBudget
  <2>3. \A s \in todoRuns : Retryable(s)'
    BY <2>1 DEF RetryInv, ListIsRetryable, Retryable
  <2>4. target'[Controller] = r /\ r \in todoRuns
    BY <1>4, ProcessingAssumption DEF TickCleanup, Become, TypeOK
  <2> QED
    BY <2>1, <2>2, <2>3, <2>4 DEF RetryInv, ListIsRetryable, Retryable
<1>5. ASSUME NEW r \in RunIds, TickCleanupFails(r) PROVE RetryInv'
  <2>1. /\ todoRuns' = todoRuns \ {r} /\ phase = "retry" /\ phase' = "retry"
        /\ step'[Controller] = "idle"
    BY <1>5 DEF TickCleanupFails
  <2>2. \A s \in RunIds :
            \/ runs'[s] = runs[s]
            \/ /\ s = r
               /\ runs[s].state = "FAILED"
               /\ runs'[s] = [runs[s] EXCEPT !.exhausted = TRUE]
    BY <1>5 DEF TickCleanupFails, MarkRunRetryExhausted, TypeOK, StoreTypeOK
  <2>3. \A s \in RunIds : RowWithinBudget(s)'
    BY <2>2, MarkedBudget
  <2>4. \A s \in todoRuns' : Retryable(s)'
    BY <2>1, <2>2 DEF RetryInv, ListIsRetryable, Retryable, TypeOK
  <2> QED
    BY <2>1, <2>3, <2>4 DEF RetryInv, ListIsRetryable
<1>6. CASE TickRequeue
  <2>1. PICK r \in RunIds : r = target[Controller] /\ Retryable(r) /\ phase = "retry"
    BY <1>6, ProcessingAssumption DEF TickRequeue, RetryInv, ListIsRetryable, TypeOK
  <2>2. UNCHANGED <<phase, todoRuns>> /\ step'[Controller] = "idle"
    BY <1>6, ProcessingAssumption DEF TickRequeue, Leave, Become, taskVars, TypeOK
  <2>3. CASE UNCHANGED dbVars
    BY <2>2, <2>3, UnchangedStep DEF dbVars, ListSteady
  <2>4. CASE TransitionRun(r, "FAILED", "QUEUED")
    <3>1. runs[r] \in RunRows /\ \A s \in RunIds \ {r} : runs'[s] = runs[s]
      BY <2>1, <2>4 DEF TransitionRun, TypeOK, StoreTypeOK
    <3>2. /\ runs'[r].execs = runs[r].execs
          /\ runs'[r].exhausted = runs[r].exhausted
      BY <2>1, <2>4, <3>1 DEF TransitionRun, Moved, TypeOK, StoreTypeOK, RunRows
    <3>3. RowWithinBudget(r)'
      BY <2>1, <3>2 DEF RetryInv, RowWithinBudget, Retryable
    <3>4. \A s \in RunIds : RowWithinBudget(s)'
      BY <3>1, <3>3 DEF RetryInv, RowWithinBudget
    <3>5. \A s \in todoRuns : Retryable(s)'
      BY <2>1, <3>1, <3>2 DEF RetryInv, ListIsRetryable, Retryable, TypeOK
    <3> QED
      BY <2>2, <3>4, <3>5 DEF RetryInv, ListIsRetryable
  <2> QED
    BY <1>6, <2>1, <2>3, <2>4 DEF TickRequeue
<1>7. ASSUME UNCHANGED runs, phase' # "retry", step'[Controller] # "requeue" PROVE RetryInv'
  BY <1>7, UnchangedStep DEF ListSteady
<1>8. CASE TickListWithoutRuns \/ TickSpawn
  BY <1>7, <1>8 DEF TickListWithoutRuns, TickSpawn, dbVars
<1>9. ASSUME NEW o \in Obs, TickCreateRun(o) PROVE RetryInv'
  <2>1. PICK k \in Attempts : runs' = [runs EXCEPT ![<<o, k>>] = NewRun]
    BY <1>9 DEF TickCreateRun, CreateRun
  <2>2. \A s \in RunIds : Kept(s)
    BY <2>1 DEF Kept, TypeOK, StoreTypeOK
  <2> QED
    BY <1>9, <2>2, KeptStep DEF TickCreateRun, ListSteady
<1> QED
  BY <1>1, <1>2, <1>3, <1>4, <1>5, <1>6, <1>8, <1>9 DEF Ticks

LEMMA RecoveryRetry ==
    TypeOK /\ RetryInv /\ (Recovery \/ ControllerCrash) => RetryInv'
<1> SUFFICES ASSUME TypeOK, RetryInv, Recovery \/ ControllerCrash PROVE RetryInv'
  OBVIOUS
<1> USE DEF Advance
<1>1. ASSUME UNCHANGED runs, phase' # "retry", step'[Controller] # "requeue" PROVE RetryInv'
  BY <1>1, UnchangedStep DEF ListSteady
<1>2. CASE ControllerCrash
  <2>1. step'[Controller] = "idle"
    BY <1>2, ProcessingAssumption DEF ControllerCrash, Leave, Become, TypeOK
  <2> QED
    BY <1>1, <1>2, <2>1 DEF ControllerCrash, dbVars
<1>3. CASE ControllerStart
  BY <1>1, <1>3 DEF ControllerStart, dbVars, RetryInv, ListIsRetryable
<1>4. CASE KillManaged \/ RecoverRunsDone \/ RecoverDeletionsDone \/ RecoverStored
             \/ RecoverAccepted
  BY <1>1, <1>4 DEF KillManaged, GateOpens, RecoverRunsDone, RecoverDeletionsDone,
                    RecoverStored, RecoverAccepted, ResumesDeletion, dbVars
<1>5. ASSUME NEW r \in RunIds, RecoverRunFails(r) PROVE RetryInv'
  BY <1>1, <1>5 DEF RecoverRunFails, dbVars
<1>6. ASSUME NEW r \in RunIds, RecoverRun(r) PROVE RetryInv'
  <2>1. \A s \in RunIds : RowWithinBudget(s)'
    BY <1>6, TransitionBudget DEF RecoverRun
  <2> QED
    BY <1>6, <2>1 DEF RecoverRun, RetryInv, ListIsRetryable
<1>7. ASSUME NEW o \in Obs, RecoverDeletion(o) PROVE RetryInv'
  <2>1. step'[Controller] = "rename"
    BY <1>7, ProcessingAssumption DEF RecoverDeletion, Become, TypeOK
  <2> QED
    BY <1>1, <1>7, <2>1 DEF RecoverDeletion, dbVars
<1> QED
  BY <1>2, <1>3, <1>4, <1>5, <1>6, <1>7 DEF Recovery

LEMMA CommandsRetry == TypeOK /\ RetryInv /\ Commands => RetryInv'
<1> SUFFICES ASSUME TypeOK, RetryInv, NEW p \in Procs,
                    \/ \E r \in RunIds : BeginAccept(p, r) \/ BeginReprocess(p, r)
                                            \/ BeginDiscard(p, r)
                    \/ CommitAccept(p)
                    \/ CommitReprocess(p)
                    \/ CommitDiscard(p)
                    \/ \E o \in Obs : BeginResolve(p, o)
                    \/ FinishDeletion(p)
                    \/ ForceDrop(p)
                    \/ CommandEnds(p)
             PROVE  RetryInv'
  BY DEF Commands
<1>1. ASSUME NEW s, NEW r, s # "requeue", Become(p, s, r), UNCHANGED <<phase, todoRuns>>
      PROVE  ListSteady
  <2>1. CASE p = Controller
    BY <1>1, <2>1 DEF Become, ListSteady, TypeOK
  <2>2. CASE p # Controller
    BY <1>1, <2>2 DEF Become, ListSteady, TypeOK
  <2> QED
    BY <2>1, <2>2
<1>2. ListSteady
  <2>1. UNCHANGED <<phase, todoRuns>>
    BY DEF BeginAccept, BeginReprocess, BeginDiscard, Validates, CommitAccept,
           CommitReprocess, CommitDiscard, BeginResolve, FinishDeletion, ForceDrop,
           CommandEnds, taskVars
  <2>2. \E s, r : s # "requeue" /\ Become(p, s, r)
    BY DEF BeginAccept, BeginReprocess, BeginDiscard, Validates, CommitAccept,
           CommitReprocess, CommitDiscard, BeginResolve, BeginDrop, FinishDeletion,
           FinishStep, FinishRename, FinishRemove, FinishMark, ForceDrop, DropStep,
           DropLive, DropTrash, DropMark, CommandEnds, Abandon, Continue, Leave
  <2> QED
    BY <1>1, <2>1, <2>2
<1>3. target[p] \in RunIds \/ step[p] = "idle"
  BY DEF TypeOK
<1>4. ASSUME UNCHANGED runs PROVE RetryInv'
  BY <1>2, <1>4, UnchangedStep
<1>5. CASE CommitAccept(p) \/ CommitDiscard(p)
  <2>1. PICK r \in RunIds, verdict \in {"ACCEPTED", "DISCARDED"} :
            /\ runs' = [runs EXCEPT ![r].state = verdict]
            /\ verdict = "ACCEPTED" => runs[r].state = "AWAITING_QA"
    BY <1>3, <1>5 DEF CommitAccept, CommitDiscard, AcceptRunAndBeginDeletion,
                      DiscardFailedRunAndBeginDeletion, VerdictAllowed
  <2>2. RowWithinBudget(r) /\ runs[r] \in RunRows
    BY DEF RetryInv, TypeOK, StoreTypeOK
  <2>3. \A s \in RunIds : Kept(s)
    BY <2>1, <2>2 DEF Kept, RowWithinBudget, TypeOK, StoreTypeOK, RunRows
  <2> QED
    BY <1>2, <2>3, KeptStep
<1>6. CASE CommitReprocess(p)
  <2>1. PICK r \in RunIds : ReprocessRunAndCreate(r)
    BY <1>3, <1>6 DEF CommitReprocess
  <2>2. runs[r] \in RunRows
    BY DEF TypeOK, StoreTypeOK
  <2>3. \A s \in RunIds : Kept(s)
    BY <2>1, <2>2 DEF ReprocessRunAndCreate, Kept, TypeOK, StoreTypeOK, RunRows
  <2> QED
    BY <1>2, <2>3, KeptStep
<1>7. CASE \/ \E r \in RunIds : BeginAccept(p, r) \/ BeginReprocess(p, r)
                                   \/ BeginDiscard(p, r)
           \/ \E o \in Obs : BeginResolve(p, o)
           \/ FinishDeletion(p) \/ ForceDrop(p) \/ CommandEnds(p)
  BY <1>4, <1>7
     DEF BeginAccept, BeginReprocess, BeginDiscard, Validates, BeginResolve, BeginDrop,
         FinishDeletion, FinishStep, FinishRename, FinishRemove, FinishMark,
         ForceDrop, DropStep, DropLive, DropTrash, DropMark, CommandEnds, Abandon,
         TransitionObservation, dbVars
<1> QED
  BY <1>5, <1>6, <1>7

-----------------------------------------------------------------------------

THEOREM RetryInvariant == Spec => []RetryInv
<1>1. TypeOK /\ RetryInv /\ [Next]_vars => RetryInv'
  <2> SUFFICES ASSUME TypeOK, RetryInv, [Next]_vars PROVE RetryInv'
    OBVIOUS
  <2>1. CASE UNCHANGED vars
    BY <2>1, UnchangedStep DEF vars, dbVars, taskVars, ListSteady
  <2> QED
    BY <2>1, EnvironmentRetry, WorkersRetry, TicksRetry, RecoveryRetry, CommandsRetry
       DEF Next
<1> QED
  BY <1>1, RetryInit, TypeCorrect, PTL DEF Spec

(* However often commands race the retry loop and the controller crashes    *)
(* and restarts, no run is executed more often than                         *)
(* max_processing_attempts allows (scheduler.py, the retry loop).           *)
THEOREM RetryBudgetHolds == Spec => []RetryBudget
<1>1. RetryInv => RetryBudget
  BY DEF RetryInv, RowWithinBudget, RetryBudget
<1> QED
  BY <1>1, RetryInvariant, PTL

(* A run handed to the operator as exhausted is never queued again: the     *)
(* retry loop works from an old list, but nothing marks a run between its   *)
(* listing and its turn (scheduler.py, tick; store.py).                     *)
THEOREM ExhaustedStaysHolds == Spec => []ExhaustedStaysWithOperator
<1>1. RetryInv => ExhaustedStaysWithOperator
  BY DEF RetryInv, RowWithinBudget, ExhaustedStaysWithOperator
<1> QED
  BY <1>1, RetryInvariant, PTL
=============================================================================
