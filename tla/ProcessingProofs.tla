-------------------------- MODULE ProcessingProofs --------------------------
(***************************************************************************)
(* Theorems about Processing, for every set of observations, every number  *)
(* of commands and every bound.                                            *)
(***************************************************************************)
EXTENDS Processing, TLAPS

-----------------------------------------------------------------------------
(* The transactions keep the rows of the two tables well formed.            *)

LEMMA CreateRunType ==
    ASSUME StoreTypeOK, NEW o \in Obs, CreateRun(o)
    PROVE  StoreTypeOK'
<1>1. PICK k \in Attempts :
          runs' = [runs EXCEPT ![<<o, k>>] = NewRun] /\ UNCHANGED observations
  BY DEF CreateRun
<1>2. NewRun \in RunRows
  BY DEF NewRun, RunRows, RunStates
<1> QED
  BY <1>1, <1>2 DEF StoreTypeOK, RunIds

LEMMA MovedType ==
    ASSUME NEW row \in RunRows, NEW to \in RunStates
    PROVE  /\ Moved(row, to) \in RunRows
           /\ Moved(row, to).state = to
<1> DEFINE count == IF to = "RUNNING" THEN row.execs + 1 ELSE row.execs
<1>1. count \in Nat
  BY DEF RunRows
<1>2. Moved(row, to) = [row EXCEPT !.state = to, !.execs = count]
  BY DEF Moved
<1> HIDE DEF count
<1> QED
  BY <1>1, <1>2 DEF RunRows

LEMMA TransitionRunType ==
    ASSUME StoreTypeOK, NEW r \in RunIds, NEW from, NEW to, TransitionRun(r, from, to)
    PROVE  StoreTypeOK'
<1>1. to \in RunStates
  BY DEF TransitionRun, RunTransitions, RunStates
<1>2. Moved(runs[r], to) \in RunRows
  BY <1>1, MovedType DEF StoreTypeOK
<1> QED
  BY <1>2 DEF TransitionRun, StoreTypeOK

LEMMA MarkTypes ==
    ASSUME StoreTypeOK, NEW r \in RunIds, NEW n,
           MarkExhaustedFailedRuns(n) \/ MarkRunRetryExhausted(r)
    PROVE  StoreTypeOK'
<1>1. \A s \in RunIds : [runs[s] EXCEPT !.exhausted = TRUE] \in RunRows
  BY DEF StoreTypeOK, RunRows
<1>2. CASE MarkExhaustedFailedRuns(n)
  BY <1>1, <1>2 DEF MarkExhaustedFailedRuns, StoreTypeOK
<1>3. CASE MarkRunRetryExhausted(r)
  BY <1>1, <1>3 DEF MarkRunRetryExhausted, StoreTypeOK
<1> QED
  BY <1>2, <1>3

LEMMA VerdictTypes ==
    ASSUME StoreTypeOK, NEW r \in RunIds,
           AcceptRunAndBeginDeletion(r) \/ DiscardFailedRunAndBeginDeletion(r)
    PROVE  StoreTypeOK'
<1>1. r[1] \in Obs
  BY DEF RunIds
<1>2. PICK verdict \in {"ACCEPTED", "DISCARDED"} :
          /\ runs' = [runs EXCEPT ![r].state = verdict]
          /\ observations' = [observations EXCEPT ![r[1]].state = "DELETING"]
  BY DEF AcceptRunAndBeginDeletion, DiscardFailedRunAndBeginDeletion, BeginDeletion
<1>3. runs' \in [RunIds -> RunRows]
  BY <1>2 DEF StoreTypeOK, RunRows, RunStates
<1>4. observations' \in [Obs -> ObservationRows]
  BY <1>1, <1>2 DEF StoreTypeOK, ObservationRows, ObservationStates
<1> QED
  BY <1>3, <1>4 DEF StoreTypeOK

LEMMA ReprocessType ==
    ASSUME StoreTypeOK, NEW r \in RunIds, ReprocessRunAndCreate(r)
    PROVE  StoreTypeOK'
<1>1. NewRun \in RunRows
  BY DEF NewRun, RunRows, RunStates
<1>2. [runs[r] EXCEPT !.state = "SUPERSEDED"] \in RunRows
  BY DEF StoreTypeOK, RunRows, RunStates
<1> QED
  BY <1>1, <1>2 DEF ReprocessRunAndCreate, StoreTypeOK

LEMMA TransitionObservationType ==
    ASSUME StoreTypeOK, NEW o \in Obs, NEW from, NEW to,
           TransitionObservation(o, from, to, 0, 0)
    PROVE  StoreTypeOK'
<1>1. to \in ObservationStates
  BY DEF TransitionObservation, ObsTransitions, ObservationStates
<1> QED
  BY <1>1 DEF TransitionObservation, StoreTypeOK, ObservationRows

-----------------------------------------------------------------------------
(* Type correctness.                                                        *)

LEMMA BecomeType ==
    ASSUME TypeOK, NEW p \in Procs, NEW s, NEW r \in RunIds, Become(p, s, r),
           s \in FinishSteps \cup DropSteps \cup CommandSteps \cup {"requeue"}
    PROVE  /\ step' \in [Procs -> FinishSteps \cup DropSteps \cup CommandSteps
                                     \cup {"idle", "requeue"}]
           /\ target' \in [Procs -> RunIds \cup {None}]
           /\ \A q \in Procs : step'[q] # "idle" => target'[q] \in RunIds
  BY DEF TypeOK, Become

LEMMA LeaveType ==
    ASSUME TypeOK, NEW p \in Procs, Leave(p)
    PROVE  /\ step' \in [Procs -> FinishSteps \cup DropSteps \cup CommandSteps
                                     \cup {"idle", "requeue"}]
           /\ target' \in [Procs -> RunIds \cup {None}]
           /\ \A q \in Procs : step'[q] # "idle" => target'[q] \in RunIds
  BY DEF TypeOK, Leave, Become

LEMMA InitType == Init => TypeOK
<1> SUFFICES ASSUME Init PROVE TypeOK
  OBVIOUS
<1>1. observations \in [Obs -> ObservationRows]
  BY DEF Init, StoredRow, NoObservation, ObservationRows, ObservationStates
<1>2. runs \in [RunIds -> RunRows]
  BY DEF Init, NoRun, RunRows, RunStates
<1>3. raw \in [Obs -> SUBSET Places]
  BY DEF Init, Places
<1>4. products \in [RunIds -> Outputs]
  BY DEF Init, Outputs
<1> QED
  BY <1>1, <1>2, <1>3, <1>4 DEF Init, TypeOK, StoreTypeOK, Phases

LEMMA EnvironmentType == TypeOK /\ Environment => TypeOK'
<1> SUFFICES ASSUME TypeOK, Environment PROVE TypeOK'
  OBVIOUS
<1>1. ASSUME NEW o \in Obs, ObservationStored(o) PROVE TypeOK'
  <2>1. StoredRow \in ObservationRows /\ EmptyRow \in ObservationRows
    BY DEF StoredRow, EmptyRow, ObservationRows, ObservationStates
  <2>2. observations' \in [Obs -> ObservationRows]
    BY <1>1, <2>1 DEF ObservationStored, TypeOK, StoreTypeOK
  <2>3. raw' \in [Obs -> SUBSET Places] /\ lost' \subseteq Obs
    BY <1>1 DEF ObservationStored, TypeOK, Places
  <2> QED
    BY <1>1, <2>2, <2>3 DEF ObservationStored, TypeOK, StoreTypeOK, taskVars
<1>2. ASSUME NEW o \in Obs, RawVanishes(o) PROVE TypeOK'
  BY <1>2 DEF RawVanishes, TypeOK, StoreTypeOK, dbVars, taskVars
<1>3. ASSUME NEW r \in RunIds, ContainerWrites(r) PROVE TypeOK'
  BY <1>3 DEF ContainerWrites, TypeOK, StoreTypeOK, dbVars, taskVars, Outputs
<1>4. ASSUME NEW r \in RunIds, ContainerExits(r) PROVE TypeOK'
  BY <1>4 DEF ContainerExits, TypeOK, StoreTypeOK, dbVars
<1> QED
  BY <1>1, <1>2, <1>3, <1>4 DEF Environment

LEMMA WorkersType == TypeOK /\ (\E r \in RunIds : WorkerMoves(r)) => TypeOK'
<1> SUFFICES ASSUME TypeOK, NEW r \in RunIds,
                    \/ WorkerClaims(r) \/ WorkerRaisesBeforeClaim(r)
                    \/ WorkerSucceeds(r) \/ WorkerFails(r) \/ WorkerDies(r)
             PROVE  TypeOK'
  BY DEF WorkerMoves
<1>0. StoreTypeOK
  BY DEF TypeOK
<1>1. CASE WorkerClaims(r)
  <2>1. StoreTypeOK'
    BY <1>0, <1>1, TransitionRunType DEF WorkerClaims
  <2> QED
    BY <1>1, <2>1 DEF WorkerClaims, TypeOK, Outputs
<1>2. ASSUME WorkerEnds(r), StoreTypeOK' PROVE TypeOK'
  BY <1>2 DEF WorkerEnds, TypeOK
<1>3. UNCHANGED dbVars => StoreTypeOK'
  BY <1>0 DEF StoreTypeOK, dbVars
<1>4. CASE WorkerRaisesBeforeClaim(r)
  BY <1>0, <1>2, <1>3, <1>4, TransitionRunType DEF WorkerRaisesBeforeClaim
<1>5. CASE WorkerSucceeds(r)
  BY <1>0, <1>2, <1>5, TransitionRunType DEF WorkerSucceeds
<1>6. CASE WorkerFails(r)
  BY <1>0, <1>2, <1>6, TransitionRunType DEF WorkerFails
<1>7. CASE WorkerDies(r)
  BY <1>2, <1>3, <1>7 DEF WorkerDies
<1> QED
  BY <1>1, <1>4, <1>5, <1>6, <1>7

LEMMA TicksType == TypeOK /\ Ticks => TypeOK'
<1> SUFFICES ASSUME TypeOK, Ticks PROVE TypeOK'
  OBVIOUS
<1> USE DEF Advance
<1>0. StoreTypeOK /\ Controller \in Procs
  BY ProcessingAssumption DEF TypeOK
<1>1. CASE TickSweep
  <2>1. \A r \in RunIds : [runs[r] EXCEPT !.state = "FAILED"] \in RunRows
    BY <1>0 DEF StoreTypeOK, RunRows, RunStates
  <2> QED
    BY <1>0, <1>1, <2>1 DEF TickSweep, TypeOK, StoreTypeOK, taskVars, Phases
<1>2. CASE TickMarkExhausted
  <2>1. StoreTypeOK'
    <3>1. CASE RunIds = {}
      BY <1>0, <1>2, <3>1 DEF TickMarkExhausted, MarkExhaustedFailedRuns, StoreTypeOK
    <3>2. CASE RunIds # {}
      BY <1>0, <1>2, <3>2, MarkTypes DEF TickMarkExhausted
    <3> QED
      BY <3>1, <3>2
  <2> QED
    BY <1>2, <2>1 DEF TickMarkExhausted, TypeOK, taskVars, Phases
<1>3. CASE TickListRetryable
  <2>1. RetryableFailedRuns(MaxProcessingAttempts) \subseteq RunIds
    BY DEF RetryableFailedRuns, RunsIn
  <2> QED
    BY <1>3, <2>1 DEF TickListRetryable, TypeOK, StoreTypeOK, dbVars, Phases
<1>4. ASSUME NEW r \in RunIds, TickCleanup(r) PROVE TypeOK'
  <2>1. Become(Controller, "requeue", r)
    BY <1>4 DEF TickCleanup
  <2> QED
    BY <1>0, <1>4, <2>1, BecomeType DEF TickCleanup, TypeOK, StoreTypeOK, dbVars, Outputs
<1>5. ASSUME NEW r \in RunIds, TickCleanupFails(r) PROVE TypeOK'
  <2>1. StoreTypeOK'
    BY <1>0, <1>5, MarkTypes DEF TickCleanupFails
  <2>2. products' \in [RunIds -> Outputs]
    BY <1>5 DEF TickCleanupFails, TypeOK, Outputs
  <2> QED
    BY <1>5, <2>1, <2>2 DEF TickCleanupFails, TypeOK
<1>6. CASE TickRequeue
  <2>1. target[Controller] \in RunIds
    BY <1>0, <1>6 DEF TickRequeue, TypeOK
  <2>2. StoreTypeOK'
    <3>1. CASE UNCHANGED dbVars
      BY <1>0, <3>1 DEF StoreTypeOK, dbVars
    <3>2. CASE TransitionRun(target[Controller], "FAILED", "QUEUED")
      BY <1>0, <2>1, <3>2, TransitionRunType
    <3> QED
      BY <1>6, <3>1, <3>2 DEF TickRequeue
  <2>3. Leave(Controller)
    BY <1>6 DEF TickRequeue
  <2> QED
    BY <1>0, <1>6, <2>2, <2>3, LeaveType DEF TickRequeue, TypeOK, taskVars
<1>7. CASE TickListWithoutRuns
  BY <1>7 DEF TickListWithoutRuns, StoredObservationsWithoutRuns, ObservationsIn,
              TypeOK, StoreTypeOK, dbVars, Phases
<1>8. ASSUME NEW o \in Obs, TickCreateRun(o) PROVE TypeOK'
  <2>1. StoreTypeOK'
    BY <1>0, <1>8, CreateRunType DEF TickCreateRun
  <2> QED
    BY <1>8, <2>1 DEF TickCreateRun, TypeOK
<1>9. CASE TickSpawn
  BY <1>9 DEF TickSpawn, TypeOK, StoreTypeOK, dbVars, Phases
<1> QED
  BY <1>1, <1>2, <1>3, <1>4, <1>5, <1>6, <1>7, <1>8, <1>9 DEF Ticks

LEMMA CrashType == TypeOK /\ ControllerCrash => TypeOK'
<1> SUFFICES ASSUME TypeOK, ControllerCrash PROVE TypeOK'
  OBVIOUS
<1>1. Leave(Controller) /\ Controller \in Procs
  BY ProcessingAssumption DEF ControllerCrash
<1> QED
  BY <1>1, LeaveType DEF ControllerCrash, TypeOK, StoreTypeOK, dbVars, Phases

LEMMA RecoveryType == TypeOK /\ Recovery => TypeOK'
<1> SUFFICES ASSUME TypeOK, Recovery PROVE TypeOK'
  OBVIOUS
<1> USE DEF Advance
<1>0. StoreTypeOK /\ Controller \in Procs
  BY ProcessingAssumption DEF TypeOK
<1>1. CASE ControllerStart
  BY <1>1 DEF ControllerStart, TypeOK, StoreTypeOK, dbVars, taskVars, Phases
<1>2. CASE KillManaged
  <2>1. PICK left \in SUBSET RunIds : GateOpens(left)
    BY <1>2 DEF KillManaged, TypeOK
  <2> QED
    BY <2>1 DEF GateOpens, RunsIn, TypeOK, StoreTypeOK, dbVars, Phases
<1>3. ASSUME NEW r \in RunIds, RecoverRun(r) PROVE TypeOK'
  <2>1. StoreTypeOK'
    BY <1>0, <1>3, TransitionRunType DEF RecoverRun
  <2> QED
    BY <1>3, <2>1 DEF RecoverRun, TypeOK, Outputs
<1>4. ASSUME NEW r \in RunIds, RecoverRunFails(r) PROVE TypeOK'
  <2>1. products' \in [RunIds -> Outputs]
    BY <1>4 DEF RecoverRunFails, TypeOK, Outputs
  <2> QED
    BY <1>4, <2>1 DEF RecoverRunFails, TypeOK, StoreTypeOK, dbVars
<1>5. CASE RecoverRunsDone
  BY <1>5 DEF RecoverRunsDone, TypeOK, StoreTypeOK, dbVars, taskVars, Phases
<1>6. CASE RecoverAccepted
  <2>1. \A o \in Obs : [observations[o] EXCEPT !.state = "DELETING"] \in ObservationRows
    BY <1>0 DEF StoreTypeOK, ObservationRows, ObservationStates
  <2>2. PICK resumed : ResumesDeletion(resumed)
    BY <1>6 DEF RecoverAccepted
  <2>3. observations' \in [Obs -> ObservationRows]
    BY <1>0, <2>1, <2>2 DEF ResumesDeletion, StoreTypeOK
  <2> QED
    BY <2>2, <2>3 DEF ResumesDeletion, TypeOK, StoreTypeOK, Phases
<1>7. ASSUME NEW o \in Obs, RecoverDeletion(o) PROVE TypeOK'
  <2>1. <<o, 1>> \in RunIds
    BY StoreAssumption DEF RunIds, Attempts
  <2>2. Become(Controller, "rename", <<o, 1>>)
    BY <1>7 DEF RecoverDeletion
  <2> QED
    BY <1>0, <1>7, <2>1, <2>2, BecomeType
       DEF RecoverDeletion, TypeOK, StoreTypeOK, dbVars, FinishSteps
<1>8. CASE RecoverDeletionsDone
  BY <1>8 DEF RecoverDeletionsDone, TypeOK, StoreTypeOK, dbVars, taskVars, Phases
<1>9. CASE RecoverStored
  <2>1. [state |-> "INCONSISTENT", size |-> 0, reserved |-> 0] \in ObservationRows
    BY DEF ObservationRows, ObservationStates
  <2> QED
    BY <1>9, <2>1 DEF RecoverStored, TypeOK, StoreTypeOK, taskVars, Phases
<1> QED
  BY <1>1, <1>2, <1>3, <1>4, <1>5, <1>6, <1>7, <1>8, <1>9 DEF Recovery

LEMMA CommandsType == TypeOK /\ Commands => TypeOK'
<1> SUFFICES ASSUME TypeOK, NEW p \in Procs,
                    \/ \E r \in RunIds : BeginAccept(p, r) \/ BeginReprocess(p, r)
                                            \/ BeginDiscard(p, r)
                    \/ CommitAccept(p)
                    \/ CommitReprocess(p)
                    \/ CommitDiscard(p)
                    \/ \E o \in Obs : BeginResolve(p, o)
                    \/ FinishDeletion(p)
                    \/ ForceDrop(p)
                    \/ CommandEnds(p)
             PROVE  TypeOK'
  BY DEF Commands
<1>0. StoreTypeOK
  BY DEF TypeOK
<1>1. step[p] # "idle" => target[p] \in RunIds /\ target[p][1] \in Obs
  BY DEF TypeOK, RunIds
<1>2. ASSUME NEW r \in RunIds, NEW from, NEW c \in CommandSteps, Validates(p, r, from, c)
      PROVE  TypeOK'
  <2>1. Become(p, c, r)
    BY <1>2 DEF Validates
  <2> QED
    BY <1>2, <2>1, BecomeType DEF Validates, TypeOK, StoreTypeOK, dbVars, taskVars
<1>3. CASE \E r \in RunIds : BeginAccept(p, r) \/ BeginReprocess(p, r) \/ BeginDiscard(p, r)
  BY <1>2, <1>3 DEF BeginAccept, BeginReprocess, BeginDiscard, CommandSteps
<1>4. CASE CommitAccept(p)
  <2>1. StoreTypeOK'
    BY <1>0, <1>1, <1>4, VerdictTypes DEF CommitAccept
  <2>2. Become(p, "rename", target[p]) /\ target[p] \in RunIds
    BY <1>1, <1>4 DEF CommitAccept, Continue
  <2> QED
    BY <1>4, <2>1, <2>2, BecomeType DEF CommitAccept, TypeOK, taskVars, FinishSteps
<1>5. CASE CommitReprocess(p)
  <2>1. StoreTypeOK'
    BY <1>0, <1>1, <1>5, ReprocessType DEF CommitReprocess
  <2> QED
    BY <1>5, <2>1, LeaveType DEF CommitReprocess, TypeOK, taskVars
<1>6. CASE CommitDiscard(p)
  <2>1. StoreTypeOK'
    BY <1>0, <1>1, <1>6, VerdictTypes DEF CommitDiscard
  <2>2. Become(p, "rename", target[p]) /\ target[p] \in RunIds
    BY <1>1, <1>6 DEF CommitDiscard, Continue
  <2> QED
    BY <1>6, <2>1, <2>2, BecomeType DEF CommitDiscard, TypeOK, taskVars, FinishSteps
<1>7. ASSUME NEW o \in Obs, BeginResolve(p, o) PROVE TypeOK'
  <2>1. Become(p, "dropLive", <<o, 1>>) /\ <<o, 1>> \in RunIds
    BY <1>7, StoreAssumption DEF BeginResolve, BeginDrop, RunIds, Attempts
  <2> QED
    BY <1>7, <2>1, BecomeType
       DEF BeginResolve, BeginDrop, TypeOK, StoreTypeOK, dbVars, taskVars, DropSteps
<1>8. ASSUME Leave(p), UNCHANGED <<lost, products, phase, taskVars>>,
             StoreTypeOK', raw' \in [Obs -> SUBSET Places]
      PROVE  TypeOK'
  BY <1>8, LeaveType DEF TypeOK, taskVars
<1>9. ASSUME NEW s \in FinishSteps \cup DropSteps, step[p] # "idle", Continue(p, s),
             UNCHANGED <<lost, products, phase, taskVars>>,
             UNCHANGED dbVars, raw' \in [Obs -> SUBSET Places]
      PROVE  TypeOK'
  <2>1. Become(p, s, target[p]) /\ target[p] \in RunIds
    BY <1>1, <1>9 DEF Continue
  <2> QED
    BY <1>0, <1>9, <2>1, BecomeType DEF TypeOK, StoreTypeOK, dbVars, taskVars
<1>10. CASE FinishDeletion(p)
  <2>1. CASE FinishRename(p)
    BY <1>1, <1>9, <1>10, <2>1
       DEF FinishRename, FinishDeletion, TypeOK, FinishSteps, Places
  <2>2. CASE FinishRemove(p)
    BY <1>1, <1>9, <1>10, <2>2
       DEF FinishRemove, FinishDeletion, TypeOK, FinishSteps, Places
  <2>3. CASE FinishMark(p)
    BY <1>0, <1>1, <1>8, <1>10, <2>3, TransitionObservationType
       DEF FinishMark, FinishDeletion, TypeOK
  <2> QED
    BY <1>10, <2>1, <2>2, <2>3 DEF FinishDeletion, FinishStep
<1>11. CASE ForceDrop(p)
  <2>1. CASE DropLive(p)
    BY <1>1, <1>9, <1>11, <2>1 DEF DropLive, ForceDrop, TypeOK, DropSteps, Places
  <2>2. CASE DropTrash(p)
    BY <1>1, <1>9, <1>11, <2>2 DEF DropTrash, ForceDrop, TypeOK, DropSteps, Places
  <2>3. CASE DropMark(p)
    BY <1>0, <1>1, <1>8, <1>11, <2>3, TransitionObservationType
       DEF DropMark, ForceDrop, TypeOK
  <2> QED
    BY <1>11, <2>1, <2>2, <2>3 DEF ForceDrop, DropStep
<1>12. CASE CommandEnds(p)
  BY <1>0, <1>8, <1>12 DEF CommandEnds, Abandon, TypeOK, StoreTypeOK, dbVars
<1> QED
  BY <1>3, <1>4, <1>5, <1>6, <1>7, <1>10, <1>11, <1>12

(* Every reachable state of Processing is well typed: in particular each    *)
(* row is in a state of its enumeration, and a process in the middle of a   *)
(* command or a deletion knows the row it works on.                         *)
THEOREM TypeCorrect == Spec => []TypeOK
<1>1. TypeOK /\ [Next]_vars => TypeOK'
  <2>1. CASE UNCHANGED vars
    BY <2>1 DEF vars, dbVars, taskVars, TypeOK, StoreTypeOK
  <2> QED
    BY <2>1, EnvironmentType, WorkersType, TicksType, RecoveryType, CrashType,
       CommandsType DEF Next
<1> QED
  BY <1>1, InitType, PTL DEF Spec

-----------------------------------------------------------------------------
(* The inductive invariant.  OneLiveRun is not inductive by itself: the     *)
(* tick creates first runs from a list it read several steps earlier, while *)
(* commands were running, so the rows on that list must still have no run.  *)

RepairIsFirst ==
    phase = "create" =>
        \A o \in todoObs : RunsOf(o) = {} /\ observations[o].state # "ABSENT"

NoRunsBeforeObservation ==
    \A o \in Obs : observations[o].state = "ABSENT" => RunsOf(o) = {}

IInv ==
    /\ TypeOK
    /\ OneLiveRun
    /\ NeverStranded
    /\ RepairIsFirst
    /\ NoRunsBeforeObservation

(* Most steps move no run into, out of or between the live runs, the        *)
(* accepted ones and the rows that do not exist, ...                        *)
RunsSteady ==
    \A r \in RunIds :
        /\ runs'[r].state = "ABSENT" <=> runs[r].state = "ABSENT"
        /\ runs'[r].state \in LiveStates <=> runs[r].state \in LiveStates
        /\ runs'[r].state = "ACCEPTED" <=> runs[r].state = "ACCEPTED"

(* ... make no observation STORED but a new one, ...                        *)
ObservationsSteady ==
    \A o \in Obs :
        /\ observations'[o].state = "ABSENT" => observations[o].state = "ABSENT"
        /\ observations'[o].state = "STORED" => observations[o].state \in {"STORED", "ABSENT"}

(* ... and put nothing on the list of the repair that has a run.            *)
RepairSteady ==
    phase' = "create" =>
        \A o \in todoObs' : RunsOf(o) = {} /\ observations[o].state # "ABSENT"

LEMMA SteadyStep ==
    ASSUME IInv, TypeOK', RunsSteady, ObservationsSteady, RepairSteady
    PROVE  IInv'
<1>1. \A o \in Obs : RunsOf(o)' = RunsOf(o)
  BY DEF RunsSteady, RunsOf
<1>2. \A o \in Obs : LiveRunsOf(o)' = LiveRunsOf(o)
  BY <1>1 DEF RunsSteady, RunsOf, LiveRunsOf
<1>3. \A o \in Obs : HasAcceptedRun(o)' <=> HasAcceptedRun(o)
  BY <1>1 DEF RunsSteady, RunsOf, HasAcceptedRun
<1>4. OneLiveRun'
  <2> SUFFICES ASSUME NEW o \in Obs, NEW r \in LiveRunsOf(o)', NEW s \in RunsOf(o)'
               PROVE  s = r \/ (s[2] < r[2] /\ runs'[s].state \notin LiveStates)
    BY DEF OneLiveRun
  <2>1. r \in LiveRunsOf(o) /\ s \in RunsOf(o)
    BY <1>1, <1>2
  <2>2. s \in RunIds /\ (runs'[s].state \in LiveStates <=> runs[s].state \in LiveStates)
    BY <2>1 DEF RunsOf, RunsSteady
  <2> QED
    BY <2>1, <2>2 DEF IInv, OneLiveRun
<1>5. NeverStranded'
  <2> SUFFICES ASSUME NEW o \in Obs, observations'[o].state = "STORED"
               PROVE  RunsOf(o)' = {} \/ LiveRunsOf(o)' # {} \/ HasAcceptedRun(o)'
    BY DEF NeverStranded, ObservationsIn
  <2>1. RunsOf(o) = {} \/ LiveRunsOf(o) # {} \/ HasAcceptedRun(o)
    BY DEF IInv, NeverStranded, ObservationsIn, NoRunsBeforeObservation, ObservationsSteady
  <2> QED
    BY <1>1, <1>2, <1>3, <2>1
<1>6. RepairIsFirst'
  <2>1. \A o \in todoObs' : o \in Obs
    BY DEF TypeOK
  <2> QED
    BY <1>1, <2>1 DEF RepairIsFirst, RepairSteady, ObservationsSteady
<1>7. NoRunsBeforeObservation'
  BY <1>1 DEF IInv, NoRunsBeforeObservation, ObservationsSteady
<1> QED
  BY <1>4, <1>5, <1>6, <1>7 DEF IInv

LEMMA TransitionSteady ==
    ASSUME TypeOK, NEW r \in RunIds, NEW from \in LiveStates, NEW to \in LiveStates,
           TransitionRun(r, from, to)
    PROVE  RunsSteady /\ ObservationsSteady
<1>1. to \in RunStates
  BY DEF LiveStates, RunStates
<1>2. Moved(runs[r], to).state = to
  BY <1>1, MovedType DEF TypeOK, StoreTypeOK
<1>3. /\ runs'[r].state = to
      /\ \A s \in RunIds : s # r => runs'[s] = runs[s]
  BY <1>2 DEF TransitionRun, TypeOK, StoreTypeOK
<1>4. runs[r].state = from
  BY DEF TransitionRun
<1>5. RunsSteady
  BY <1>3, <1>4 DEF RunsSteady, LiveStates
<1> QED
  BY <1>5 DEF TransitionRun, ObservationsSteady

LEMMA UnchangedSteady ==
    /\ UNCHANGED runs => RunsSteady
    /\ UNCHANGED observations => ObservationsSteady
    /\ IInv /\ UNCHANGED <<phase, todoObs>> => RepairSteady
  BY DEF RunsSteady, ObservationsSteady, RepairSteady, IInv, RepairIsFirst

-----------------------------------------------------------------------------
(* The steps that are not steady.                                           *)

(* The repair: the new run is the first of its observation.                 *)
LEMMA CreateRunStep ==
    ASSUME IInv, TypeOK', NEW o \in Obs, TickCreateRun(o)
    PROVE  IInv'
<1>1. /\ RunsOf(o) = {}
      /\ observations[o].state # "ABSENT"
      /\ phase = "create" /\ phase' = "create" /\ todoObs' = todoObs \ {o}
      /\ observations' = observations
  BY DEF TickCreateRun, Advance, CreateRun, IInv, RepairIsFirst
<1>2. PICK k \in Attempts : runs' = [runs EXCEPT ![<<o, k>>] = NewRun]
  BY DEF TickCreateRun, CreateRun
<1> DEFINE new == <<o, k>>
<1>3. /\ new \in RunIds /\ new[1] = o
      /\ runs'[new].state = "QUEUED"
      /\ \A s \in RunIds : s # new => runs'[s] = runs[s]
  BY <1>2 DEF RunIds, NewRun, IInv, TypeOK, StoreTypeOK
<1> HIDE DEF new
<1>4. RunsOf(o)' = {new} /\ LiveRunsOf(o)' = {new}
  BY <1>1, <1>3 DEF RunsOf, LiveRunsOf, LiveStates
<1>5. \A p \in Obs \ {o} : /\ RunsOf(p)' = RunsOf(p)
                           /\ LiveRunsOf(p)' = LiveRunsOf(p)
                           /\ HasAcceptedRun(p)' <=> HasAcceptedRun(p)
  BY <1>3 DEF RunsOf, LiveRunsOf, HasAcceptedRun
<1>6. OneLiveRun'
  <2> SUFFICES ASSUME NEW p \in Obs, NEW r \in LiveRunsOf(p)', NEW s \in RunsOf(p)'
               PROVE  s = r \/ (s[2] < r[2] /\ runs'[s].state \notin LiveStates)
    BY DEF OneLiveRun
  <2>1. CASE p = o
    BY <1>4, <2>1
  <2>2. CASE p # o
    <3>1. r \in LiveRunsOf(p) /\ s \in RunsOf(p)
      BY <1>5, <2>2
    <3>2. runs'[s] = runs[s]
      BY <1>3, <2>2, <3>1 DEF RunsOf
    <3> QED
      BY <3>1, <3>2 DEF IInv, OneLiveRun
  <2> QED
    BY <2>1, <2>2
<1>7. NeverStranded'
  <2> SUFFICES ASSUME NEW p \in Obs, observations'[p].state = "STORED"
               PROVE  RunsOf(p)' = {} \/ LiveRunsOf(p)' # {} \/ HasAcceptedRun(p)'
    BY DEF NeverStranded, ObservationsIn
  <2>1. CASE p = o
    BY <1>4, <2>1
  <2>2. CASE p # o
    BY <1>1, <1>5, <2>2 DEF IInv, NeverStranded, ObservationsIn
  <2> QED
    BY <2>1, <2>2
<1>8. RepairIsFirst'
  <2>1. \A p \in todoObs' : p \in Obs \ {o} /\ p \in todoObs
    BY <1>1 DEF TypeOK
  <2> QED
    BY <1>1, <1>5, <2>1 DEF IInv, RepairIsFirst
<1>9. NoRunsBeforeObservation'
  BY <1>1, <1>5 DEF IInv, NoRunsBeforeObservation
<1> QED
  BY <1>6, <1>7, <1>8, <1>9 DEF IInv

(* A verdict: the last live run of the observation goes, and the            *)
(* observation leaves STORED in the same transaction.                       *)
LEMMA VerdictStep ==
    ASSUME IInv, TypeOK', NEW r \in RunIds, UNCHANGED <<phase, todoObs>>,
           AcceptRunAndBeginDeletion(r) \/ DiscardFailedRunAndBeginDeletion(r)
    PROVE  IInv'
<1>1. PICK verdict \in {"ACCEPTED", "DISCARDED"} :
          /\ runs' = [runs EXCEPT ![r].state = verdict]
          /\ observations' = [observations EXCEPT ![r[1]].state = "DELETING"]
  BY DEF AcceptRunAndBeginDeletion, DiscardFailedRunAndBeginDeletion, BeginDeletion
<1>2. r[1] \in Obs /\ observations[r[1]].state = "STORED" /\ runs[r].state \in LiveStates
  BY DEF AcceptRunAndBeginDeletion, DiscardFailedRunAndBeginDeletion, VerdictAllowed,
         RunIds, LiveStates
<1>3. /\ runs'[r].state \in {"ACCEPTED", "DISCARDED"}
      /\ \A s \in RunIds : s # r => runs'[s] = runs[s]
  BY <1>1 DEF IInv, TypeOK, StoreTypeOK, RunRows
<1>4. /\ observations'[r[1]].state = "DELETING"
      /\ \A o \in Obs : o # r[1] => observations'[o] = observations[o]
  BY <1>1, <1>2 DEF IInv, TypeOK, StoreTypeOK, ObservationRows
<1>5. \A o \in Obs : RunsOf(o)' = RunsOf(o)
  BY <1>2, <1>3 DEF RunsOf, LiveStates
<1>6. \A o \in Obs : LiveRunsOf(o)' \subseteq LiveRunsOf(o)
  BY <1>3, <1>5 DEF LiveRunsOf, RunsOf, LiveStates
<1>7. \A o \in Obs \ {r[1]} : /\ LiveRunsOf(o)' = LiveRunsOf(o)
                              /\ HasAcceptedRun(o)' <=> HasAcceptedRun(o)
  BY <1>3, <1>5 DEF LiveRunsOf, HasAcceptedRun, RunsOf
<1>8. OneLiveRun'
  <2> SUFFICES ASSUME NEW o \in Obs, NEW u \in LiveRunsOf(o)', NEW s \in RunsOf(o)'
               PROVE  s = u \/ (s[2] < u[2] /\ runs'[s].state \notin LiveStates)
    BY DEF OneLiveRun
  <2>1. u \in LiveRunsOf(o) /\ s \in RunsOf(o) /\ s \in RunIds
    BY <1>5, <1>6 DEF RunsOf
  <2>2. runs'[s].state \in LiveStates => runs[s].state \in LiveStates
    BY <1>3, <2>1 DEF LiveStates
  <2> QED
    BY <2>1, <2>2 DEF IInv, OneLiveRun
<1>9. NeverStranded'
  BY <1>4, <1>5, <1>7 DEF IInv, NeverStranded, ObservationsIn
<1>10. RepairIsFirst'
  <2>1. \A o \in todoObs : o \in Obs
    BY DEF IInv, TypeOK
  <2> QED
    BY <1>2, <1>4, <1>5, <2>1 DEF IInv, RepairIsFirst
<1>11. NoRunsBeforeObservation'
  BY <1>4, <1>5 DEF IInv, NoRunsBeforeObservation
<1> QED
  BY <1>8, <1>9, <1>10, <1>11 DEF IInv

(* A reprocess: the live run goes and a newer one takes its place.          *)
LEMMA ReprocessStep ==
    ASSUME IInv, TypeOK', NEW r \in RunIds, UNCHANGED <<phase, todoObs>>,
           ReprocessRunAndCreate(r)
    PROVE  IInv'
<1> DEFINE o == r[1]
           new == Replacement(r)
<1>1. /\ o \in Obs /\ r[2] \in Nat
      /\ new \in RunIds /\ new[1] = o /\ new[2] = r[2] + 1 /\ new # r
  BY StoreAssumption DEF ReprocessRunAndCreate, Replacement, RunIds, Attempts
<1>2. /\ runs[r].state \in LiveStates
      /\ runs[new].state = "ABSENT"
      /\ runs' = [runs EXCEPT ![r].state = "SUPERSEDED", ![new] = NewRun]
      /\ observations' = observations
      /\ observations[o].state = "STORED"
  BY DEF ReprocessRunAndCreate, VerdictAllowed, LiveStates
<1> HIDE DEF new, o
<1>3. /\ runs'[r].state = "SUPERSEDED"
      /\ runs'[new].state = "QUEUED"
      /\ \A s \in RunIds : s \notin {r, new} => runs'[s] = runs[s]
  BY <1>1, <1>2 DEF IInv, TypeOK, StoreTypeOK, RunRows, NewRun
<1>4. r \in LiveRunsOf(o) /\ r[1] = o
  BY <1>2 DEF LiveRunsOf, RunsOf, LiveStates, o
<1>5. RunsOf(o)' = RunsOf(o) \cup {new}
  BY <1>1, <1>2, <1>3, <1>4 DEF RunsOf, LiveRunsOf, LiveStates
<1>6. \A p \in Obs \ {o} : /\ RunsOf(p)' = RunsOf(p)
                           /\ LiveRunsOf(p)' = LiveRunsOf(p)
                           /\ HasAcceptedRun(p)' <=> HasAcceptedRun(p)
  BY <1>1, <1>3, <1>4 DEF RunsOf, LiveRunsOf, HasAcceptedRun
<1>7. \A s \in RunsOf(o) : /\ s = r \/ (s[2] < r[2] /\ runs[s].state \notin LiveStates)
                           /\ s \in RunIds /\ s[2] \in Nat
  BY <1>1, <1>4 DEF IInv, OneLiveRun, RunsOf, RunIds, Attempts
<1>8. \A s \in RunsOf(o) : s[2] < new[2] /\ runs'[s].state \notin LiveStates
  <2> SUFFICES ASSUME NEW s \in RunsOf(o)
               PROVE  s[2] < new[2] /\ runs'[s].state \notin LiveStates
    OBVIOUS
  <2>1. CASE s = r
    BY <1>1, <1>3, <2>1 DEF LiveStates
  <2>2. CASE s # r
    <3>1. s # new
      BY <1>2 DEF RunsOf
    <3>2. runs'[s] = runs[s]
      BY <1>3, <1>7, <2>2, <3>1
    <3>3. s[2] < r[2]
      BY <1>7, <2>2
    <3> QED
      BY <1>1, <1>7, <2>2, <3>2, <3>3
  <2> QED
    BY <2>1, <2>2
<1>9. LiveRunsOf(o)' = {new}
  BY <1>3, <1>5, <1>8 DEF LiveRunsOf, LiveStates
<1>10. OneLiveRun'
  <2> SUFFICES ASSUME NEW p \in Obs, NEW u \in LiveRunsOf(p)', NEW s \in RunsOf(p)'
               PROVE  s = u \/ (s[2] < u[2] /\ runs'[s].state \notin LiveStates)
    BY DEF OneLiveRun
  <2>1. CASE p = o
    BY <1>5, <1>8, <1>9, <2>1
  <2>2. CASE p # o
    <3>1. u \in LiveRunsOf(p) /\ s \in RunsOf(p)
      BY <1>6, <2>2
    <3>2. runs'[s] = runs[s]
      BY <1>1, <1>3, <1>4, <2>2, <3>1 DEF RunsOf
    <3> QED
      BY <3>1, <3>2 DEF IInv, OneLiveRun
  <2> QED
    BY <2>1, <2>2
<1>11. NeverStranded'
  BY <1>2, <1>6, <1>9 DEF IInv, NeverStranded, ObservationsIn
<1>12. RepairIsFirst'
  <2>1. phase = "create" => o \notin todoObs
    BY <1>4 DEF IInv, RepairIsFirst, LiveRunsOf
  <2>2. \A p \in todoObs : p \in Obs
    BY DEF IInv, TypeOK
  <2> QED
    BY <1>2, <1>6, <2>1, <2>2 DEF IInv, RepairIsFirst
<1>13. NoRunsBeforeObservation'
  BY <1>2, <1>6 DEF IInv, NoRunsBeforeObservation
<1> QED
  BY <1>10, <1>11, <1>12, <1>13 DEF IInv

-----------------------------------------------------------------------------
(* Initialisation, the step, and the theorems.                              *)

LEMMA InitIInv == Init => IInv
<1> SUFFICES ASSUME Init PROVE IInv
  OBVIOUS
<1>1. \A r \in RunIds : runs[r].state # "ABSENT" =>
          r[1] \in LegacyObs /\ r[2] = 1 /\ runs[r].state = "ACCEPTED"
  BY DEF Init, NoRun
<1>2. \A o \in Obs : LiveRunsOf(o) = {}
  BY <1>1 DEF LiveRunsOf, RunsOf, LiveStates
<1>3. OneLiveRun
  BY <1>2 DEF OneLiveRun
<1>4. NeverStranded
  BY <1>1 DEF NeverStranded, ObservationsIn, HasAcceptedRun, RunsOf
<1>5. RepairIsFirst
  BY DEF Init, RepairIsFirst
<1>6. NoRunsBeforeObservation
  <2> SUFFICES ASSUME NEW o \in Obs, observations[o].state = "ABSENT" PROVE RunsOf(o) = {}
    BY DEF NoRunsBeforeObservation
  <2>1. o \notin LegacyObs
    BY DEF Init, StoredRow
  <2> QED
    BY <1>1, <2>1 DEF RunsOf
<1> QED
  BY <1>3, <1>4, <1>5, <1>6, InitType DEF IInv

LEMMA EnvironmentStep == IInv /\ TypeOK' /\ Environment => IInv'
<1> SUFFICES ASSUME IInv, TypeOK', Environment PROVE IInv'
  OBVIOUS
<1>1. ASSUME NEW o \in Obs, ObservationStored(o) PROVE IInv'
  <2>1. UNCHANGED <<runs, phase, todoObs>>
    BY <1>1 DEF ObservationStored, taskVars
  <2>2. ObservationsSteady
    BY <1>1 DEF ObservationStored, ObservationsSteady, StoredRow, EmptyRow,
                IInv, TypeOK, StoreTypeOK
  <2> QED
    BY <2>1, <2>2, UnchangedSteady, SteadyStep
<1>2. ASSUME UNCHANGED <<dbVars, phase, todoObs>> PROVE IInv'
  BY <1>2, UnchangedSteady, SteadyStep DEF dbVars
<1>3. ASSUME NEW o \in Obs, RawVanishes(o) PROVE IInv'
  BY <1>2, <1>3 DEF RawVanishes, taskVars
<1>4. ASSUME NEW r \in RunIds, ContainerWrites(r) \/ ContainerExits(r) PROVE IInv'
  BY <1>2, <1>4 DEF ContainerWrites, ContainerExits, taskVars
<1> QED
  BY <1>1, <1>3, <1>4 DEF Environment

LEMMA WorkersStep == IInv /\ TypeOK' /\ (\E r \in RunIds : WorkerMoves(r)) => IInv'
<1> SUFFICES ASSUME IInv, TypeOK', NEW r \in RunIds,
                    \/ WorkerClaims(r) \/ WorkerRaisesBeforeClaim(r)
                    \/ WorkerSucceeds(r) \/ WorkerFails(r) \/ WorkerDies(r)
             PROVE  IInv'
  BY DEF WorkerMoves
<1>1. UNCHANGED <<phase, todoObs>>
  BY DEF WorkerClaims, WorkerRaisesBeforeClaim, WorkerSucceeds, WorkerFails, WorkerDies,
         WorkerEnds
<1>2. \/ UNCHANGED dbVars
      \/ \E from, to \in LiveStates : TransitionRun(r, from, to)
  BY DEF WorkerClaims, WorkerRaisesBeforeClaim, WorkerSucceeds, WorkerFails, WorkerDies,
         LiveStates
<1>3. RunsSteady /\ ObservationsSteady
  BY <1>2, TransitionSteady, UnchangedSteady DEF dbVars, IInv
<1> QED
  BY <1>1, <1>3, UnchangedSteady, SteadyStep

LEMMA TicksStep == IInv /\ TypeOK' /\ Ticks => IInv'
<1> SUFFICES ASSUME IInv, TypeOK', Ticks PROVE IInv'
  OBVIOUS
<1> USE DEF Advance
<1>0. TypeOK
  BY DEF IInv
<1>1. ASSUME RunsSteady, UNCHANGED observations, RepairSteady PROVE IInv'
  BY <1>1, UnchangedSteady, SteadyStep
<1>2. ASSUME UNCHANGED dbVars, RepairSteady PROVE IInv'
  BY <1>1, <1>2, UnchangedSteady DEF dbVars
<1>3. CASE TickSweep
  <2>1. RunsSteady
    BY <1>0, <1>3 DEF TickSweep, Orphaned, RunsIn, RunsSteady, LiveStates,
                      TypeOK, StoreTypeOK, RunRows
  <2> QED
    BY <1>1, <1>3, <2>1 DEF TickSweep, RepairSteady
<1>4. CASE TickMarkExhausted
  <2>1. RunsSteady
    BY <1>0, <1>4 DEF TickMarkExhausted, MarkExhaustedFailedRuns, RunsSteady, LiveStates,
                      TypeOK, StoreTypeOK, RunRows
  <2> QED
    BY <1>1, <1>4, <2>1 DEF TickMarkExhausted, MarkExhaustedFailedRuns, RepairSteady
<1>5. CASE TickListRetryable
  BY <1>2, <1>5 DEF TickListRetryable, RepairSteady
<1>6. ASSUME NEW r \in RunIds, TickCleanup(r) PROVE IInv'
  BY <1>2, <1>6 DEF TickCleanup, RepairSteady
<1>7. ASSUME NEW r \in RunIds, TickCleanupFails(r) PROVE IInv'
  <2>1. RunsSteady
    BY <1>0, <1>7 DEF TickCleanupFails, MarkRunRetryExhausted, RunsSteady, LiveStates,
                      TypeOK, StoreTypeOK, RunRows
  <2> QED
    BY <1>1, <1>7, <2>1 DEF TickCleanupFails, MarkRunRetryExhausted, RepairSteady
<1>8. CASE TickRequeue
  <2>1. target[Controller] \in RunIds
    BY <1>0, <1>8, ProcessingAssumption DEF TickRequeue, TypeOK
  <2>2. UNCHANGED <<phase, todoObs>>
    BY <1>8 DEF TickRequeue, taskVars
  <2>3. RunsSteady /\ ObservationsSteady
    BY <1>0, <1>8, <2>1, TransitionSteady, UnchangedSteady
       DEF TickRequeue, LiveStates, dbVars
  <2> QED
    BY <2>2, <2>3, UnchangedSteady, SteadyStep
<1>9. CASE TickListWithoutRuns
  <2>1. \A o \in todoObs' : RunsOf(o) = {} /\ observations[o].state = "STORED"
    BY <1>9 DEF TickListWithoutRuns, StoredObservationsWithoutRuns, ObservationsIn
  <2> QED
    BY <1>2, <1>9, <2>1 DEF TickListWithoutRuns, RepairSteady
<1>10. ASSUME NEW o \in Obs, TickCreateRun(o) PROVE IInv'
  BY <1>10, CreateRunStep
<1>11. CASE TickSpawn
  BY <1>2, <1>11 DEF TickSpawn, RepairSteady
<1> QED
  BY <1>3, <1>4, <1>5, <1>6, <1>7, <1>8, <1>9, <1>10, <1>11 DEF Ticks

LEMMA RecoveryStep == IInv /\ TypeOK' /\ (Recovery \/ ControllerCrash) => IInv'
<1> SUFFICES ASSUME IInv, TypeOK', Recovery \/ ControllerCrash PROVE IInv'
  OBVIOUS
<1> USE DEF Advance
<1>0. TypeOK
  BY DEF IInv
<1>1. ASSUME UNCHANGED dbVars, phase' # "create" PROVE IInv'
  BY <1>1, UnchangedSteady, SteadyStep DEF dbVars, RepairSteady
<1>2. ASSUME UNCHANGED runs, ObservationsSteady, phase' # "create" PROVE IInv'
  BY <1>2, UnchangedSteady, SteadyStep DEF RepairSteady
<1>3. CASE ControllerStart \/ KillManaged \/ RecoverRunsDone \/ RecoverDeletionsDone
             \/ ControllerCrash
  BY <1>1, <1>3 DEF ControllerStart, KillManaged, GateOpens, RecoverRunsDone,
                    RecoverDeletionsDone, ControllerCrash
<1>4. ASSUME NEW r \in RunIds, RecoverRun(r) PROVE IInv'
  <2>1. RunsSteady /\ ObservationsSteady
    BY <1>0, <1>4, TransitionSteady DEF RecoverRun, LiveStates
  <2> QED
    BY <1>4, <2>1, SteadyStep DEF RecoverRun, RepairSteady
<1>5. ASSUME NEW r \in RunIds, RecoverRunFails(r) PROVE IInv'
  BY <1>1, <1>5 DEF RecoverRunFails
<1>6. CASE RecoverAccepted
  <2>1. PICK resumed \in SUBSET ObservationsIn({"STORED"}) : ResumesDeletion(resumed)
    BY <1>6 DEF RecoverAccepted
  <2>2. ObservationsSteady
    BY <1>0, <2>1 DEF ResumesDeletion, ObservationsIn, ObservationsSteady, TypeOK,
                      StoreTypeOK, ObservationRows
  <2> QED
    BY <1>2, <2>1, <2>2 DEF ResumesDeletion
<1>7. ASSUME NEW o \in Obs, RecoverDeletion(o) PROVE IInv'
  BY <1>1, <1>7 DEF RecoverDeletion
<1>8. CASE RecoverStored
  <2>1. ObservationsSteady
    BY <1>0, <1>8 DEF RecoverStored, ObservationsIn, ObservationsSteady, TypeOK, StoreTypeOK
  <2> QED
    BY <1>2, <1>8, <2>1 DEF RecoverStored
<1> QED
  BY <1>3, <1>4, <1>5, <1>6, <1>7, <1>8 DEF Recovery

LEMMA CommandsStep == IInv /\ TypeOK' /\ Commands => IInv'
<1> SUFFICES ASSUME IInv, TypeOK', NEW p \in Procs,
                    \/ \E r \in RunIds : BeginAccept(p, r) \/ BeginReprocess(p, r)
                                            \/ BeginDiscard(p, r)
                    \/ CommitAccept(p)
                    \/ CommitReprocess(p)
                    \/ CommitDiscard(p)
                    \/ \E o \in Obs : BeginResolve(p, o)
                    \/ FinishDeletion(p)
                    \/ ForceDrop(p)
                    \/ CommandEnds(p)
             PROVE  IInv'
  BY DEF Commands
<1>0. TypeOK
  BY DEF IInv
<1>1. step[p] # "idle" => target[p] \in RunIds /\ target[p][1] \in Obs
  BY <1>0 DEF TypeOK, RunIds
<1>2. UNCHANGED <<phase, todoObs>>
  BY DEF BeginAccept, BeginReprocess, BeginDiscard, Validates, CommitAccept,
         CommitReprocess, CommitDiscard, BeginResolve, FinishDeletion, ForceDrop,
         CommandEnds, taskVars
<1>3. ASSUME UNCHANGED dbVars PROVE IInv'
  BY <1>2, <1>3, UnchangedSteady, SteadyStep DEF dbVars
<1>4. ASSUME NEW from \in ObservationStates,
             TransitionObservation(target[p][1], from, "DELETED", 0, 0),
             target[p][1] \in Obs
      PROVE  IInv'
  <2>1. ObservationsSteady
    BY <1>0, <1>4 DEF TransitionObservation, ObservationsSteady, TypeOK, StoreTypeOK
  <2> QED
    BY <1>2, <1>4, <2>1, UnchangedSteady, SteadyStep DEF TransitionObservation
<1>5. CASE \E r \in RunIds : BeginAccept(p, r) \/ BeginReprocess(p, r) \/ BeginDiscard(p, r)
  BY <1>3, <1>5 DEF BeginAccept, BeginReprocess, BeginDiscard, Validates
<1>6. CASE CommitAccept(p) \/ CommitDiscard(p)
  BY <1>1, <1>2, <1>6, VerdictStep DEF CommitAccept, CommitDiscard
<1>7. CASE CommitReprocess(p)
  BY <1>1, <1>2, <1>7, ReprocessStep DEF CommitReprocess
<1>8. CASE \E o \in Obs : BeginResolve(p, o)
  BY <1>3, <1>8 DEF BeginResolve, BeginDrop
<1>9. CASE FinishDeletion(p)
  BY <1>1, <1>3, <1>4, <1>9
     DEF FinishDeletion, FinishStep, FinishRename, FinishRemove, FinishMark,
         ObservationStates
<1>10. CASE ForceDrop(p)
  BY <1>1, <1>3, <1>4, <1>10
     DEF ForceDrop, DropStep, DropLive, DropTrash, DropMark, ObservationStates
<1>11. CASE CommandEnds(p)
  BY <1>3, <1>11 DEF CommandEnds, Abandon
<1> QED
  BY <1>5, <1>6, <1>7, <1>8, <1>9, <1>10, <1>11

THEOREM InductiveInvariant == Spec => []IInv
<1>1. IInv /\ [Next]_vars => IInv'
  <2> SUFFICES ASSUME IInv, [Next]_vars PROVE IInv'
    OBVIOUS
  <2>1. TypeOK'
    <3>1. TypeOK
      BY DEF IInv
    <3>2. CASE UNCHANGED vars
      BY <3>1, <3>2 DEF vars, dbVars, taskVars, TypeOK, StoreTypeOK
    <3> QED
      BY <3>1, <3>2, EnvironmentType, WorkersType, TicksType, RecoveryType, CrashType,
         CommandsType DEF Next
  <2>2. CASE UNCHANGED vars
    BY <2>1, <2>2, UnchangedSteady, SteadyStep DEF vars, dbVars, taskVars
  <2> QED
    BY <2>1, <2>2, EnvironmentStep, WorkersStep, TicksStep, RecoveryStep, CommandsStep
       DEF Next
<1> QED
  BY <1>1, InitIInv, PTL DEF Spec

(* Whatever the retry loop, the repair of missing first runs, recovery and  *)
(* any number of racing commands do, an observation never has two runs that *)
(* can still move, and the live one is the newest: so the attempt number a  *)
(* reprocess takes is always free (store.py, reprocess_run_and_create).     *)
THEOREM OneLiveRunHolds == Spec => []OneLiveRun
<1>1. IInv => OneLiveRun
  BY DEF IInv
<1> QED
  BY <1>1, InductiveInvariant, PTL

(* No order of retries, verdicts, crashes and recovery leaves an            *)
(* observation STORED with nothing that could still happen to it.           *)
THEOREM NeverStrandedHolds == Spec => []NeverStranded
<1>1. IInv => NeverStranded
  BY DEF IInv
<1> QED
  BY <1>1, InductiveInvariant, PTL
=============================================================================
