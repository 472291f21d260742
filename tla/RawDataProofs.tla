---------------------------- MODULE RawDataProofs ----------------------------
(***************************************************************************)
(* Where the raw data of an observation is, in every state of Processing:  *)
(* it leaves the disk only by a verdict, it is charged while it is there,  *)
(* and DELETED is written only when it is gone -- for every number of      *)
(* processes that remove it at once.                                       *)
(***************************************************************************)
EXTENDS ProcessingProofs

Verdicts == {"ACCEPTED", "DISCARDED"}

(* What the row of o and the two copies of its MS say of each other.        *)
RawMatchesRow(o) ==
    /\ observations[o].state \in {"ABSENT", "STORED", "DELETING", "DELETED", "INCONSISTENT"}
    /\ raw[o] # {} => observations[o].state \in {"STORED", "DELETING"}
                      /\ observations[o].size > 0
    /\ observations[o].state = "STORED" => "trash" \notin raw[o]
    /\ observations[o].state = "DELETING" => HasVerdict(o)
    /\ observations[o].state # "ABSENT" => "live" \in raw[o] \/ o \in lost \/ HasVerdict(o)

(* How far a process has come: what is behind it stays removed, whatever    *)
(* the others do.                                                           *)
RemovalSteps == {"remove", "mark", "dropLive", "dropTrash", "dropMark"}

BehindIsGone(p) ==
    LET o == target[p][1] IN
    /\ step[p] \in RemovalSteps => observations[o].state \notin {"ABSENT", "STORED"}
    /\ step[p] \in RemovalSteps \ {"dropLive"} => "live" \notin raw[o]
    /\ step[p] \in {"mark", "dropMark"} => raw[o] = {}

DataInv ==
    /\ \A o \in Obs : RawMatchesRow(o)
    /\ \A p \in Procs : BehindIsGone(p)

-----------------------------------------------------------------------------
(* A verdict is final.                                                      *)

VerdictsStay ==
    \A r \in RunIds : runs[r].state \in Verdicts => runs'[r].state = runs[r].state

LEMMA TransitionKeepsVerdicts ==
    ASSUME TypeOK, NEW r \in RunIds, NEW from, NEW to, TransitionRun(r, from, to)
    PROVE  VerdictsStay
<1>1. runs[r].state \notin Verdicts
  BY DEF TransitionRun, RunTransitions, Verdicts
<1>2. \A s \in RunIds \ {r} : runs'[s] = runs[s]
  BY DEF TransitionRun, TypeOK, StoreTypeOK
<1> QED
  BY <1>1, <1>2 DEF VerdictsStay

LEMMA VerdictKept ==
    ASSUME VerdictsStay, NEW o \in Obs, HasVerdict(o)
    PROVE  HasVerdict(o)'
<1>1. PICK r \in RunsOf(o) : runs[r].state \in Verdicts
  BY DEF HasVerdict, Verdicts
<1>2. r \in RunIds /\ r[1] = o /\ runs'[r].state \in Verdicts
  BY <1>1 DEF RunsOf, VerdictsStay
<1> QED
  BY <1>2 DEF HasVerdict, RunsOf, Verdicts

-----------------------------------------------------------------------------
(* A step is described by what it does to each observation and to each      *)
(* process.                                                                 *)

(* Nothing that is gone comes back, but by a new observation.               *)
Forward(o) ==
    observations[o].state # "ABSENT" =>
        /\ observations[o].state # "STORED" =>
               observations'[o].state \notin {"ABSENT", "STORED"}
        /\ "live" \notin raw[o] => "live" \notin raw'[o]
        /\ raw[o] = {} => raw'[o] = {}

ProcessSteady(p) ==
    \/ step'[p] = step[p] /\ target'[p] = target[p]
    \/ step'[p] \notin RemovalSteps

LEMMA DataStep ==
    ASSUME TypeOK, DataInv, \A o \in Obs : RawMatchesRow(o)' /\ Forward(o),
           \A p \in Procs : ProcessSteady(p) \/ BehindIsGone(p)'
    PROVE  DataInv'
<1> SUFFICES ASSUME NEW p \in Procs, ProcessSteady(p) PROVE BehindIsGone(p)'
  BY DEF DataInv
<1>1. CASE step'[p] \notin RemovalSteps
  BY <1>1 DEF BehindIsGone, RemovalSteps
<1>2. CASE step'[p] \in RemovalSteps
  <2>1. step'[p] = step[p] /\ target'[p] = target[p]
    BY <1>2 DEF ProcessSteady
  <2>2. PICK o \in Obs : o = target[p][1]
    BY <1>2, <2>1 DEF TypeOK, RemovalSteps, RunIds
  <2>3. Forward(o) /\ BehindIsGone(p)
    BY DEF DataInv
  <2> QED
    BY <1>2, <2>1, <2>2, <2>3 DEF BehindIsGone, Forward, RemovalSteps
<1> QED
  BY <1>1, <1>2

LEMMA RowKept ==
    ASSUME DataInv, VerdictsStay, NEW o \in Obs, lost \subseteq lost',
           observations'[o] = observations[o], raw'[o] = raw[o]
    PROVE  RawMatchesRow(o)' /\ Forward(o)
  BY VerdictKept DEF DataInv, RawMatchesRow, Forward

LEMMA DataUnchanged ==
    ASSUME TypeOK, DataInv, VerdictsStay, UNCHANGED <<observations, raw, lost>>,
           \A p \in Procs : ProcessSteady(p)
    PROVE  DataInv'
  BY RowKept, DataStep

LEMMA OneProcess ==
    ASSUME TypeOK, NEW p \in Procs, NEW s, NEW r, Become(p, s, r)
    PROVE  /\ step'[p] = s /\ target'[p] = r
           /\ \A q \in Procs \ {p} : ProcessSteady(q)
           /\ s \notin RemovalSteps => \A q \in Procs : ProcessSteady(q)
  BY DEF TypeOK, Become, ProcessSteady

-----------------------------------------------------------------------------

LEMMA DataInit == Init => DataInv
<1> SUFFICES ASSUME Init PROVE DataInv
  OBVIOUS
<1>1. ASSUME NEW o \in Obs PROVE RawMatchesRow(o)
  <2>1. CASE o \in LegacyObs
    BY <2>1 DEF Init, StoredRow, RawMatchesRow
  <2>2. CASE o \notin LegacyObs
    BY <2>2 DEF Init, NoObservation, RawMatchesRow
  <2> QED
    BY <2>1, <2>2
<1>2. \A p \in Procs : BehindIsGone(p)
  BY DEF Init, BehindIsGone, RemovalSteps
<1> QED
  BY <1>1, <1>2 DEF DataInv

LEMMA EnvironmentData == TypeOK /\ DataInv /\ Environment => DataInv'
<1> SUFFICES ASSUME TypeOK, DataInv, Environment PROVE DataInv'
  OBVIOUS
<1>1. UNCHANGED <<runs, step, target>>
  BY DEF Environment, ObservationStored, RawVanishes, ContainerWrites, ContainerExits, dbVars
<1>2. VerdictsStay /\ \A p \in Procs : ProcessSteady(p)
  BY <1>1 DEF VerdictsStay, ProcessSteady
<1>3. ASSUME NEW o \in Obs, ObservationStored(o) PROVE DataInv'
  <2>1. \A u \in Obs \ {o} : observations'[u] = observations[u] /\ raw'[u] = raw[u]
    BY <1>3 DEF ObservationStored, TypeOK, StoreTypeOK
  <2>2. lost \subseteq lost' /\ observations[o].state = "ABSENT" /\ raw[o] = {}
    BY <1>3 DEF ObservationStored, DataInv, RawMatchesRow
  <2>3. \/ observations'[o] = StoredRow /\ raw'[o] = {"live"}
        \/ observations'[o] = EmptyRow /\ raw'[o] = {} /\ o \in lost'
    BY <1>3, <2>2 DEF ObservationStored, TypeOK, StoreTypeOK
  <2>4. RawMatchesRow(o)' /\ Forward(o)
    BY <2>2, <2>3 DEF RawMatchesRow, Forward, StoredRow, EmptyRow
  <2>5. \A u \in Obs : RawMatchesRow(u)' /\ Forward(u)
    BY <1>2, <2>1, <2>2, <2>4, RowKept
  <2> QED
    BY <1>2, <2>5, DataStep
<1>4. ASSUME NEW o \in Obs, RawVanishes(o) PROVE DataInv'
  <2>1. \A u \in Obs \ {o} : observations'[u] = observations[u] /\ raw'[u] = raw[u]
    BY <1>4 DEF RawVanishes, TypeOK, StoreTypeOK, dbVars
  <2>2. /\ lost' = lost \cup {o} /\ raw'[o] = {}
        /\ observations' = observations /\ observations[o].state = "STORED"
    BY <1>4 DEF RawVanishes, TypeOK, dbVars
  <2>3. RawMatchesRow(o)' /\ Forward(o)
    BY <2>2 DEF RawMatchesRow, Forward
  <2>4. \A u \in Obs : RawMatchesRow(u)' /\ Forward(u)
    BY <1>2, <2>1, <2>2, <2>3, RowKept
  <2> QED
    BY <1>2, <2>4, DataStep
<1>5. ASSUME NEW r \in RunIds, ContainerWrites(r) \/ ContainerExits(r) PROVE DataInv'
  BY <1>2, <1>5, DataUnchanged DEF ContainerWrites, ContainerExits, dbVars
<1> QED
  BY <1>3, <1>4, <1>5 DEF Environment

LEMMA WorkersData ==
    TypeOK /\ DataInv /\ (\E r \in RunIds : WorkerMoves(r)) => DataInv'
<1> SUFFICES ASSUME TypeOK, DataInv, NEW r \in RunIds, WorkerMoves(r) PROVE DataInv'
  OBVIOUS
<1>1. UNCHANGED <<observations, raw, lost, step, target>>
  BY DEF WorkerMoves, WorkerClaims, WorkerRaisesBeforeClaim, WorkerSucceeds, WorkerFails,
         WorkerDies, WorkerEnds, TransitionRun, dbVars
<1>2. UNCHANGED runs \/ \E from, to \in RunStates : TransitionRun(r, from, to)
  BY DEF WorkerMoves, WorkerClaims, WorkerRaisesBeforeClaim, WorkerSucceeds, WorkerFails,
         WorkerDies, dbVars, RunStates
<1>3. VerdictsStay
  BY <1>2, TransitionKeepsVerdicts DEF VerdictsStay
<1> QED
  BY <1>1, <1>3, DataUnchanged DEF ProcessSteady

LEMMA TicksData == TypeOK /\ DataInv /\ Ticks => DataInv'
<1> SUFFICES ASSUME TypeOK, DataInv, Ticks PROVE DataInv'
  OBVIOUS
<1>0. Controller \in Procs
  BY ProcessingAssumption
<1>1. UNCHANGED <<observations, raw, lost>>
  BY DEF Ticks, TickSweep, TickMarkExhausted, MarkExhaustedFailedRuns, TickListRetryable,
         TickCleanup, TickCleanupFails, MarkRunRetryExhausted, TickRequeue, TransitionRun,
         TickListWithoutRuns, TickCreateRun, CreateRun, TickSpawn, dbVars
<1>2. \/ UNCHANGED <<step, target>>
      \/ Leave(Controller)
      \/ \E r \in RunIds : Become(Controller, "requeue", r)
  BY DEF Ticks, TickSweep, TickMarkExhausted, TickListRetryable, TickCleanup,
         TickCleanupFails, TickRequeue, TickListWithoutRuns, TickCreateRun, TickSpawn
<1>3. \A p \in Procs : ProcessSteady(p)
  BY <1>0, <1>2, OneProcess DEF Leave, ProcessSteady, RemovalSteps
<1>4. VerdictsStay
  <2>1. CASE UNCHANGED runs
    BY <2>1 DEF VerdictsStay
  <2>2. CASE TickSweep
    BY <2>2 DEF TickSweep, Orphaned, RunsIn, VerdictsStay, Verdicts
  <2>3. CASE TickMarkExhausted
    BY <2>3 DEF TickMarkExhausted, MarkExhaustedFailedRuns, VerdictsStay, Verdicts
  <2>4. ASSUME NEW r \in RunIds, MarkRunRetryExhausted(r) PROVE VerdictsStay
    BY <2>4 DEF MarkRunRetryExhausted, VerdictsStay, Verdicts, TypeOK, StoreTypeOK
  <2>5. CASE TickRequeue
    <3>1. target[Controller] \in RunIds
      BY <1>0, <2>5 DEF TickRequeue, TypeOK
    <3> QED
      BY <2>1, <2>5, <3>1, TransitionKeepsVerdicts DEF TickRequeue, dbVars
  <2>6. ASSUME NEW o \in Obs, CreateRun(o) PROVE VerdictsStay
    <3>1. PICK k \in Attempts : /\ \A r \in RunsOf(o) : r[2] < k
                                /\ runs' = [runs EXCEPT ![<<o, k>>] = NewRun]
      BY <2>6 DEF CreateRun
    <3>2. <<o, k>> \notin RunsOf(o)
      BY <3>1, StoreAssumption DEF Attempts
    <3> QED
      BY <3>1, <3>2 DEF RunsOf, RunIds, VerdictsStay, Verdicts, TypeOK, StoreTypeOK
  <2> QED
    BY <2>1, <2>2, <2>3, <2>4, <2>5, <2>6
       DEF Ticks, TickListRetryable, TickCleanup, TickCleanupFails, TickListWithoutRuns,
           TickCreateRun, TickSpawn, dbVars
<1> QED
  BY <1>1, <1>3, <1>4, DataUnchanged

LEMMA RecoveryData ==
    TypeOK /\ DataInv /\ (Recovery \/ ControllerCrash) => DataInv'
<1> SUFFICES ASSUME TypeOK, DataInv, Recovery \/ ControllerCrash PROVE DataInv'
  OBVIOUS
<1>0. Controller \in Procs
  BY ProcessingAssumption
<1>1. UNCHANGED <<raw, lost>>
  BY DEF Recovery, ControllerStart, KillManaged, GateOpens, RecoverRun, RecoverRunFails,
         RecoverRunsDone, RecoverAccepted, ResumesDeletion, RecoverDeletion,
         RecoverDeletionsDone, RecoverStored, ControllerCrash
<1>2. \/ UNCHANGED <<step, target>>
      \/ Leave(Controller)
      \/ \E r : Become(Controller, "rename", r)
  BY DEF Recovery, ControllerStart, KillManaged, GateOpens, RecoverRun, RecoverRunFails,
         RecoverRunsDone, RecoverAccepted, ResumesDeletion, RecoverDeletion,
         RecoverDeletionsDone, RecoverStored, ControllerCrash
<1>3. \A p \in Procs : ProcessSteady(p)
  BY <1>0, <1>2, OneProcess DEF Leave, ProcessSteady, RemovalSteps
<1>4. VerdictsStay
  <2>1. UNCHANGED runs \/ \E r \in RunIds : TransitionRun(r, "RUNNING", "FAILED")
    BY DEF Recovery, ControllerStart, KillManaged, GateOpens, RecoverRun, RecoverRunFails,
           RecoverRunsDone, RecoverAccepted, ResumesDeletion, RecoverDeletion,
           RecoverDeletionsDone, RecoverStored, ControllerCrash, dbVars
  <2> QED
    BY <2>1, TransitionKeepsVerdicts DEF VerdictsStay
<1>5. ASSUME \A o \in Obs : RawMatchesRow(o)' /\ Forward(o) PROVE DataInv'
  BY <1>3, <1>5, DataStep
<1>6. CASE UNCHANGED observations
  BY <1>1, <1>3, <1>4, <1>6, DataUnchanged
<1>7. CASE RecoverAccepted
  <2>1. PICK resumed \in SUBSET {o \in ObservationsIn({"STORED"}) : HasAcceptedRun(o)} :
            ResumesDeletion(resumed)
    BY <1>7 DEF RecoverAccepted
  <2>2. ASSUME NEW o \in Obs PROVE RawMatchesRow(o)' /\ Forward(o)
    <3>1. CASE o \in resumed
      <4>1. /\ observations'[o].state = "DELETING"
            /\ observations'[o].size = observations[o].size
            /\ observations[o].state = "STORED"
        BY <2>1, <3>1 DEF ResumesDeletion, ObservationsIn, TypeOK, StoreTypeOK,
                          ObservationRows
      <4>2. HasVerdict(o)'
        BY <1>4, <2>1, <3>1, VerdictKept DEF HasAcceptedRun, HasVerdict
      <4> QED
        BY <1>1, <4>1, <4>2 DEF DataInv, RawMatchesRow, Forward
    <3>2. CASE o \notin resumed
      BY <1>1, <1>4, <2>1, <3>2, RowKept DEF ResumesDeletion
    <3> QED
      BY <3>1, <3>2
  <2> QED
    BY <1>5, <2>2
<1>8. CASE RecoverStored
  <2>1. PICK missing \in SUBSET {o \in ObservationsIn({"STORED"}) : "live" \notin raw[o]} :
            observations' = [o \in Obs |->
                IF o \in missing THEN [state |-> "INCONSISTENT", size |-> 0, reserved |-> 0]
                                ELSE observations[o]]
    BY <1>8 DEF RecoverStored
  <2>2. ASSUME NEW o \in Obs PROVE RawMatchesRow(o)' /\ Forward(o)
    <3>1. CASE o \in missing
      <4>1. observations'[o].state = "INCONSISTENT" /\ observations[o].state = "STORED"
        BY <2>1, <3>1 DEF ObservationsIn
      <4>2. raw[o] = {}
        BY <2>1, <3>1, <4>1 DEF DataInv, RawMatchesRow, TypeOK, Places
      <4>3. o \in lost \/ HasVerdict(o)
        BY <4>1, <4>2 DEF DataInv, RawMatchesRow
      <4> QED
        BY <1>1, <1>4, <4>1, <4>2, <4>3, VerdictKept DEF RawMatchesRow, Forward
    <3>2. CASE o \notin missing
      BY <1>1, <1>4, <2>1, <3>2, RowKept
    <3> QED
      BY <3>1, <3>2
  <2> QED
    BY <1>5, <2>2
<1> QED
  BY <1>6, <1>7, <1>8
     DEF Recovery, ControllerStart, KillManaged, GateOpens, RecoverRun, TransitionRun,
         RecoverRunFails, RecoverRunsDone, RecoverDeletion, RecoverDeletionsDone,
         ControllerCrash, dbVars

(* The verdicts and the commands' first steps remove nothing; the routines  *)
(* of Deletion are taken step by step.                                      *)
LEMMA VerdictData ==
    ASSUME TypeOK, DataInv, NEW r \in RunIds, UNCHANGED <<raw, lost>>,
           \A p \in Procs : ProcessSteady(p),
           AcceptRunAndBeginDeletion(r) \/ DiscardFailedRunAndBeginDeletion(r)
    PROVE  DataInv'
<1>1. PICK verdict \in Verdicts :
          /\ runs' = [runs EXCEPT ![r].state = verdict]
          /\ observations' = [observations EXCEPT ![r[1]].state = "DELETING"]
  BY DEF AcceptRunAndBeginDeletion, DiscardFailedRunAndBeginDeletion, BeginDeletion, Verdicts
<1>2. r[1] \in Obs /\ observations[r[1]].state = "STORED" /\ runs[r].state \notin Verdicts
  BY DEF AcceptRunAndBeginDeletion, DiscardFailedRunAndBeginDeletion, VerdictAllowed,
         RunIds, Verdicts
<1>3. runs'[r].state \in Verdicts /\ VerdictsStay
  BY <1>1, <1>2 DEF VerdictsStay, Verdicts, TypeOK, StoreTypeOK, RunRows
<1>4. HasVerdict(r[1])'
  BY <1>3 DEF HasVerdict, RunsOf, Verdicts
<1>5. /\ observations'[r[1]].state = "DELETING"
      /\ observations'[r[1]].size = observations[r[1]].size
      /\ \A o \in Obs : o # r[1] => observations'[o] = observations[o]
  BY <1>1, <1>2 DEF TypeOK, StoreTypeOK, ObservationRows
<1>6. RawMatchesRow(r[1])' /\ Forward(r[1])
  BY <1>2, <1>4, <1>5 DEF DataInv, RawMatchesRow, Forward
<1>7. \A o \in Obs : RawMatchesRow(o)' /\ Forward(o)
  BY <1>3, <1>5, <1>6, RowKept
<1> QED
  BY <1>7, DataStep

(* The end of a deletion: DELETING or INCONSISTENT becomes DELETED.         *)
LEMMA MarkData ==
    ASSUME TypeOK, DataInv, NEW o \in Obs, UNCHANGED <<raw, lost>>, raw[o] = {},
           \A p \in Procs : ProcessSteady(p),
           NEW from \in {"DELETING", "INCONSISTENT"},
           TransitionObservation(o, from, "DELETED", 0, 0)
    PROVE  DataInv'
<1>1. /\ observations[o].state = from /\ observations'[o].state = "DELETED"
      /\ \A u \in Obs : u # o => observations'[u] = observations[u]
      /\ UNCHANGED runs
  BY DEF TransitionObservation, TypeOK, StoreTypeOK
<1>2. VerdictsStay
  BY <1>1 DEF VerdictsStay
<1>3. RawMatchesRow(o)' /\ Forward(o)
  BY <1>1, <1>2, VerdictKept DEF DataInv, RawMatchesRow, Forward
<1>4. \A u \in Obs : RawMatchesRow(u)' /\ Forward(u)
  BY <1>1, <1>2, <1>3, RowKept
<1> QED
  BY <1>4, DataStep

(* A removal on disk: the live MS goes only where a verdict was given.      *)
LEMMA RemovalData ==
    ASSUME TypeOK, DataInv, NEW p \in Procs, NEW o \in Obs, o = target[p][1],
           UNCHANGED <<observations, runs, lost>>,
           NEW s \in RemovalSteps, Continue(p, s),
           \A u \in Obs \ {o} : raw'[u] = raw[u],
           observations[o].state \notin {"ABSENT", "STORED"},
           raw[o] = {} => raw'[o] = {},
           s # "dropLive" => "live" \notin raw'[o],
           "live" \in raw'[o] => "live" \in raw[o],
           s \in {"mark", "dropMark"} => raw'[o] = {}
    PROVE  DataInv'
<1>1. VerdictsStay
  BY DEF VerdictsStay
<1>2. RawMatchesRow(o)' /\ Forward(o)
  <2>1. "live" \in raw[o] => observations[o].state = "DELETING"
    BY DEF DataInv, RawMatchesRow
  <2>2. HasVerdict(o)' <=> HasVerdict(o)
    BY DEF HasVerdict, RunsOf
  <2> QED
    BY <2>1, <2>2 DEF DataInv, RawMatchesRow, Forward
<1>3. \A u \in Obs : RawMatchesRow(u)' /\ Forward(u)
  BY <1>1, <1>2, RowKept
<1>4. step'[p] = s /\ target'[p] = target[p] /\ \A q \in Procs \ {p} : ProcessSteady(q)
  BY OneProcess DEF Continue
<1>5. BehindIsGone(p)'
  BY <1>4 DEF BehindIsGone, RemovalSteps
<1> QED
  BY <1>3, <1>4, <1>5, DataStep

LEMMA CommandsData == TypeOK /\ DataInv /\ Commands => DataInv'
<1> SUFFICES ASSUME TypeOK, DataInv, NEW p \in Procs,
                    \/ \E r \in RunIds : BeginAccept(p, r) \/ BeginReprocess(p, r)
                                            \/ BeginDiscard(p, r)
                    \/ CommitAccept(p)
                    \/ CommitReprocess(p)
                    \/ CommitDiscard(p)
                    \/ \E o \in Obs : BeginResolve(p, o)
                    \/ FinishDeletion(p)
                    \/ ForceDrop(p)
                    \/ CommandEnds(p)
             PROVE  DataInv'
  BY DEF Commands
<1>1. step[p] # "idle" => target[p] \in RunIds /\ target[p][1] \in Obs
  BY DEF TypeOK, RunIds
<1>2. BehindIsGone(p) /\ \A o \in Obs : RawMatchesRow(o)
  BY DEF DataInv
<1>3. ASSUME Leave(p) PROVE \A q \in Procs : ProcessSteady(q)
  BY <1>3, OneProcess DEF Leave, RemovalSteps
<1>4. CASE \/ \E r \in RunIds : BeginAccept(p, r) \/ BeginReprocess(p, r)
                                   \/ BeginDiscard(p, r)
           \/ CommandEnds(p)
  <2>1. UNCHANGED <<observations, runs, raw, lost>>
    BY <1>4 DEF BeginAccept, BeginReprocess, BeginDiscard, Validates, CommandEnds,
                Abandon, dbVars
  <2>2. Leave(p) \/ \E c \in CommandSteps, r \in RunIds : Become(p, c, r)
    BY <1>4 DEF BeginAccept, BeginReprocess, BeginDiscard, Validates, CommandEnds,
                Abandon, CommandSteps
  <2>3. \A q \in Procs : ProcessSteady(q)
    BY <1>3, <2>2, OneProcess DEF CommandSteps, RemovalSteps
  <2> QED
    BY <2>1, <2>3, DataUnchanged DEF VerdictsStay
<1>5. CASE CommitAccept(p) \/ CommitDiscard(p)
  <2>1. \A q \in Procs : ProcessSteady(q)
    BY <1>5, OneProcess DEF CommitAccept, CommitDiscard, Continue, RemovalSteps
  <2> QED
    BY <1>1, <1>5, <2>1, VerdictData DEF CommitAccept, CommitDiscard
<1>6. CASE CommitReprocess(p)
  <2>1. PICK r \in RunIds : ReprocessRunAndCreate(r)
    BY <1>1, <1>6 DEF CommitReprocess
  <2>2. VerdictsStay
    BY <2>1 DEF ReprocessRunAndCreate, VerdictAllowed, VerdictsStay, Verdicts, TypeOK,
                StoreTypeOK
  <2> QED
    BY <1>3, <1>6, <2>1, <2>2, DataUnchanged DEF CommitReprocess, ReprocessRunAndCreate
<1>7. ASSUME NEW o \in Obs, BeginResolve(p, o) PROVE DataInv'
  <2>1. UNCHANGED <<observations, runs, raw, lost>> /\ Become(p, "dropLive", <<o, 1>>)
    BY <1>7 DEF BeginResolve, BeginDrop, dbVars
  <2>2. step'[p] = "dropLive" /\ target'[p] = <<o, 1>>
        /\ \A q \in Procs \ {p} : ProcessSteady(q)
    BY <2>1, OneProcess
  <2>3. observations[o].state \notin {"ABSENT", "STORED"}
    BY <1>7 DEF BeginResolve, BeginDrop
  <2>4. BehindIsGone(p)'
    BY <2>1, <2>2, <2>3 DEF BehindIsGone, RemovalSteps
  <2>5. \A u \in Obs : RawMatchesRow(u)' /\ Forward(u)
    BY <2>1, RowKept DEF VerdictsStay
  <2> QED
    BY <2>2, <2>4, <2>5, DataStep
<1>8. CASE FinishDeletion(p)
  <2>0. PICK o \in Obs : o = target[p][1] /\ UNCHANGED lost
    BY <1>1, <1>8 DEF FinishDeletion, FinishStep, FinishRename, FinishRemove, FinishMark
  <2>1. CASE FinishRename(p)
    <3>1. /\ raw'[o] = IF "live" \in raw[o] THEN {"trash"} ELSE raw[o]
          /\ \A u \in Obs \ {o} : raw'[u] = raw[u]
      BY <2>0, <2>1 DEF FinishRename, TypeOK
    <3>2. observations[o].state = "DELETING" /\ Continue(p, "remove")
          /\ UNCHANGED <<observations, runs>>
      BY <2>0, <2>1 DEF FinishRename, dbVars
    <3>3. "live" \notin raw'[o] /\ (raw[o] = {} => raw'[o] = {})
      BY <3>1
    <3> QED
      BY <2>0, <3>1, <3>2, <3>3, RemovalData DEF RemovalSteps
  <2>2. CASE FinishRemove(p)
    <3>1. raw'[o] = raw[o] \ {"trash"} /\ \A u \in Obs \ {o} : raw'[u] = raw[u]
      BY <2>0, <2>2 DEF FinishRemove, TypeOK
    <3>2. /\ observations[o].state \notin {"ABSENT", "STORED"}
          /\ "live" \notin raw[o]
          /\ Continue(p, "mark") /\ UNCHANGED <<observations, runs>>
      BY <1>2, <2>0, <2>2 DEF FinishRemove, BehindIsGone, RemovalSteps, dbVars
    <3>3. raw'[o] = {}
      BY <3>1, <3>2 DEF TypeOK, Places
    <3> QED
      BY <2>0, <3>1, <3>2, <3>3, RemovalData DEF RemovalSteps
  <2>3. CASE FinishMark(p)
    <3>1. raw[o] = {} /\ UNCHANGED raw /\ Leave(p)
          /\ TransitionObservation(o, "DELETING", "DELETED", 0, 0)
      BY <1>2, <2>0, <2>3 DEF FinishMark, BehindIsGone
    <3> QED
      BY <1>3, <2>0, <3>1, MarkData
  <2> QED
    BY <1>8, <2>1, <2>2, <2>3 DEF FinishDeletion, FinishStep
<1>9. CASE ForceDrop(p)
  <2>0. PICK o \in Obs : o = target[p][1] /\ UNCHANGED lost
    BY <1>1, <1>9 DEF ForceDrop, DropStep, DropLive, DropTrash, DropMark
  <2>1. CASE DropLive(p)
    <3>1. raw'[o] = raw[o] \ {"live"} /\ \A u \in Obs \ {o} : raw'[u] = raw[u]
      BY <2>0, <2>1 DEF DropLive, TypeOK
    <3>2. /\ observations[o].state \notin {"ABSENT", "STORED"}
          /\ Continue(p, "dropTrash") /\ UNCHANGED <<observations, runs>>
      BY <1>2, <2>0, <2>1 DEF DropLive, BehindIsGone, RemovalSteps, dbVars
    <3>3. "live" \notin raw'[o] /\ (raw[o] = {} => raw'[o] = {})
      BY <3>1
    <3> QED
      BY <2>0, <3>1, <3>2, <3>3, RemovalData DEF RemovalSteps
  <2>2. CASE DropTrash(p)
    <3>1. raw'[o] = raw[o] \ {"trash"} /\ \A u \in Obs \ {o} : raw'[u] = raw[u]
      BY <2>0, <2>2 DEF DropTrash, TypeOK
    <3>2. /\ observations[o].state \notin {"ABSENT", "STORED"}
          /\ "live" \notin raw[o]
          /\ Continue(p, "dropMark") /\ UNCHANGED <<observations, runs>>
      BY <1>2, <2>0, <2>2 DEF DropTrash, BehindIsGone, RemovalSteps, dbVars
    <3>3. raw'[o] = {}
      BY <3>1, <3>2 DEF TypeOK, Places
    <3> QED
      BY <2>0, <3>1, <3>2, <3>3, RemovalData DEF RemovalSteps
  <2>3. CASE DropMark(p)
    <3>1. raw[o] = {} /\ UNCHANGED raw /\ Leave(p)
          /\ \E from \in {"DELETING", "INCONSISTENT"} :
                 TransitionObservation(o, from, "DELETED", 0, 0)
      BY <1>2, <2>0, <2>3 DEF DropMark, BehindIsGone
    <3> QED
      BY <1>3, <2>0, <3>1, MarkData
  <2> QED
    BY <1>9, <2>1, <2>2, <2>3 DEF ForceDrop, DropStep
<1> QED
  BY <1>4, <1>5, <1>6, <1>7, <1>8, <1>9

-----------------------------------------------------------------------------

THEOREM DataInvariant == Spec => []DataInv
<1>1. TypeOK /\ DataInv /\ [Next]_vars => DataInv'
  <2> SUFFICES ASSUME TypeOK, DataInv, [Next]_vars PROVE DataInv'
    OBVIOUS
  <2>1. CASE UNCHANGED vars
    BY <2>1, DataUnchanged DEF vars, dbVars, VerdictsStay, ProcessSteady
  <2> QED
    BY <2>1, EnvironmentData, WorkersData, TicksData, RecoveryData, CommandsData DEF Next
<1> QED
  BY <1>1, DataInit, TypeCorrect, PTL DEF Spec

(* DELETED means that neither the live MS nor its trash copy is left, for   *)
(* any number of commands finishing the deletion next to recovery, each of  *)
(* which may die at any of its steps (storage.py,                           *)
(* finish_observation_deletion, force_drop_observation_data).               *)
THEOREM DeletedMeansGoneHolds == Spec => []DeletedMeansGone
<1>1. DataInv => DeletedMeansGone
  BY DEF DataInv, RawMatchesRow, DeletedMeansGone, ObservationsIn
<1> QED
  BY <1>1, DataInvariant, PTL

(* What is on disk is charged with its size (store.py, logical_storage).    *)
THEOREM ChargedWhilePresentHolds == Spec => []ChargedWhilePresent
<1>1. DataInv => ChargedWhilePresent
  BY DEF DataInv, RawMatchesRow, ChargedWhilePresent
<1> QED
  BY <1>1, DataInvariant, PTL

(* Neither recovery nor `resolve --drop` nor a race of verdicts removes an  *)
(* MS nobody accepted or discarded (reconcile.py; qa.py).                   *)
THEOREM RawGoneOnlyByVerdictHolds == Spec => []RawGoneOnlyByVerdict
<1>1. DataInv => RawGoneOnlyByVerdict
  BY DEF DataInv, RawMatchesRow, RawGoneOnlyByVerdict
<1> QED
  BY <1>1, DataInvariant, PTL
=============================================================================
