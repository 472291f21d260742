---------------------------- MODULE ReleaseProofs ----------------------------
(***************************************************************************)
(* Processing implements RawRelease, for every set of observations and any *)
(* number of commands: every step of the detailed specification is a step  *)
(* of the abstract one or changes nothing there.                           *)
(***************************************************************************)
EXTENDS RawDataProofs, ProcessingRefinesRelease

-----------------------------------------------------------------------------
(* Only the two verdict transactions give a verdict.                        *)

VerdictsSame ==
    \A r \in RunIds :
        runs[r].state \in Verdicts \/ runs'[r].state \in Verdicts =>
            runs'[r].state = runs[r].state

Verdict == \E p \in Procs : CommitAccept(p) \/ CommitDiscard(p)

LEMMA TransitionGivesNone ==
    ASSUME TypeOK, NEW r \in RunIds, NEW from, NEW to \in RunStates \ Verdicts,
           TransitionRun(r, from, to)
    PROVE  VerdictsSame
<1>1. runs[r].state \notin Verdicts
  BY DEF TransitionRun, RunTransitions, Verdicts
<1>2. Moved(runs[r], to).state = to
  BY MovedType DEF TypeOK, StoreTypeOK
<1>3. runs'[r].state = to /\ \A s \in RunIds \ {r} : runs'[s] = runs[s]
  BY <1>2 DEF TransitionRun, TypeOK, StoreTypeOK
<1> QED
  BY <1>1, <1>3 DEF VerdictsSame

LEMMA InsertGivesNone ==
    ASSUME TypeOK, NEW new \in RunIds, runs[new].state = "ABSENT",
           NEW r \in RunIds, runs[r].state \notin Verdicts,
           \/ runs' = [runs EXCEPT ![new] = NewRun]
           \/ runs' = [runs EXCEPT ![r].state = "SUPERSEDED", ![new] = NewRun]
    PROVE  VerdictsSame
  BY DEF VerdictsSame, Verdicts, NewRun, TypeOK, StoreTypeOK, RunRows

LEMMA TicksGiveNone == TypeOK /\ Ticks => VerdictsSame
<1> SUFFICES ASSUME TypeOK, Ticks PROVE VerdictsSame
  OBVIOUS
<1>0. \A r \in RunIds : runs[r] \in RunRows
  BY DEF TypeOK, StoreTypeOK
<1>1. CASE UNCHANGED runs
  BY <1>1 DEF VerdictsSame
<1>2. CASE TickSweep
  BY <1>0, <1>2 DEF TickSweep, Orphaned, RunsIn, VerdictsSame, Verdicts, RunRows
<1>3. CASE TickMarkExhausted
  BY <1>0, <1>3 DEF TickMarkExhausted, MarkExhaustedFailedRuns, VerdictsSame, RunRows
<1>4. ASSUME NEW r \in RunIds, MarkRunRetryExhausted(r) PROVE VerdictsSame
  BY <1>0, <1>4 DEF MarkRunRetryExhausted, VerdictsSame, RunRows, TypeOK, StoreTypeOK
<1>5. CASE TickRequeue
  <2>1. target[Controller] \in RunIds
    BY <1>5, ProcessingAssumption DEF TickRequeue, TypeOK
  <2>2. "QUEUED" \in RunStates \ Verdicts
    BY DEF RunStates, Verdicts
  <2> QED
    BY <1>1, <1>5, <2>1, <2>2, TransitionGivesNone DEF TickRequeue, dbVars
<1>6. ASSUME NEW o \in Obs, CreateRun(o) PROVE VerdictsSame
  <2>1. PICK k \in Attempts : /\ \A r \in RunsOf(o) : r[2] < k
                              /\ runs' = [runs EXCEPT ![<<o, k>>] = NewRun]
    BY <1>6 DEF CreateRun
  <2>2. <<o, k>> \in RunIds /\ <<o, k>> \notin RunsOf(o)
    BY <2>1, StoreAssumption DEF Attempts, RunIds
  <2>3. runs[<<o, k>>].state = "ABSENT"
    BY <2>2 DEF RunsOf
  <2> QED
    BY <2>1, <2>2, <2>3, InsertGivesNone DEF Verdicts
<1> QED
  BY <1>1, <1>2, <1>3, <1>4, <1>5, <1>6
     DEF Ticks, TickListRetryable, TickCleanup, TickCleanupFails, TickListWithoutRuns,
         TickCreateRun, TickSpawn, dbVars

LEMMA OthersGiveNone == TypeOK /\ [Next]_vars /\ ~ Verdict => VerdictsSame
<1> SUFFICES ASSUME TypeOK, [Next]_vars, ~ Verdict PROVE VerdictsSame
  OBVIOUS
<1>1. CASE UNCHANGED runs
  BY <1>1 DEF VerdictsSame
<1>2. ASSUME NEW r \in RunIds, NEW from, NEW to \in RunStates \ Verdicts,
             TransitionRun(r, from, to)
      PROVE  VerdictsSame
  BY <1>2, TransitionGivesNone
<1>3. ASSUME NEW r \in RunIds, WorkerMoves(r) PROVE VerdictsSame
  <2>1. {"RUNNING", "FAILED", "AWAITING_QA"} \subseteq RunStates \ Verdicts
    BY DEF RunStates, Verdicts
  <2> QED
    BY <1>1, <1>2, <1>3, <2>1
       DEF WorkerMoves, WorkerClaims, WorkerRaisesBeforeClaim, WorkerSucceeds, WorkerFails,
           WorkerDies, dbVars
<1>4. CASE Recovery \/ ControllerCrash
  <2>1. UNCHANGED runs \/ \E r \in RunIds : TransitionRun(r, "RUNNING", "FAILED")
    BY <1>4 DEF Recovery, ControllerStart, KillManaged, GateOpens, RecoverRun,
           RecoverRunFails, RecoverRunsDone, RecoverAccepted, ResumesDeletion,
           RecoverDeletion, RecoverDeletionsDone, RecoverStored, ControllerCrash, dbVars
  <2> QED
    BY <1>1, <1>2, <2>1 DEF RunStates, Verdicts
<1>5. CASE Commands
  <2>1. \/ UNCHANGED runs
        \/ \E p \in Procs : CommitReprocess(p)
    BY <1>5 DEF Commands, Verdict, BeginAccept, BeginReprocess, BeginDiscard, Validates,
           BeginResolve, BeginDrop, FinishDeletion, FinishStep, FinishRename, FinishRemove,
           FinishMark, ForceDrop, DropStep, DropLive, DropTrash, DropMark, CommandEnds,
           Abandon, TransitionObservation, dbVars
  <2>2. ASSUME NEW p \in Procs, CommitReprocess(p) PROVE VerdictsSame
    <3>1. PICK r \in RunIds : r = target[p] /\ ReprocessRunAndCreate(r)
      BY <2>2 DEF CommitReprocess, TypeOK
    <3>2. Replacement(r) \in RunIds /\ runs[Replacement(r)].state = "ABSENT"
      BY <3>1, StoreAssumption DEF ReprocessRunAndCreate, Replacement, RunIds, Attempts
    <3>3. runs[r].state \notin Verdicts
      BY <3>1 DEF ReprocessRunAndCreate, VerdictAllowed, Verdicts
    <3> QED
      BY <3>1, <3>2, <3>3, InsertGivesNone DEF ReprocessRunAndCreate
  <2> QED
    BY <1>1, <2>1, <2>2
<1>6. CASE Environment
  BY <1>1, <1>6 DEF Environment, ObservationStored, RawVanishes, ContainerWrites,
                    ContainerExits, dbVars
<1> QED
  BY <1>1, <1>3, <1>4, <1>5, <1>6, TicksGiveNone DEF Next, vars, dbVars

-----------------------------------------------------------------------------
(* The invariant of the mapping: nothing is decided about a STORED          *)
(* observation, and what was lost does not come back.                       *)

Undecided ==
    \A o \in Obs :
        /\ observations[o].state \in {"ABSENT", "STORED"} => ~ HasVerdict(o)
        /\ o \in lost => raw[o] = {} /\ observations[o].state # "ABSENT"

(* What RawRelease sees of o does not change.                               *)
DataQuiet(o) ==
    /\ DataOf(o)' = DataOf(o)
    /\ observations'[o].state = "DELETED" <=> observations[o].state = "DELETED"

VerdictQuiet(o) ==
    /\ VerdictOf(o)' = VerdictOf(o)
    /\ HasVerdict(o)' <=> HasVerdict(o)

Maps == Undecided' /\ (Release!Next \/ UNCHANGED Release!releaseVars)

LEMMA SameVerdict ==
    ASSUME NEW o \in Obs,
           \A r \in RunIds : r[1] = o =>
               (runs[r].state \in Verdicts \/ runs'[r].state \in Verdicts =>
                   runs'[r].state = runs[r].state)
    PROVE  VerdictQuiet(o)
<1>1. ASSUME NEW v \in Verdicts
      PROVE  (\E r \in RunsOf(o)' : runs'[r].state = v) <=> (\E r \in RunsOf(o) : runs[r].state = v)
  BY <1>1 DEF RunsOf, Verdicts
<1> QED
  BY <1>1 DEF VerdictQuiet, VerdictOf, HasVerdict, Verdicts

LEMMA UndecidedKept ==
    ASSUME NEW o \in Obs, Undecided, VerdictQuiet(o),
           observations'[o].state \in {"ABSENT", "STORED"} =>
               observations[o].state \in {"ABSENT", "STORED"},
           o \in lost' => raw'[o] = {} /\ observations'[o].state # "ABSENT"
    PROVE  /\ observations'[o].state \in {"ABSENT", "STORED"} => ~ HasVerdict(o)'
           /\ o \in lost' => raw'[o] = {} /\ observations'[o].state # "ABSENT"
  BY DEF Undecided, VerdictQuiet

LEMMA QuietMaps ==
    ASSUME \A o \in Obs : DataQuiet(o) /\ VerdictQuiet(o)
    PROVE  UNCHANGED Release!releaseVars
<1>1. ObservationsIn({"DELETED"})' = ObservationsIn({"DELETED"})
  BY DEF ObservationsIn, DataQuiet
<1>2. [o \in Obs |-> DataOf(o)]' = [o \in Obs |-> DataOf(o)]
  BY DEF DataQuiet
<1>3. [o \in Obs |-> VerdictOf(o)]' = [o \in Obs |-> VerdictOf(o)]
  BY DEF VerdictQuiet
<1> QED
  BY <1>1, <1>2, <1>3 DEF Release!releaseVars

(* A row may leave STORED without RawRelease seeing it.                     *)
RowMoves(o) ==
    \/ observations'[o].state = observations[o].state
    \/ /\ observations[o].state = "STORED"
       /\ observations'[o].state \in {"DELETING", "INCONSISTENT"}

LEMMA RowMovesQuiet ==
    ASSUME Undecided, UNCHANGED <<raw, lost>>, NEW o \in Obs, RowMoves(o)
    PROVE  /\ DataQuiet(o)
           /\ observations'[o].state \in {"ABSENT", "STORED"} =>
                  observations[o].state \in {"ABSENT", "STORED"}
           /\ o \in lost' => raw'[o] = {} /\ observations'[o].state # "ABSENT"
  BY DEF Undecided, RowMoves, DataQuiet, DataOf

LEMMA RowsMoveMaps ==
    ASSUME Undecided, UNCHANGED <<raw, lost>>, \A o \in Obs : RowMoves(o), VerdictsSame
    PROVE  Maps
<1>1. \A o \in Obs : VerdictQuiet(o)
  BY SameVerdict DEF VerdictsSame
<1>2. \A o \in Obs : DataQuiet(o)
  BY RowMovesQuiet
<1>3. Undecided'
  BY <1>1, RowMovesQuiet, UndecidedKept DEF Undecided
<1> QED
  BY <1>1, <1>2, <1>3, QuietMaps DEF Maps

-----------------------------------------------------------------------------
(* The steps RawRelease sees.                                               *)

LEMMA DecideMaps ==
    ASSUME TypeOK, Undecided, NEW p \in Procs, CommitAccept(p) \/ CommitDiscard(p)
    PROVE  Maps
<1>1. PICK r \in RunIds : /\ r = target[p]
                          /\ \/ AcceptRunAndBeginDeletion(r)
                             \/ DiscardFailedRunAndBeginDeletion(r)
  BY DEF CommitAccept, CommitDiscard, TypeOK
<1>2. PICK o \in Obs : o = r[1]
  BY DEF RunIds
<1>3. PICK verdict \in Verdicts :
          /\ runs' = [runs EXCEPT ![r].state = verdict]
          /\ observations' = [observations EXCEPT ![o].state = "DELETING"]
  BY <1>1, <1>2 DEF AcceptRunAndBeginDeletion, DiscardFailedRunAndBeginDeletion,
                    BeginDeletion, Verdicts
<1>4. UNCHANGED <<raw, lost>> /\ observations[o].state = "STORED"
  BY <1>1, <1>2 DEF CommitAccept, CommitDiscard, AcceptRunAndBeginDeletion,
                    DiscardFailedRunAndBeginDeletion, VerdictAllowed
<1>5. /\ runs'[r].state = verdict
      /\ \A s \in RunIds \ {r} : runs'[s] = runs[s]
  BY <1>3 DEF TypeOK, StoreTypeOK, RunRows
<1>6. \A u \in Obs : RowMoves(u)
  BY <1>3, <1>4 DEF RowMoves, TypeOK, StoreTypeOK, ObservationRows
<1>7. \A u \in Obs \ {o} : VerdictQuiet(u)
  BY <1>2, <1>5, SameVerdict
<1>8. ~ HasVerdict(o) /\ VerdictOf(o) = "none"
  BY <1>4 DEF Undecided, HasVerdict, VerdictOf
<1>9. PICK v \in {"accept", "discard"} : VerdictOf(o)' = v
  <2>1. r \in RunsOf(o)'
    BY <1>2, <1>5 DEF RunsOf, Verdicts
  <2> QED
    BY <1>5, <2>1 DEF VerdictOf, Verdicts
<1>10. \A u \in Obs : DataQuiet(u)
  BY <1>4, <1>6, RowMovesQuiet
<1>11. Undecided'
  <2>1. observations'[o].state = "DELETING"
    BY <1>3 DEF TypeOK, StoreTypeOK, ObservationRows
  <2>2. ASSUME NEW u \in Obs \ {o}
        PROVE  /\ observations'[u].state \in {"ABSENT", "STORED"} => ~ HasVerdict(u)'
               /\ u \in lost' => raw'[u] = {} /\ observations'[u].state # "ABSENT"
    BY <1>4, <1>6, <1>7, RowMovesQuiet, UndecidedKept
  <2>3. o \in lost' => raw'[o] = {}
    BY <1>4 DEF Undecided
  <2> QED
    BY <2>1, <2>2, <2>3 DEF Undecided
<1>12. Release!Decide(o, v)
  <2>1. DataOf(o) # "absent" /\ o \notin ObservationsIn({"DELETED"})
    BY <1>4 DEF DataOf, ObservationsIn
  <2>2. [u \in Obs |-> VerdictOf(u)]' = [[u \in Obs |-> VerdictOf(u)] EXCEPT ![o] = v]
    BY <1>7, <1>9 DEF VerdictQuiet
  <2>3. [u \in Obs |-> DataOf(u)]' = [u \in Obs |-> DataOf(u)]
    BY <1>10 DEF DataQuiet
  <2>4. ObservationsIn({"DELETED"})' = ObservationsIn({"DELETED"})
    BY <1>10 DEF ObservationsIn, DataQuiet
  <2> QED
    BY <1>8, <2>1, <2>2, <2>3, <2>4 DEF Release!Decide
<1> QED
  BY <1>11, <1>12 DEF Maps, Release!Next

(* A step on the data of one observation, no verdict being given.           *)
LEMMA DataMaps ==
    ASSUME Undecided, UNCHANGED runs, NEW o \in Obs,
           \A u \in Obs \ {o} : /\ observations'[u] = observations[u]
                                /\ raw'[u] = raw[u]
                                /\ u \in lost' <=> u \in lost,
           observations'[o].state \in {"ABSENT", "STORED"} =>
               observations[o].state \in {"ABSENT", "STORED"},
           o \in lost' => raw'[o] = {} /\ observations'[o].state # "ABSENT",
           observations'[o].state = "DELETED" <=> observations[o].state = "DELETED",
           \/ DataOf(o)' = DataOf(o)
           \/ /\ DataOf(o) = "absent"
              /\ DataOf(o)' = "present" \/ (DataOf(o)' = "lost" /\ o \in Losable)
           \/ /\ DataOf(o) = "present" /\ DataOf(o)' = "gone"
              /\ HasVerdict(o)
           \/ /\ DataOf(o) = "present" /\ DataOf(o)' = "lost"
              /\ o \in Losable /\ ~ HasVerdict(o)
    PROVE  Maps
<1>1. \A u \in Obs : VerdictQuiet(u)
  BY SameVerdict
<1>2. \A u \in Obs \ {o} : DataQuiet(u)
  BY DEF DataQuiet, DataOf
<1>3. Undecided'
  <2> SUFFICES ASSUME NEW u \in Obs
               PROVE  /\ observations'[u].state \in {"ABSENT", "STORED"} => ~ HasVerdict(u)'
                      /\ u \in lost' => raw'[u] = {} /\ observations'[u].state # "ABSENT"
    BY DEF Undecided
  <2>1. CASE u = o
    BY <1>1, <2>1, UndecidedKept
  <2>2. CASE u # o
    BY <1>1, <2>2, UndecidedKept DEF Undecided
  <2> QED
    BY <2>1, <2>2
<1>4. ObservationsIn({"DELETED"})' = ObservationsIn({"DELETED"})
  BY <1>2 DEF ObservationsIn, DataQuiet
<1>5. [u \in Obs |-> VerdictOf(u)]' = [u \in Obs |-> VerdictOf(u)]
  BY <1>1 DEF VerdictQuiet
<1>6. [u \in Obs |-> DataOf(u)]' = [[u \in Obs |-> DataOf(u)] EXCEPT ![o] = DataOf(o)']
  BY <1>2 DEF DataQuiet
<1>7. VerdictOf(o) # "none" <=> HasVerdict(o)
  BY DEF VerdictOf, HasVerdict
<1>8. CASE DataOf(o)' = DataOf(o)
  <2>1. DataQuiet(o)
    BY <1>8 DEF DataQuiet
  <2> QED
    BY <1>1, <1>2, <1>3, <2>1, QuietMaps DEF Maps
<1>9. CASE /\ DataOf(o) = "absent"
           /\ DataOf(o)' = "present" \/ (DataOf(o)' = "lost" /\ o \in Losable)
  BY <1>3, <1>4, <1>5, <1>6, <1>9 DEF Maps, Release!Next, Release!Keep
<1>10. CASE DataOf(o) = "present" /\ DataOf(o)' = "gone" /\ HasVerdict(o)
  BY <1>3, <1>4, <1>5, <1>6, <1>7, <1>10 DEF Maps, Release!Next, Release!Release
<1>11. CASE /\ DataOf(o) = "present" /\ DataOf(o)' = "lost"
            /\ o \in Losable /\ ~ HasVerdict(o)
  BY <1>3, <1>4, <1>5, <1>6, <1>7, <1>11 DEF Maps, Release!Next, Release!Perish
<1> QED
  BY <1>8, <1>9, <1>10, <1>11

(* The end of a deletion.                                                   *)
LEMMA ReportMaps ==
    ASSUME TypeOK, Undecided, NEW o \in Obs, UNCHANGED <<raw, lost>>, raw[o] = {},
           NEW from \in {"DELETING", "INCONSISTENT"},
           TransitionObservation(o, from, "DELETED", 0, 0)
    PROVE  Maps
<1>1. /\ observations[o].state = from /\ observations'[o].state = "DELETED"
      /\ \A u \in Obs \ {o} : observations'[u] = observations[u]
      /\ UNCHANGED runs
  BY DEF TransitionObservation, TypeOK, StoreTypeOK
<1>2. \A u \in Obs : VerdictQuiet(u)
  BY <1>1, SameVerdict
<1>3. DataOf(o) \in {"gone", "lost"} /\ \A u \in Obs : DataOf(u)' = DataOf(u)
  BY <1>1 DEF DataOf
<1>4. Undecided'
  BY <1>1, <1>2, UndecidedKept DEF Undecided
<1>5. ObservationsIn({"DELETED"})' = ObservationsIn({"DELETED"}) \cup {o}
      /\ o \notin ObservationsIn({"DELETED"})
  BY <1>1 DEF ObservationsIn
<1>6. /\ [u \in Obs |-> VerdictOf(u)]' = [u \in Obs |-> VerdictOf(u)]
      /\ [u \in Obs |-> DataOf(u)]' = [u \in Obs |-> DataOf(u)]
  BY <1>2, <1>3 DEF VerdictQuiet
<1>7. Release!Report(o)
  BY <1>3, <1>5, <1>6 DEF Release!Report
<1> QED
  BY <1>4, <1>7 DEF Maps, Release!Next

-----------------------------------------------------------------------------
(* Every step maps.                                                         *)

LEMMA EnvironmentMaps == TypeOK /\ DataInv /\ Undecided /\ Environment => Maps
<1> SUFFICES ASSUME TypeOK, DataInv, Undecided, Environment PROVE Maps
  OBVIOUS
<1>1. ASSUME NEW o \in Obs, ObservationStored(o) PROVE Maps
  <2>1. UNCHANGED runs
    BY <1>1 DEF ObservationStored
  <2>2. /\ observations[o].state = "ABSENT" /\ raw[o] = {}
        /\ o \notin lost
    BY <1>1 DEF ObservationStored, DataInv, RawMatchesRow, Undecided
  <2>3. \A u \in Obs \ {o} : /\ observations'[u] = observations[u]
                             /\ raw'[u] = raw[u]
                             /\ u \in lost' <=> u \in lost
    BY <1>1 DEF ObservationStored, TypeOK, StoreTypeOK
  <2>4. /\ observations'[o].state = "STORED"
        /\ \/ raw'[o] = {"live"} /\ o \notin lost'
           \/ raw'[o] = {} /\ o \in lost' /\ o \in Losable
    BY <1>1, <2>2 DEF ObservationStored, StoredRow, EmptyRow, TypeOK, StoreTypeOK
  <2>5. /\ DataOf(o) = "absent"
        /\ DataOf(o)' = "present" \/ (DataOf(o)' = "lost" /\ o \in Losable)
    BY <2>2, <2>4 DEF DataOf
  <2> QED
    BY <2>1, <2>2, <2>3, <2>4, <2>5, DataMaps
<1>2. ASSUME NEW o \in Obs, RawVanishes(o) PROVE Maps
  <2>1. UNCHANGED <<runs, observations>> /\ observations[o].state = "STORED"
        /\ o \in Losable /\ raw[o] # {}
    BY <1>2 DEF RawVanishes, dbVars
  <2>2. \A u \in Obs \ {o} : raw'[u] = raw[u] /\ (u \in lost' <=> u \in lost)
    BY <1>2 DEF RawVanishes, TypeOK
  <2>3. raw'[o] = {} /\ o \in lost'
    BY <1>2 DEF RawVanishes, TypeOK
  <2>4. DataOf(o) = "present" /\ DataOf(o)' = "lost" /\ ~ HasVerdict(o)
    BY <2>1, <2>3 DEF DataOf, Undecided
  <2> QED
    BY <2>1, <2>2, <2>3, <2>4, DataMaps
<1>3. ASSUME NEW r \in RunIds, ContainerWrites(r) \/ ContainerExits(r) PROVE Maps
  BY <1>3, RowsMoveMaps DEF ContainerWrites, ContainerExits, dbVars, RowMoves, VerdictsSame
<1> QED
  BY <1>1, <1>2, <1>3 DEF Environment

LEMMA ControllerMaps ==
    ASSUME TypeOK, Undecided, VerdictsSame,
           (\E r \in RunIds : WorkerMoves(r)) \/ Ticks \/ Recovery \/ ControllerCrash
    PROVE  Maps
<1>1. UNCHANGED <<raw, lost>>
  BY DEF WorkerMoves, WorkerClaims, WorkerRaisesBeforeClaim, WorkerSucceeds, WorkerFails,
         WorkerDies, WorkerEnds, Ticks, TickSweep, TickMarkExhausted, TickListRetryable,
         TickCleanup, TickCleanupFails, TickRequeue, TickListWithoutRuns, TickCreateRun,
         TickSpawn, Recovery, ControllerStart, KillManaged, GateOpens, RecoverRun,
         RecoverRunFails, RecoverRunsDone, RecoverAccepted, ResumesDeletion,
         RecoverDeletion, RecoverDeletionsDone, RecoverStored, ControllerCrash
<1>2. CASE UNCHANGED observations
  BY <1>1, <1>2, RowsMoveMaps DEF RowMoves
<1>3. CASE RecoverAccepted
  <2>1. PICK resumed \in SUBSET ObservationsIn({"STORED"}) : ResumesDeletion(resumed)
    BY <1>3 DEF RecoverAccepted
  <2>2. \A o \in Obs : RowMoves(o)
    BY <2>1 DEF ResumesDeletion, ObservationsIn, RowMoves, TypeOK, StoreTypeOK,
                ObservationRows
  <2> QED
    BY <1>1, <2>2, RowsMoveMaps
<1>4. CASE RecoverStored
  <2>1. \A o \in Obs : RowMoves(o)
    BY <1>4 DEF RecoverStored, ObservationsIn, RowMoves
  <2> QED
    BY <1>1, <2>1, RowsMoveMaps
<1>5. CASE \/ \E r \in RunIds : WorkerMoves(r)
           \/ Ticks
  BY <1>2, <1>5
     DEF WorkerMoves, WorkerClaims, WorkerRaisesBeforeClaim, WorkerSucceeds, WorkerFails,
         WorkerDies, TransitionRun, Ticks, TickSweep, TickMarkExhausted,
         MarkExhaustedFailedRuns, TickListRetryable, TickCleanup, TickCleanupFails,
         MarkRunRetryExhausted, TickRequeue, TickListWithoutRuns, TickCreateRun, CreateRun,
         TickSpawn, dbVars
<1> QED
  BY <1>2, <1>3, <1>4, <1>5
     DEF Recovery, ControllerStart, KillManaged, GateOpens, RecoverRun, TransitionRun,
         RecoverRunFails, RecoverRunsDone, RecoverDeletion, RecoverDeletionsDone,
         ControllerCrash, dbVars

LEMMA DeletionMaps ==
    ASSUME TypeOK, DataInv, Undecided, NEW p \in Procs,
           FinishDeletion(p) \/ ForceDrop(p)
    PROVE  Maps
<1>1. PICK o \in Obs : o = target[p][1] /\ UNCHANGED lost
  BY DEF FinishDeletion, FinishStep, FinishRename, FinishRemove, FinishMark, ForceDrop,
         DropStep, DropLive, DropTrash, DropMark, TypeOK, RunIds
<1>2. BehindIsGone(p) /\ RawMatchesRow(o)
  BY DEF DataInv
<1>3. ASSUME UNCHANGED <<observations, runs>>,
             observations[o].state \notin {"ABSENT", "STORED"},
             \A u \in Obs \ {o} : raw'[u] = raw[u],
             raw[o] = {} => raw'[o] = {}
      PROVE  Maps
  <2>1. raw[o] # {} => HasVerdict(o) /\ o \notin lost
    BY <1>2, <1>3 DEF RawMatchesRow, Undecided
  <2>2. \/ DataOf(o)' = DataOf(o)
        \/ DataOf(o) = "present" /\ DataOf(o)' = "gone" /\ HasVerdict(o)
    BY <1>1, <1>3, <2>1 DEF DataOf
  <2>3. o \in lost' => raw'[o] = {} /\ observations'[o].state # "ABSENT"
    BY <1>1, <1>3, <2>1
  <2> QED
    BY <1>1, <1>3, <2>2, <2>3, DataMaps
<1>4. CASE FinishRename(p)
  <2>1. \A u \in Obs \ {o} : raw'[u] = raw[u]
    BY <1>1, <1>4 DEF FinishRename, TypeOK
  <2>2. raw[o] = {} => raw'[o] = {}
    BY <1>1, <1>4 DEF FinishRename, TypeOK
  <2>3. observations[o].state = "DELETING" /\ UNCHANGED <<observations, runs>>
    BY <1>1, <1>4 DEF FinishRename, dbVars
  <2> QED
    BY <1>3, <2>1, <2>2, <2>3
<1>5. CASE FinishRemove(p) \/ DropLive(p) \/ DropTrash(p)
  <2>1. \A u \in Obs \ {o} : raw'[u] = raw[u]
    BY <1>1, <1>5 DEF FinishRemove, DropLive, DropTrash, TypeOK
  <2>2. raw'[o] \subseteq raw[o]
    BY <1>1, <1>5 DEF FinishRemove, DropLive, DropTrash, TypeOK
  <2>3. observations[o].state \notin {"ABSENT", "STORED"} /\ UNCHANGED <<observations, runs>>
    BY <1>1, <1>2, <1>5
       DEF FinishRemove, DropLive, DropTrash, BehindIsGone, RemovalSteps, dbVars
  <2> QED
    BY <1>3, <2>1, <2>2, <2>3
<1>6. CASE FinishMark(p) \/ DropMark(p)
  <2>1. raw[o] = {} /\ UNCHANGED raw
        /\ \E from \in {"DELETING", "INCONSISTENT"} :
               TransitionObservation(o, from, "DELETED", 0, 0)
    BY <1>1, <1>2, <1>6 DEF FinishMark, DropMark, BehindIsGone
  <2> QED
    BY <1>1, <2>1, ReportMaps
<1> QED
  BY <1>4, <1>5, <1>6 DEF FinishDeletion, FinishStep, ForceDrop, DropStep

LEMMA CommandsMap ==
    ASSUME TypeOK, DataInv, Undecided, Commands, ~ Verdict => VerdictsSame
    PROVE  Maps
<1>1. CASE Verdict
  BY <1>1, DecideMaps DEF Verdict
<1>2. ASSUME NEW p \in Procs, FinishDeletion(p) \/ ForceDrop(p) PROVE Maps
  BY <1>2, DeletionMaps
<1>3. ASSUME NEW p \in Procs, ~ Verdict,
             \/ \E r \in RunIds : BeginAccept(p, r) \/ BeginReprocess(p, r)
                                     \/ BeginDiscard(p, r)
             \/ CommitReprocess(p)
             \/ \E o \in Obs : BeginResolve(p, o)
             \/ CommandEnds(p)
      PROVE  Maps
  <2>1. UNCHANGED <<observations, raw, lost>>
    BY <1>3 DEF BeginAccept, BeginReprocess, BeginDiscard, Validates, CommitReprocess,
           ReprocessRunAndCreate, BeginResolve, BeginDrop, CommandEnds, Abandon, dbVars
  <2> QED
    BY <1>3, <2>1, RowsMoveMaps DEF RowMoves
<1> QED
  BY <1>1, <1>2, <1>3 DEF Commands, Verdict

LEMMA NextMaps == TypeOK /\ DataInv /\ Undecided /\ [Next]_vars => Maps
<1> SUFFICES ASSUME TypeOK, DataInv, Undecided, [Next]_vars PROVE Maps
  OBVIOUS
<1>1. ~ Verdict => VerdictsSame
  BY OthersGiveNone
<1>2. CASE Environment
  BY <1>2, EnvironmentMaps
<1>3. CASE Commands
  BY <1>1, <1>3, CommandsMap
<1>4. CASE UNCHANGED vars
  BY <1>4, RowsMoveMaps DEF vars, dbVars, RowMoves, VerdictsSame
<1>5. CASE (\E r \in RunIds : WorkerMoves(r)) \/ Ticks \/ Recovery \/ ControllerCrash
  <2>1. CASE Verdict
    BY <2>1, DecideMaps DEF Verdict
  <2>2. CASE ~ Verdict
    BY <1>1, <1>5, <2>2, ControllerMaps
  <2> QED
    BY <2>1, <2>2
<1> QED
  BY <1>2, <1>3, <1>4, <1>5 DEF Next

LEMMA InitMaps == LegacyObs = {} /\ Init => Undecided /\ Release!Init
<1> SUFFICES ASSUME LegacyObs = {}, Init PROVE Undecided /\ Release!Init
  OBVIOUS
<1>1. /\ \A o \in Obs : observations[o].state = "ABSENT" /\ raw[o] = {}
      /\ lost = {}
  BY DEF Init, NoObservation
<1>2. \A o \in Obs : RunsOf(o) = {}
  BY DEF Init, NoRun, RunsOf
<1>3. Undecided
  BY <1>1, <1>2 DEF Undecided, HasVerdict
<1>4. [o \in Obs |-> DataOf(o)] = [o \in Obs |-> "absent"]
  BY <1>1 DEF DataOf
<1>5. [o \in Obs |-> VerdictOf(o)] = [o \in Obs |-> "none"]
  BY <1>2 DEF VerdictOf
<1>6. ObservationsIn({"DELETED"}) = {}
  BY <1>1 DEF ObservationsIn
<1> QED
  BY <1>3, <1>4, <1>5, <1>6 DEF Release!Init

(* On a database of its own, every behaviour of the controller, the         *)
(* operator's commands and the crashes between their steps is one of        *)
(* RawRelease: the raw data is kept until a verdict, a verdict is given     *)
(* once, and DELETED is reported of data that is gone (README.md, ADR-001). *)
(* A database an older version left has ACCEPTED runs from the start, and   *)
(* so begins where RawRelease does not.                                     *)
THEOREM ImplementsRawReleaseHolds == LegacyObs = {} => (Spec => ImplementsRawRelease)
<1> SUFFICES ASSUME LegacyObs = {} PROVE Spec => ImplementsRawRelease
  OBVIOUS
<1>1. Init => Undecided /\ Release!Init
  BY InitMaps
<1>2. /\ TypeOK /\ DataInv /\ Undecided /\ [Next]_vars
      => Undecided' /\ [Release!Next]_Release!releaseVars
  BY NextMaps DEF Maps
<1> QED
  BY <1>1, <1>2, TypeCorrect, DataInvariant, PTL DEF Spec, ImplementsRawRelease, Release!Spec
=============================================================================
