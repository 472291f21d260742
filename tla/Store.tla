------------------------------- MODULE Store -------------------------------
(***************************************************************************)
(* The controller's SQLite database (src/sdpctl/store.py): the tables      *)
(* observations and processing_runs, with one operator per transaction and *)
(* one per query.  Every transaction runs under BEGIN IMMEDIATE, so it is  *)
(* one step, whichever process issues it: the controller or a command of   *)
(* the operator's command line.                                            *)
(*                                                                         *)
(* A run is named by its unique key <<observation, attempt>>, which also   *)
(* names its product directory.  A row that was never inserted has the     *)
(* state "ABSENT".  The events table is kept only where the code reads it  *)
(* back: the number of QUEUED -> RUNNING events of a run is its execs.     *)
(* Timestamps, notes, exit codes, error texts and paths are left out.      *)
(***************************************************************************)
EXTENDS Naturals, FiniteSets

CONSTANTS
    Obs,        \* the identities observations can have
    MaxRuns     \* bound of the model: attempts (runs) of one observation

ASSUME StoreAssumption == MaxRuns \in Nat \ {0}

VARIABLES
    observations,   \* the rows of table observations
    runs            \* the rows of table processing_runs

dbVars == <<observations, runs>>

-----------------------------------------------------------------------------
(* Rows and the two transition tables of models.py. *)

ObservationStates ==
    {"PLANNED", "OBSERVING", "STORED", "DELETING", "DELETED",
     "OBSERVE_FAILED", "INCONSISTENT"}

RunStates ==
    {"QUEUED", "RUNNING", "AWAITING_QA", "ACCEPTED", "SUPERSEDED",
     "FAILED", "DISCARDED"}

ActiveRunStates == {"QUEUED", "RUNNING", "AWAITING_QA"}

Attempts == 1 .. MaxRuns

RunIds == Obs \X Attempts

ObservationRows ==
    [state : ObservationStates \cup {"ABSENT"}, size : Nat, reserved : Nat]

RunRows ==
    [state : RunStates \cup {"ABSENT"}, execs : Nat, exhausted : BOOLEAN]

NoObservation == [state |-> "ABSENT", size |-> 0, reserved |-> 0]
NoRun         == [state |-> "ABSENT", execs |-> 0, exhausted |-> FALSE]
NewRun        == [state |-> "QUEUED", execs |-> 0, exhausted |-> FALSE]

ObsTransitions ==
    {<<"PLANNED", "OBSERVING">>,   <<"PLANNED", "OBSERVE_FAILED">>,
     <<"OBSERVING", "STORED">>,    <<"OBSERVING", "OBSERVE_FAILED">>,
     <<"STORED", "DELETING">>,     <<"STORED", "INCONSISTENT">>,
     <<"DELETING", "DELETED">>,    <<"DELETING", "INCONSISTENT">>,
     <<"INCONSISTENT", "DELETED">>}

RunTransitions ==
    {<<"QUEUED", "RUNNING">>,       <<"QUEUED", "FAILED">>,
     <<"RUNNING", "AWAITING_QA">>,  <<"RUNNING", "FAILED">>,
     <<"AWAITING_QA", "ACCEPTED">>, <<"AWAITING_QA", "SUPERSEDED">>,
     <<"FAILED", "QUEUED">>,        <<"FAILED", "SUPERSEDED">>,
     <<"FAILED", "DISCARDED">>}

StoreTypeOK ==
    /\ observations \in [Obs -> ObservationRows]
    /\ runs \in [RunIds -> RunRows]

-----------------------------------------------------------------------------
(* Queries. *)

ObservationsIn(states) == {o \in Obs : observations[o].state \in states}

RunsIn(states) == {r \in RunIds : runs[r].state \in states}

RunsOf(o) == {r \in RunIds : r[1] = o /\ runs[r].state # "ABSENT"}

HasActiveRuns(o) == \E r \in RunsOf(o) : runs[r].state \in ActiveRunStates

HasOtherActiveRuns(r) ==
    \E s \in RunsOf(r[1]) : s # r /\ runs[s].state \in ActiveRunStates

HasAcceptedRun(o) == \E r \in RunsOf(o) : runs[r].state = "ACCEPTED"

(* Mutants: repairs every observation without an active run; takes one that *)
(* is still observed for stored.                                            *)
WithoutRuns_ActiveOnly ==
    {o \in ObservationsIn({"STORED"}) : ~ HasActiveRuns(o)}

WithoutRuns_Unfinished ==
    {o \in ObservationsIn({"OBSERVING", "STORED"}) : RunsOf(o) = {}}

StoredObservationsWithoutRuns ==
    {o \in ObservationsIn({"STORED"}) : RunsOf(o) = {}}

(* Mutant: does not read the exhaustion marker.                             *)
RetryableFailedRuns_Unmarked(maxAttempts) ==
    {r \in RunsIn({"FAILED"}) :
        /\ observations[r[1]].state = "STORED"
        /\ ~ HasOtherActiveRuns(r)
        /\ runs[r].execs < maxAttempts}

RetryableFailedRuns(maxAttempts) ==
    {r \in RunsIn({"FAILED"}) :
        /\ ~ runs[r].exhausted
        /\ observations[r[1]].state = "STORED"
        /\ ~ HasOtherActiveRuns(r)
        /\ runs[r].execs < maxAttempts}

HumanActionableRuns ==
    RunsIn({"AWAITING_QA"}) \cup {r \in RunsIn({"FAILED"}) : runs[r].exhausted}

-----------------------------------------------------------------------------
(* Transactions on observations. *)

InsertObservation(o, reserved) ==
    /\ observations[o].state = "ABSENT"
    /\ observations' = [observations EXCEPT ![o] =
           [state |-> "PLANNED", size |-> 0, reserved |-> reserved]]
    /\ UNCHANGED runs

(* The guarded UPDATE ... WHERE state=expected: disabled where the code     *)
(* raises TransitionError.  A caller that leaves size or reserved alone     *)
(* passes the row's own value.                                              *)
TransitionObservation(o, expected, new, size, reserved) ==
    /\ <<expected, new>> \in ObsTransitions
    /\ observations[o].state = expected
    /\ observations' = [observations EXCEPT ![o] =
           [state |-> new, size |-> size, reserved |-> reserved]]
    /\ UNCHANGED runs

-----------------------------------------------------------------------------
(* Transactions on runs. *)

(* The INSERT takes the attempt after the largest one the observation has. *)
CreateRun(o) ==
    \E k \in Attempts :
        /\ \A r \in RunsOf(o) : r[2] < k
        /\ k = 1 \/ <<o, k - 1>> \in RunsOf(o)
        /\ runs' = [runs EXCEPT ![<<o, k>>] = NewRun]
        /\ UNCHANGED observations

(* The row after its state changed; QUEUED -> RUNNING is counted.           *)
Moved(row, new) ==
    [row EXCEPT !.state = new, !.execs = IF new = "RUNNING" THEN @ + 1 ELSE @]

TransitionRun(r, expected, new) ==
    /\ <<expected, new>> \in RunTransitions
    /\ runs[r].state = expected
    /\ runs' = [runs EXCEPT ![r] = Moved(@, new)]
    /\ UNCHANGED observations

(* Mutant: one execution too late.                                          *)
MarkExhausted_OffByOne(maxAttempts) ==
    /\ runs' = [r \in RunIds |->
           IF runs[r].state = "FAILED" /\ runs[r].execs > maxAttempts
             THEN [runs[r] EXCEPT !.exhausted = TRUE]
             ELSE runs[r]]
    /\ UNCHANGED observations

MarkExhaustedFailedRuns(maxAttempts) ==
    /\ runs' = [r \in RunIds |->
           IF runs[r].state = "FAILED" /\ runs[r].execs >= maxAttempts
             THEN [runs[r] EXCEPT !.exhausted = TRUE]
             ELSE runs[r]]
    /\ UNCHANGED observations

MarkRunRetryExhausted(r) ==
    /\ runs' = IF runs[r].state = "FAILED"
                 THEN [runs EXCEPT ![r].exhausted = TRUE]
                 ELSE runs
    /\ UNCHANGED observations

-----------------------------------------------------------------------------
(* The three verdicts: each changes a run and what follows from the verdict *)
(* in one transaction, under the same three conditions.                     *)

VerdictAllowed(r, from) ==
    /\ runs[r].state \in from
    /\ observations[r[1]].state = "STORED"
    /\ ~ HasOtherActiveRuns(r)

(* Mutant: gives the bytes back before they are removed.                    *)
BeginDeletion_Refunds(o) ==
    observations' = [observations EXCEPT ![o].state = "DELETING", ![o].size = 0]

BeginDeletion(o) ==
    observations' = [observations EXCEPT ![o].state = "DELETING"]

(* Mutant: the same for an accepted run only.                               *)
Accept_Refunds(r) ==
    /\ VerdictAllowed(r, {"AWAITING_QA"})
    /\ runs' = [runs EXCEPT ![r].state = "ACCEPTED"]
    /\ BeginDeletion_Refunds(r[1])

AcceptRunAndBeginDeletion(r) ==
    /\ VerdictAllowed(r, {"AWAITING_QA"})
    /\ runs' = [runs EXCEPT ![r].state = "ACCEPTED"]
    /\ BeginDeletion(r[1])

(* Mutant: trusts what the command validated before the transaction.        *)
Discard_Unchecked(r) ==
    /\ observations[r[1]].state = "STORED"
    /\ runs' = [runs EXCEPT ![r].state = "DISCARDED"]
    /\ BeginDeletion(r[1])

DiscardFailedRunAndBeginDeletion(r) ==
    /\ VerdictAllowed(r, {"FAILED"})
    /\ runs' = [runs EXCEPT ![r].state = "DISCARDED"]
    /\ BeginDeletion(r[1])

(* UNIQUE(observation_id, attempt) makes the INSERT of an attempt that      *)
(* exists raise, which rolls the whole transaction back.                    *)
Replacement(r) == <<r[1], r[2] + 1>>

(* Mutants: the replacement is not created in the same transaction; the     *)
(* state the command read is not checked again.                             *)
Reprocess_SupersedeOnly(r) ==
    /\ VerdictAllowed(r, {"AWAITING_QA", "FAILED"})
    /\ runs' = [runs EXCEPT ![r].state = "SUPERSEDED"]
    /\ UNCHANGED observations

Reprocess_Unchecked(r) ==
    /\ observations[r[1]].state = "STORED"
    /\ r[2] < MaxRuns
    /\ runs' = [runs EXCEPT ![r].state = "SUPERSEDED", ![Replacement(r)] = NewRun]
    /\ UNCHANGED observations

ReprocessRunAndCreate(r) ==
    /\ VerdictAllowed(r, {"AWAITING_QA", "FAILED"})
    /\ r[2] < MaxRuns
    /\ runs[Replacement(r)].state = "ABSENT"
    /\ runs' = [runs EXCEPT ![r].state = "SUPERSEDED", ![Replacement(r)] = NewRun]
    /\ UNCHANGED observations
=============================================================================
