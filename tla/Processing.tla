----------------------------- MODULE Processing -----------------------------
(***************************************************************************)
(* Processing, retry, verdict and recovery: everything that happens to an  *)
(* observation once its Measurement Set is STORED.                         *)
(*                                                                         *)
(*   - the controller (src/sdpctl/scheduler.py): its tick, and one worker  *)
(*     task per run.  The tick has no await, so no worker moves during it: *)
(*     workers move only while phase = "idle".                             *)
(*   - its startup recovery (src/sdpctl/reconcile.py), after a crash at    *)
(*     any step.                                                           *)
(*   - the operator's commands (src/sdpctl/qa.py, cli.py), each a process  *)
(*     of its own that interleaves with every step of the controller and   *)
(*     of the other commands, and that may die between two of its steps.   *)
(*   - the containers (src/sdpctl/runners/container.py), which outlive the *)
(*     controller that started them.                                       *)
(*                                                                         *)
(* How an observation comes to be STORED (admission, the observing worker) *)
(* is one action of the environment here, ObservationStored.               *)
(***************************************************************************)
EXTENDS Deletion

CONSTANTS
    Controller,             \* the controller among Procs; the others are commands
    MaxProcessingAttempts,  \* cfg.max_processing_attempts
    MaxParallel,            \* cfg.max_parallel_processing
    LegacyObs,              \* observations an older version left STORED and ACCEPTED
    Losable,                \* observations whose live MS may be missing unasked
    DockerFaults            \* may `docker ps` fail, may the `docker run` client
                            \* return while its container goes on?

ASSUME ProcessingAssumption ==
    /\ Controller \in Procs
    /\ MaxProcessingAttempts \in Nat \ {0}
    /\ MaxParallel \in Nat \ {0}
    /\ LegacyObs \subseteq Obs
    /\ Losable \subseteq Obs
    /\ DockerFaults \in BOOLEAN

VARIABLES
    lost,       \* the observations whose live MS vanished without a verdict
    products,   \* products[r]: what the output directory of r holds
    phase,      \* where the controller is in its recovery or its tick
    todoRuns,   \* the rows its current loop over runs has still to visit
    todoObs,    \* the rows its current loop over observations has still to visit
    worker,     \* worker[r]: the task of r: none, waiting for a slot, or running
    containers  \* the runs whose container exists

taskVars == <<todoRuns, todoObs, worker, containers>>
vars == <<dbVars, raw, step, target, lost, products, phase, taskVars>>

Cli == Procs \ {Controller}

Outputs == {"none", "partial", "image"}

Phases ==
    {"down", "kill", "recRuns", "recAccepted", "recDeleting", "recStored",
     "idle", "mark", "list", "retry", "create"}

CommandSteps == {"accept", "reprocess", "discard"}

TypeOK ==
    /\ StoreTypeOK
    /\ raw \in [Obs -> SUBSET Places]
    /\ step \in [Procs -> FinishSteps \cup DropSteps \cup CommandSteps
                            \cup {"idle", "requeue"}]
    /\ target \in [Procs -> RunIds \cup {None}]
    /\ \A p \in Procs : step[p] # "idle" => target[p] \in RunIds
    /\ lost \subseteq Obs
    /\ products \in [RunIds -> Outputs]
    /\ phase \in Phases
    /\ todoRuns \subseteq RunIds
    /\ todoObs \subseteq Obs
    /\ worker \in [RunIds -> {"none", "waiting", "running"}]
    /\ containers \subseteq RunIds

StoredRow == [state |-> "STORED", size |-> 1, reserved |-> 0]
EmptyRow  == [state |-> "STORED", size |-> 0, reserved |-> 0]

Init ==
    /\ observations = [o \in Obs |-> IF o \in LegacyObs THEN StoredRow ELSE NoObservation]
    /\ runs = [r \in RunIds |->
           IF r[1] \in LegacyObs /\ r[2] = 1
             THEN [state |-> "ACCEPTED", execs |-> 1, exhausted |-> FALSE]
             ELSE NoRun]
    /\ raw = [o \in Obs |-> IF o \in LegacyObs THEN {"live"} ELSE {}]
    /\ step = [p \in Procs |-> "idle"]
    /\ target = [p \in Procs |-> None]
    /\ lost = {}
    /\ products = [r \in RunIds |->
           IF r[1] \in LegacyObs /\ r[2] = 1 THEN "image" ELSE "none"]
    /\ phase = "down"
    /\ todoRuns = {}
    /\ todoObs = {}
    /\ worker = [r \in RunIds |-> "none"]
    /\ containers = {}

-----------------------------------------------------------------------------
(* The environment. *)

(* The observing worker stores a new observation (scheduler.py, _observe);  *)
(* a container that exits with 0 and wrote nothing is stored too.           *)
ObservationStored(o) ==
    /\ phase = "idle"
    /\ observations[o].state = "ABSENT"
    /\ \/ /\ observations' = [observations EXCEPT ![o] = StoredRow]
          /\ raw' = [raw EXCEPT ![o] = {"live"}]
          /\ UNCHANGED lost
       \/ /\ o \in Losable
          /\ observations' = [observations EXCEPT ![o] = EmptyRow]
          /\ lost' = lost \cup {o}
          /\ UNCHANGED raw
    /\ UNCHANGED <<runs, step, target, products, phase, taskVars>>

(* Something outside the program removes the live MS of a STORED row.       *)
RawVanishes(o) ==
    /\ o \in Losable
    /\ observations[o].state = "STORED"
    /\ "live" \in raw[o]
    /\ raw' = [raw EXCEPT ![o] = {}]
    /\ lost' = lost \cup {o}
    /\ UNCHANGED <<dbVars, step, target, products, phase, taskVars>>

(* A container writes into the output directory of its run, then ends.      *)
ContainerWrites(r) ==
    /\ r \in containers
    /\ products[r] # "image"
    /\ products' = [products EXCEPT ![r] = IF @ = "none" THEN "partial" ELSE "image"]
    /\ UNCHANGED <<dbVars, raw, step, target, lost, phase, taskVars>>

ContainerExits(r) ==
    /\ r \in containers
    /\ containers' = containers \ {r}
    /\ UNCHANGED <<dbVars, raw, step, target, lost, products, phase,
                   todoRuns, todoObs, worker>>

-----------------------------------------------------------------------------
(* Worker tasks: scheduler.py, _process. *)

Running == {r \in RunIds : worker[r] = "running"}

SlotFree == Cardinality(Running) < MaxParallel

WorkerTurn(r, kind) == phase = "idle" /\ worker[r] = kind

(* A slot is free: QUEUED -> RUNNING, then runner.process makes the output  *)
(* directory and starts the container.                                      *)
WorkerClaims(r) ==
    /\ WorkerTurn(r, "waiting")
    /\ SlotFree
    /\ TransitionRun(r, "QUEUED", "RUNNING")
    /\ worker' = [worker EXCEPT ![r] = "running"]
    /\ products' = [products EXCEPT ![r] = IF @ = "none" THEN "partial" ELSE @]
    /\ containers' = containers \cup {r}
    /\ UNCHANGED <<raw, step, target, lost, phase, todoRuns, todoObs>>

WorkerEnds(r) ==
    /\ worker' = [worker EXCEPT ![r] = "none"]
    /\ UNCHANGED <<raw, step, target, lost, products, phase,
                   todoRuns, todoObs, containers>>

(* The database raised at the claim.  The handler's QUEUED -> FAILED        *)
(* succeeds, or raises too and the task dies with the row still QUEUED.     *)
WorkerRaisesBeforeClaim(r) ==
    /\ WorkerTurn(r, "waiting")
    /\ SlotFree
    /\ TransitionRun(r, "QUEUED", "FAILED") \/ UNCHANGED dbVars
    /\ WorkerEnds(r)

RunnerReturned(r) ==
    /\ WorkerTurn(r, "running")
    /\ r \notin containers

(* Exit code 0 and the image exists; the preview cannot fail the run.       *)
WorkerSucceeds(r) ==
    /\ RunnerReturned(r)
    /\ products[r] = "image"
    /\ TransitionRun(r, "RUNNING", "AWAITING_QA")
    /\ WorkerEnds(r)

(* A non-zero exit code, a missing image, or an exception after the claim.  *)
WorkerFails(r) ==
    /\ RunnerReturned(r) \/ (DockerFaults /\ WorkerTurn(r, "running"))
    /\ TransitionRun(r, "RUNNING", "FAILED")
    /\ WorkerEnds(r)

(* The database raised at the last transition and again in the handler: the *)
(* task is gone and its row is still RUNNING.                               *)
WorkerDies(r) ==
    /\ RunnerReturned(r)
    /\ UNCHANGED dbVars
    /\ WorkerEnds(r)

-----------------------------------------------------------------------------
(* The tick: scheduler.py, tick.  Each transaction and each removal of a    *)
(* directory is a step; commands run between any two of them.               *)

Advance(from, to) ==
    /\ phase = from
    /\ step[Controller] = "idle"
    /\ phase' = to

(* RUNNING rows whose task is gone become FAILED.  Only the controller      *)
(* moves RUNNING rows, so the loop over them is one step.                   *)
Orphaned == {r \in RunsIn({"RUNNING"}) : worker[r] = "none"}

(* Mutant: an orphaned execution is put back in the queue.                  *)
TickSweep_Requeues ==
    /\ Advance("idle", "mark")
    /\ runs' = [r \in RunIds |->
           IF r \in Orphaned THEN [runs[r] EXCEPT !.state = "QUEUED"] ELSE runs[r]]
    /\ UNCHANGED <<observations, raw, step, target, lost, products, taskVars>>

TickSweep ==
    /\ Advance("idle", "mark")
    /\ runs' = [r \in RunIds |->
           IF r \in Orphaned THEN [runs[r] EXCEPT !.state = "FAILED"] ELSE runs[r]]
    /\ UNCHANGED <<observations, raw, step, target, lost, products, taskVars>>

TickMarkExhausted ==
    /\ Advance("mark", "list")
    /\ MarkExhaustedFailedRuns(MaxProcessingAttempts)
    /\ UNCHANGED <<raw, step, target, lost, products, taskVars>>

TickListRetryable ==
    /\ Advance("list", "retry")
    /\ todoRuns' = RetryableFailedRuns(MaxProcessingAttempts)
    /\ UNCHANGED <<dbVars, raw, step, target, lost, products,
                   todoObs, worker, containers>>

(* Mutant: keeps the output directory of the failed execution.              *)
TickCleanup_Keeps(r) ==
    /\ Advance("retry", "retry")
    /\ r \in todoRuns
    /\ Become(Controller, "requeue", r)
    /\ todoRuns' = todoRuns \ {r}
    /\ UNCHANGED <<dbVars, raw, lost, products, todoObs, worker, containers>>

(* One round of the retry loop, over the rows as they were listed (the code *)
(* visits them by id, the model in any order): remove the output directory. *)
TickCleanup(r) ==
    /\ Advance("retry", "retry")
    /\ r \in todoRuns
    /\ products' = [products EXCEPT ![r] = "none"]
    /\ Become(Controller, "requeue", r)
    /\ todoRuns' = todoRuns \ {r}
    /\ UNCHANGED <<dbVars, raw, lost, todoObs, worker, containers>>

(* ... or the removal raises, with part of the directory left.              *)
TickCleanupFails(r) ==
    /\ Advance("retry", "retry")
    /\ r \in todoRuns
    /\ products[r] # "none"
    /\ \E left \in {"partial", products[r]} : products' = [products EXCEPT ![r] = left]
    /\ MarkRunRetryExhausted(r)
    /\ todoRuns' = todoRuns \ {r}
    /\ UNCHANGED <<raw, step, target, lost, todoObs, worker, containers>>

(* The guarded FAILED -> QUEUED; a TransitionError ends the round.          *)
TickRequeue ==
    LET r == target[Controller] IN
    /\ step[Controller] = "requeue"
    /\ IF runs[r].state = "FAILED" THEN TransitionRun(r, "FAILED", "QUEUED")
                                   ELSE UNCHANGED dbVars
    /\ Leave(Controller)
    /\ UNCHANGED <<raw, lost, products, phase, taskVars>>

TickListWithoutRuns ==
    /\ Advance("retry", "create")
    /\ todoRuns = {}
    /\ todoObs' = StoredObservationsWithoutRuns
    /\ UNCHANGED <<dbVars, raw, step, target, lost, products,
                   todoRuns, worker, containers>>

TickCreateRun(o) ==
    /\ Advance("create", "create")
    /\ o \in todoObs
    /\ CreateRun(o)
    /\ todoObs' = todoObs \ {o}
    /\ UNCHANGED <<raw, step, target, lost, products, todoRuns, worker, containers>>

TickSpawn ==
    /\ Advance("create", "idle")
    /\ todoObs = {}
    /\ worker' = [r \in RunIds |->
           IF r \in RunsIn({"QUEUED"}) /\ worker[r] = "none" THEN "waiting" ELSE worker[r]]
    /\ UNCHANGED <<dbVars, raw, step, target, lost, products,
                   todoRuns, todoObs, containers>>

-----------------------------------------------------------------------------
(* Crash, start and startup recovery: cli.py, run; reconcile.py.            *)

(* The controller ends at any step: killed, interrupted, or by an exception *)
(* no handler catches.  Its tasks go with it, its containers do not.        *)
ControllerCrash ==
    /\ phase # "down"
    /\ phase' = "down"
    /\ Leave(Controller)
    /\ todoRuns' = {}
    /\ todoObs' = {}
    /\ worker' = [r \in RunIds |-> "none"]
    /\ UNCHANGED <<dbVars, raw, lost, products, containers>>

ControllerStart ==
    /\ phase = "down"
    /\ phase' = "kill"
    /\ UNCHANGED <<dbVars, raw, step, target, lost, products, taskVars>>

(* The safety gate: `docker rm -f` every container `docker ps` names and    *)
(* wait until it is gone; a container that stays ends the program, which    *)
(* ControllerCrash covers.  The exit code of `docker ps` is not read: when  *)
(* it fails it names no container, and the gate opens.                      *)
GateOpens(left) ==
    /\ Advance("kill", "recRuns")
    /\ containers' = left
    /\ todoRuns' = RunsIn({"RUNNING"})
    /\ UNCHANGED <<dbVars, raw, step, target, lost, products, todoObs, worker>>

(* Mutant: kills nothing.                                                   *)
KillManaged_Nothing == GateOpens(containers)

KillManaged == GateOpens({}) \/ (DockerFaults /\ GateOpens(containers))

(* Interrupted processing: remove the output directory, RUNNING -> FAILED.  *)
RecoverRun(r) ==
    /\ Advance("recRuns", "recRuns")
    /\ r \in todoRuns
    /\ products' = [products EXCEPT ![r] = "none"]
    /\ TransitionRun(r, "RUNNING", "FAILED")
    /\ todoRuns' = todoRuns \ {r}
    /\ UNCHANGED <<raw, step, target, lost, todoObs, worker, containers>>

(* ... or either raises: the failure is recorded and the row stays RUNNING. *)
(* Where there is no directory to remove only the transition can.           *)
RecoverRunFails(r) ==
    /\ Advance("recRuns", "recRuns")
    /\ r \in todoRuns
    /\ \E left \in {"none", "partial", products[r]} :
           /\ products[r] = "none" => left = "none"
           /\ products' = [products EXCEPT ![r] = left]
    /\ todoRuns' = todoRuns \ {r}
    /\ UNCHANGED <<dbVars, raw, step, target, lost, todoObs, worker, containers>>

RecoverRunsDone ==
    /\ Advance("recRuns", "recAccepted")
    /\ todoRuns = {}
    /\ UNCHANGED <<dbVars, raw, step, target, lost, products, taskVars>>

(* ACCEPTED is authorisation to delete: resume it, but for the rows where   *)
(* that raised.  Then list the DELETING rows.                               *)
ResumesDeletion(resumed) ==
    /\ Advance("recAccepted", "recDeleting")
    /\ observations' = [o \in Obs |->
           IF o \in resumed THEN [observations[o] EXCEPT !.state = "DELETING"]
                           ELSE observations[o]]
    /\ todoObs' = {o \in Obs : observations'[o].state = "DELETING"}
    /\ UNCHANGED <<runs, raw, step, target, lost, products,
                   todoRuns, worker, containers>>

(* Mutant: resumes the deletion of every observation nothing runs on.       *)
RecoverAccepted_AnyIdle ==
    ResumesDeletion({o \in ObservationsIn({"STORED"}) : ~ HasActiveRuns(o)})

RecoverAccepted ==
    \E resumed \in
        SUBSET {o \in ObservationsIn({"STORED"}) : HasAcceptedRun(o) /\ ~ HasActiveRuns(o)} :
        ResumesDeletion(resumed)

(* finish_observation_deletion of one listed row: the steps of Deletion.    *)
RecoverDeletion(o) ==
    /\ Advance("recDeleting", "recDeleting")
    /\ o \in todoObs
    /\ Become(Controller, "rename", <<o, 1>>)
    /\ todoObs' = todoObs \ {o}
    /\ UNCHANGED <<dbVars, raw, lost, products, todoRuns, worker, containers>>

RecoverDeletionsDone ==
    /\ Advance("recDeleting", "recStored")
    /\ todoObs = {}
    /\ UNCHANGED <<dbVars, raw, step, target, lost, products, taskVars>>

(* STORED rows whose MS is missing become INCONSISTENT, but for those whose *)
(* check or transition raised.                                              *)
RecoverStored ==
    /\ Advance("recStored", "idle")
    /\ \E missing \in SUBSET {o \in ObservationsIn({"STORED"}) : "live" \notin raw[o]} :
           observations' = [o \in Obs |->
               IF o \in missing THEN [state |-> "INCONSISTENT", size |-> 0, reserved |-> 0]
                               ELSE observations[o]]
    /\ UNCHANGED <<runs, raw, step, target, lost, products, taskVars>>

-----------------------------------------------------------------------------
(* The operator's commands: qa.py, cli.py.  A command first validates what  *)
(* it reads, then issues one transaction that checks the database part      *)
(* again; when that raises, the command ends (CommandEnds).                 *)

Validated(r, from) == VerdictAllowed(r, from) /\ "live" \in raw[r[1]]

Validates(p, r, from, command) ==
    /\ p \in Cli
    /\ step[p] = "idle"
    /\ Validated(r, from)
    /\ Become(p, command, r)
    /\ UNCHANGED <<dbVars, raw, lost, products, phase, taskVars>>

BeginAccept(p, r)    == Validates(p, r, {"AWAITING_QA"}, "accept")
BeginReprocess(p, r) == Validates(p, r, {"AWAITING_QA", "FAILED"}, "reprocess")
BeginDiscard(p, r)   == Validates(p, r, {"FAILED"}, "discard")

CommitAccept(p) ==
    /\ step[p] = "accept"
    /\ AcceptRunAndBeginDeletion(target[p])
    /\ Continue(p, "rename")
    /\ UNCHANGED <<raw, lost, products, phase, taskVars>>

CommitReprocess(p) ==
    /\ step[p] = "reprocess"
    /\ ReprocessRunAndCreate(target[p])
    /\ Leave(p)
    /\ UNCHANGED <<raw, lost, products, phase, taskVars>>

CommitDiscard(p) ==
    /\ step[p] = "discard"
    /\ DiscardFailedRunAndBeginDeletion(target[p])
    /\ Continue(p, "rename")
    /\ UNCHANGED <<raw, lost, products, phase, taskVars>>

BeginResolve(p, o) ==
    /\ p \in Cli
    /\ BeginDrop(p, o)
    /\ UNCHANGED <<lost, products, phase, taskVars>>

(* The steps of a deletion, whoever runs it.                                *)
FinishDeletion(p) ==
    /\ FinishStep(p)
    /\ UNCHANGED <<lost, products, phase, taskVars>>

ForceDrop(p) ==
    /\ DropStep(p)
    /\ UNCHANGED <<lost, products, phase, taskVars>>

(* A command dies or raises; recovery records a deletion it could not       *)
(* complete and goes on.                                                    *)
CommandEnds(p) ==
    /\ step[p] # "requeue"
    /\ Abandon(p)
    /\ UNCHANGED <<lost, products, phase, taskVars>>

-----------------------------------------------------------------------------

Environment ==
    \/ \E o \in Obs : ObservationStored(o) \/ RawVanishes(o)
    \/ \E r \in RunIds : ContainerWrites(r) \/ ContainerExits(r)

WorkerMoves(r) ==
    \/ WorkerClaims(r)
    \/ WorkerRaisesBeforeClaim(r)
    \/ WorkerSucceeds(r)
    \/ WorkerFails(r)
    \/ WorkerDies(r)

Ticks ==
    \/ TickSweep
    \/ TickMarkExhausted
    \/ TickListRetryable
    \/ \E r \in RunIds : TickCleanup(r) \/ TickCleanupFails(r)
    \/ TickRequeue
    \/ TickListWithoutRuns
    \/ \E o \in Obs : TickCreateRun(o)
    \/ TickSpawn

Recovery ==
    \/ ControllerStart
    \/ KillManaged
    \/ \E r \in RunIds : RecoverRun(r) \/ RecoverRunFails(r)
    \/ RecoverRunsDone
    \/ RecoverAccepted
    \/ \E o \in Obs : RecoverDeletion(o)
    \/ RecoverDeletionsDone
    \/ RecoverStored

Commands ==
    \E p \in Procs :
        \/ \E r \in RunIds : BeginAccept(p, r) \/ BeginReprocess(p, r) \/ BeginDiscard(p, r)
        \/ CommitAccept(p)
        \/ CommitReprocess(p)
        \/ CommitDiscard(p)
        \/ \E o \in Obs : BeginResolve(p, o)
        \/ FinishDeletion(p)
        \/ ForceDrop(p)
        \/ CommandEnds(p)

Next ==
    Environment \/ (\E r \in RunIds : WorkerMoves(r)) \/ Ticks \/ Recovery
        \/ ControllerCrash \/ Commands

Spec == Init /\ [][Next]_vars

(* Fairness.  The controller, while it is up, goes on: run awaits only      *)
(* sleeps and recovery only bounded waits.  The event loop runs every ready *)
(* task between two ticks, but a task is ready only then and, waiting for   *)
(* the semaphore, only while a slot is free: strong fairness (the semaphore *)
(* wakes waiters first come, first served).  Containers end: no timeout     *)
(* guards processing, so this is an assumption about the image.  A raising  *)
(* database or file system is not there forever: a claim and a step of a    *)
(* deletion that can succeed again and again do so at last.  Nothing is     *)
(* assumed of the operator and of the environment.                          *)
ControllerFairness ==
    /\ WF_vars(TickSweep) /\ WF_vars(TickMarkExhausted) /\ WF_vars(TickListRetryable)
    /\ WF_vars(TickRequeue) /\ WF_vars(TickListWithoutRuns) /\ WF_vars(TickSpawn)
    /\ \A r \in RunIds : WF_vars(TickCleanup(r) \/ TickCleanupFails(r))
    /\ \A o \in Obs : WF_vars(TickCreateRun(o))
    /\ WF_vars(KillManaged) /\ WF_vars(RecoverRunsDone) /\ WF_vars(RecoverAccepted)
    /\ WF_vars(RecoverDeletionsDone) /\ WF_vars(RecoverStored)
    /\ \A r \in RunIds : WF_vars(RecoverRun(r) \/ RecoverRunFails(r))
    /\ \A o \in Obs : WF_vars(RecoverDeletion(o))
    /\ SF_vars(FinishDeletion(Controller) /\ step[Controller] = "rename")
    /\ SF_vars(FinishDeletion(Controller) /\ step[Controller] = "remove")
    /\ SF_vars(FinishDeletion(Controller) /\ step[Controller] = "mark")

WorkerFairness ==
    \A r \in RunIds :
        /\ SF_vars(WorkerClaims(r))
        /\ SF_vars(WorkerSucceeds(r) \/ WorkerFails(r) \/ WorkerDies(r))
        /\ WF_vars(ContainerExits(r))

FairSpec == Spec /\ ControllerFairness /\ WorkerFairness

-----------------------------------------------------------------------------
(* Properties. *)

LiveStates == {"QUEUED", "RUNNING", "AWAITING_QA", "FAILED"}

LiveRunsOf(o) == {r \in RunsOf(o) : runs[r].state \in LiveStates}

HasVerdict(o) == \E r \in RunsOf(o) : runs[r].state \in {"ACCEPTED", "DISCARDED"}

(* An observation has at most one run that something may still be done      *)
(* with, and that run is its newest: whatever the automatic retry, two      *)
(* racing commands and the repair of a missing first run do, they never     *)
(* work on two runs of one observation, and the attempt number a reprocess  *)
(* computes is free (store.py, the UNIQUE key).                             *)
OneLiveRun ==
    \A o \in Obs : \A r \in LiveRunsOf(o) : \A s \in RunsOf(o) :
        s = r \/ (s[2] < r[2] /\ runs[s].state \notin LiveStates)

(* A STORED observation always has a way forward: no run yet (the tick      *)
(* creates it), a live run, or an ACCEPTED run whose deletion recovery      *)
(* resumes.  No order of retries, verdicts, crashes and recovery strands    *)
(* raw data on disk (scheduler.py, the comment on the repair scan).         *)
NeverStranded ==
    \A o \in ObservationsIn({"STORED"}) :
        RunsOf(o) = {} \/ LiveRunsOf(o) # {} \/ HasAcceptedRun(o)

(* The live MS leaves its place only by a verdict -- an ACCEPTED or a       *)
(* DISCARDED run -- unless something outside removed it: neither recovery   *)
(* nor `resolve --drop` removes raw data nobody decided on.                 *)
RawGoneOnlyByVerdict ==
    \A o \in Obs :
        \/ observations[o].state = "ABSENT"
        \/ "live" \in raw[o]
        \/ o \in lost
        \/ HasVerdict(o)

(* DELETED is only written when neither copy is left on disk, however many  *)
(* processes finish the same deletion at once, and whichever of them died   *)
(* half-way (storage.py, finish_observation_deletion).                      *)
DeletedMeansGone == \A o \in ObservationsIn({"DELETED"}) : raw[o] = {}

(* Bytes on disk are charged: while either copy of an MS exists, its row is *)
(* one of those logical_storage adds up, with its size (store.py).          *)
ChargedWhilePresent ==
    \A o \in Obs : raw[o] # {} =>
        /\ observations[o].state \in {"STORED", "DELETING", "INCONSISTENT"}
        /\ observations[o].size > 0

(* No verdict takes the MS away from a worker that is reading it.           *)
InputOutlivesWorker ==
    \A r \in Running : "live" \in raw[r[1]] \/ r[1] \in lost

(* No run is executed more often than the configuration allows, across      *)
(* retries, crashes and restarts: the count is read back from the events.   *)
RetryBudget == \A r \in RunIds : runs[r].execs <= MaxProcessingAttempts

(* A run handed to the operator as exhausted is never run again by itself,  *)
(* although the retry loop works from a list read earlier.                  *)
ExhaustedStaysWithOperator ==
    \A r \in RunIds :
        runs[r].exhausted => runs[r].state \in {"FAILED", "SUPERSEDED", "DISCARDED"}

(* A task waiting for a slot finds its row as it was when it was spawned:   *)
(* the claim never meets the TransitionError it is written to survive.      *)
WaitersAreQueued ==
    \A r \in RunIds : worker[r] = "waiting" => runs[r].state = "QUEUED"

(* There are never more processing containers than max_parallel_processing, *)
(* counting those a crashed controller left behind (scheduler.py, the       *)
(* semaphore; reconcile.py, the safety gate).                               *)
ContainersWithinLimit == Cardinality(containers) <= MaxParallel

(* An execution starts in an empty output directory, so the image that is   *)
(* shown to the operator is of this execution and not of an earlier one     *)
(* that failed (scheduler.py, the retry loop; reconcile.py).                *)
StartsClean ==
    \A r \in RunIds :
        runs[r].state = "QUEUED" => products[r] = "none" /\ r \notin containers

(* The counterpart of NeverStranded: if the controller stays up, every      *)
(* STORED observation reaches the operator -- a run awaiting QA or an       *)
(* exhausted failure -- or leaves STORED, whatever fails on the way and     *)
(* however often commands start and die.                                    *)
StaysUp == <>[](phase # "down")

Actionable(o) == \E r \in HumanActionableRuns : r[1] = o

ReachesOperator ==
    StaysUp => \A o \in Obs :
        (observations[o].state = "STORED" /\ ~ HasAcceptedRun(o)) ~>
            (Actionable(o) \/ observations[o].state # "STORED")

(* DELETING is a durable intent: a deletion a dead command left half-way is *)
(* completed once recovery gets past its loop over them often enough for    *)
(* each file operation to succeed, at whichever side of the rename it       *)
(* stopped.                                                                 *)
DeletionCompletes ==
    ([]<>(phase = "recStored")) => \A o \in Obs :
        (observations[o].state = "DELETING") ~> (observations[o].state = "DELETED")

-----------------------------------------------------------------------------
(* What a comment or a document of the repository says and the code does    *)
(* not do: each is refuted by a run of its own.                             *)

(* ADR-001, ADR-004, qa.py: a failure is discarded when its automatic       *)
(* attempts are exhausted.                                                  *)
DiscardedWasExhausted ==
    \A r \in RunIds : runs[r].state = "DISCARDED" => runs[r].exhausted

(* README.md: superseded product directories are retained as history.       *)
SupersededProductsRetained ==
    [][\A r \in RunIds :
          runs[r].state = "SUPERSEDED" => products'[r] = products[r]]_vars

(* reconcile.py, ADR-003: recovery touches no file before every managed     *)
(* container is confirmed absent.                                           *)
NoWriterDuringRecovery ==
    phase \in {"recRuns", "recAccepted", "recDeleting", "recStored"} => containers = {}
=============================================================================
