# sdpctl in TLA+

A verification of `sdpctl`, the controller of a small radio-astronomy pipeline:
it admits observations while there is disk space, runs one container that
observes and several that process, asks an operator for a verdict, and then
deletes the raw data. State lives in a SQLite database and in directories next
to it; the controller and the operator's commands are separate processes that
share both.

`.tla` files hold the modules, `.cfg` files the instances TLC checks, and
`PROJECT.json` the list of components, runs, mutated definitions, the source
lines each definition stands for, findings, hazards and theorems.

## The system

| component | state | operations | interacts with |
|---|---|---|---|
| State model, database (`models.py`, `store.py`) | rows of `observations`, `processing_runs`, `events` | guarded transitions; verdict transactions; retry, repair and admission queries | everything, each call one `BEGIN IMMEDIATE` transaction or one query |
| Scheduler (`scheduler.py`) | worker tasks, semaphore | `tick`: sweep, retry, resume, admit, repair, spawn; `_observe`; `_process` | database, runner, file system |
| Startup recovery (`reconcile.py`) | none | kill gate, then row by row: OBSERVING, RUNNING, ACCEPTED, DELETING, STORED, unknown files | database, runner, file system; runs before the first tick while commands may already run |
| Storage (`storage.py`) | live, trash and quarantine paths; size cache | rename, remove and mark; quarantine; forced drop | called by commands, recovery and workers |
| Verdicts (`qa.py`, `cli.py`) | none | accept, reprocess, discard, resolve, purge | a process each; validate, then one transaction, then the deletion |
| Runner (`runners/container.py`) | containers, which outlive the controller | observe, process, abort, kill all | docker; files under the data root |
| Size cache (`_AUX_CACHE`) | sizes of quarantine and trash under their mtimes, one per process | read by `can_admit`; dropped after moves | changed behind its back by commands |
| Configuration, previews, listings, fake runner | | | see "Not modelled" |

What is hard, and what makes each part correct:

* **Commands race the controller and each other.** A command validates what it
  reads and commits later; the retry loop works from a list read earlier. Right
  means: one run per observation that anything may still be done with, one
  verdict, no verdict that takes data away from a worker.
* **Crashes at every step.** A controller or a command dies between rename,
  remove and mark, between STORED and the first run, or while containers run.
  Right means: no data without a way forward, nothing reported DELETED that is
  still there, no run executed more often than configured.
* **Failures inside handlers.** The database or a move raises in a worker and
  again in its handler. Right means: the next tick's sweep takes the row up.
* **Accounting.** Bytes move from container to row to trash or quarantine while
  the controller decides whether one more observation fits, on a query, a cache
  of sizes and two directory walks. Right means: what it decides on covers what
  is there, and the disk never holds more than the threshold and the one overrun.
* **Two halves, one process.** Admission and observing share rows, directories
  and the event loop with retry, repair and processing. Right means: neither
  does anything the other does not expect of it.

## Modules

| module | models |
|---|---|
| `Store` | the two tables, both transition tables, one operator per transaction and query |
| `Deletion` | `finish_observation_deletion` and `force_drop_observation_data`, a step per file-system call and transaction, any number of processes inside |
| `Processing` | what happens from STORED on: tick, worker tasks, recovery, verdict commands, processing containers; composes `Store` and `Deletion` |
| `Observing` | how raw data comes to be there: admission, the observing worker with its watchdog and handler, quarantine and purge; composes `Store` and `Deletion` |
| `Pipeline` | the whole controller: `Processing` and `Observing` on one database, disk and event loop, every action one of theirs or one of each together, in the order of `tick` and `startup_reconcile` |
| `PipelineRefinements` | the whole implements `Processing` and implements `Observing` |
| `RawRelease` | the abstract promise: data is kept until a verdict unless something outside destroys it, a verdict is given once, DELETED is reported of data that is gone |
| `ProcessingRefinesRelease` | the mapping from `Processing` to `RawRelease` |
| `ProcessingProofs` | proofs about `Processing`: types, one live run, nothing stranded |
| `RetryProofs` | proofs about its retry budget and its exhausted runs |
| `RawDataProofs` | proofs about the raw data and its rows |
| `ReleaseProofs` | the proof that `Processing` implements `RawRelease` |
| `WorkerProofs` | proofs about the tasks, containers and products of `Processing` |
| `ObservingProofs` | proofs about `Observing`: types, rows, tasks and data, nothing destroyed |
| `StorageProofs` | proofs about the bytes of `Observing`: the charge, the cache, the threshold |
| `PipelineProofs` | the proofs that the whole implements `Processing` and implements `Observing`, and what holds of the two together |
| `MCProcessing`, `MCObserving`, `MCPipeline`, `MCRelease` | the instances for TLC |

How state and actions correspond to the code:

* A database row is a record of its state and of the columns decisions depend
  on. A run is named by its unique key (observation, attempt), which also names
  its output directory. The number of QUEUED -> RUNNING events is the field
  `execs`. A transaction is one step because it runs under BEGIN IMMEDIATE; a
  call that raises `TransitionError` is a disabled transaction, followed by
  what the caller does about it.
* `raw[o]` says at which of its two paths the Measurement Set of `o` exists;
  `disk[o]` and `quarantined[o]` of `Observing` say how many bytes.
* `step[p]` and `target[p]` are the program counter of a process inside a
  multi-step routine. The controller's are used by its retry loop and by
  recovery, a command's by `qa` and `resolve`.
* `phase` is the controller's own program counter. `tick` contains no await that
  suspends, so worker tasks move only while `phase = "idle"`; commands and
  containers move at any time.
* `worker[r]` and `task[o]` say where an asyncio task waits. A task that died
  with its row unchanged is `"none"`, which is what the sweep looks for.
* `containers` and `writers` survive `ControllerCrash`.
* A loop over rows that only the controller moves (the sweep, the ACCEPTED and
  the STORED loops of recovery) is one step, which leaves out any of its rows
  where the code catches an exception and goes on; loops whose rows commands can
  move meanwhile (retry, repair, deletions) keep the list they read in
  `todoRuns`, `todoObs` and `todo` and visit it row by row.
* `aux` is the controller's cache: `match` says that no change of quarantine or
  trash has shown in an mtime since the mtimes it is kept under were read
  (`TickSignature`), which is before the walk (`TickMeasure`). A command's change
  of an entry clears it (`ShowsChange`), unless it falls into the clock tick of
  an earlier one (`CoarseMtimes`) or happens inside an entry (`DeletionPart`, the
  second disjunct of `Purge`). Moves of the controller drop the cache
  (`Invalidates`).
* `overrun` is the overrun action of the configuration the running controller
  has read; it may differ from start to start.

`Processing` replaces everything before STORED by one action of its environment,
`ObservationStored`; `Observing` replaces processing by `CommandVerdict`.
`Pipeline` replaces these two by what the other module does: it has both sets of
variables, the database, the paths and the program counters of deletions being
the same, and a controller counter for each (`phase`, `ophase`) that together say
where the one controller is. `ImplementsProcessing` and `ImplementsObserving` say
that the replacements were right, so that a property shown of one module holds
of the whole: `Processing` sees an observation from STORED on, with size 0 or 1;
`Observing` sees no runs, and of a command only the verdict and the deletion.

## Runs

| run | instance | shows |
|---|---|---|
| `race` | 1 observation, 2 commands, 2 runs, 2 attempts | one live run, nothing stranded, data gone only by a verdict, DELETED means gone, bytes charged while present, exhausted failures left to the operator; every step is one `RawRelease` allows |
| `slots` | 2 observations, 1 command, 1 slot | executions start clean, the container limit, no verdict under a running worker, the retry budget |
| `faults` | docker commands fail, a legacy ACCEPTED row | the verdict properties do not rest on containers being gone |
| `operator` | with fairness | every STORED observation reaches the operator; every deletion is carried out |
| `admission` | 3 observations, threshold 5, reservation 2, up to 3 bytes, either overrun action at each start, coarse mtimes | what is charged when admission decides covers what is on the disk; the disk stays within the threshold and one overrun, and so does the account of the rows, without the overrun while anything is reserved; live data is charged; one observation at a time; a container writes only for an OBSERVING row |
| `campaign` | 2 observations, room for 1, with fairness; docker commands and moves to quarantine fail | observations end; a campaign with room is completed; no raw data is destroyed; with overruns always aborted the account of the rows never exceeds the threshold |
| `composed` | the whole, 2 observations, room for 1, 1 command | both refinements; no input is read while it is written; bytes go only by the operator |
| `end_to_end` | the whole, 1 observation, 2 attempts, an overrun, docker commands and moves fail, with fairness | what is admitted reaches the operator or fails; both refinements |
| four more | smallest instance | the findings below, each a sentence of the documentation that is refuted |

Bounds. The interesting races are within one observation between two commands
and the controller: `race` has exactly these. Two attempts and two runs let a
retry, an exhaustion and a reprocess follow each other; the properties about a
third run differ from those about a second only in numbers, which the proofs
cover. Two observations are needed only where they compete, for a slot
(`slots`) or for the disk (`campaign` and `composed`, where one fills it, and
`admission`, with three, of which the threshold of 5 holds two reservations
exactly and a third not). `operator`, `composed` and `end_to_end` have one attempt number
per observation: a reprocess concerns `Processing` alone, where `race` has it; for
liveness it only starts a second run that ends like the first.
`MaxRuns` bounds the attempts of an observation, `MaxBytes` the bytes there are of
one at a time; both are the model's own, every other number is a parameter of
the program. Symmetry is used for commands and for observations in runs without
liveness.

Fairness. The controller, while up, goes on: its loop awaits only sleeps,
recovery only bounded waits. The event loop runs every ready task between two
ticks; a task is ready only then, and only while a slot is free, so its steps
are strongly fair (the semaphore wakes waiters in order). Containers end; the
code has no timeout around processing, so this is an assumption about the image.
A claim or a deletion step that can succeed again and again does so at last;
failures are possible but not for ever. In `Pipeline` the controller is what it is
in the code, one sequential program, and has one weak fairness condition for all
of its own steps. Operator, environment and crashes are
not fair; liveness is claimed for executions in which the controller stays up,
or in which recovery keeps getting past its loop over deletions.

## Proofs

Eight modules prove results for every set of observations and processes and every
value of the parameters. Every invariant and every action property a passing run
checks is a theorem, and so are the three refinements; liveness is not.

| of | holds under every fault of the model | and with a hypothesis |
|---|---|---|
| `Processing` | `TypeOK`, `OneLiveRun`, `NeverStranded`, `RetryBudget`, `ExhaustedStaysWithOperator`, `DeletedMeansGone`, `ChargedWhilePresent`, `RawGoneOnlyByVerdict`, `WaitersAreQueued`, `InputOutlivesWorker` | `~ DockerFaults`: `StartsClean`, `ContainersWithinLimit`; `LegacyObs = {}`: `ImplementsRawRelease` |
| `Observing` | `TypeOK`, `NothingDestroyed`, `LogicalWithinThreshold` | `~ DockerFaults`: `WritersAreObserved`, `OneObservationAtATime`; `~ DockerFaults /\ ~ OsFaults`: `LiveIsCharged`, `ChargeCoversDisk`, `BytesWithinThreshold` |
| `Pipeline` | `InputIsComplete`, `BytesGoOnlyByOperator`, `ImplementsProcessing`, `ImplementsObserving` | |

The hypotheses say that docker commands report what is so (`DockerFaults`), that a
move to quarantine does not raise (`OsFaults`) and that the database is of this
version (`LegacyObs`). They are needed: with `DockerFaults` TLC refutes
`BytesWithinThreshold`, `ChargeCoversDisk`, `LiveIsCharged`, `WritersAreObserved`
and `OneObservationAtATime`, with `OsFaults` the first three; findings 3 and 4 are
what the faults lead to. Nothing is assumed about `CoarseMtimes`.

The other assumptions are those named in the modules: `StoreAssumption`,
`NoneAssumption`, `ProcessingAssumption`, `ObservingAssumption`, and
`PipelineAssumption`, which puts them together. They are what the configuration
loader validates, or bound the model. `Obs` is assumed finite in `Observing`
because the program inserts `max_observations` rows and no more.

* `ProcessingProofs`. `OneLiveRun` is not inductive: the repair step creates a
  first run from a list read earlier, and a verdict computes the number of its
  replacement. `IInv` adds that every row on the repair list still has no run
  (`RepairIsFirst`: only the controller creates first runs) and that a row that
  was never inserted has none (`NoRunsBeforeObservation`). With them every
  transaction falls into one of a few shapes -- a row keeps being live, stops
  being live, becomes live as the only one, or hands over to its replacement --
  and one lemma per shape says what it preserves.
* `RetryProofs`. The retry loop also works from a list. `RetryInv` adds that each
  listed run, and the one the loop has just cleaned up after, is still below the
  budget and unmarked (`ListIsRetryable`): commands move such runs to states the
  requeue refuses, or supersede them, but neither executes nor marks one. A run
  that waits for an execution is then strictly below the budget.
* `RawDataProofs`. `DataInv` relates each row to the two copies of its data
  (`RawMatchesRow`) and each process inside a routine to what lies behind it
  (`BehindIsGone`: past the rename there is no live copy, past the removal
  nothing). The second part is inductive because nothing that is gone comes back
  (`Forward`), which is why processes that finish the same deletion need no lock.
* `ReleaseProofs`. The mapping also needs that nothing is decided about a STORED
  observation and that lost data stays lost (`Undecided`). Each action is then
  one abstract action (`DecideMaps`, `DataMaps`, `ReportMaps`) or none
  (`RowsMoveMaps`). The database an older version left behind begins with
  ACCEPTED runs, where `RawRelease` does not begin; `faults` checks the
  invariants for it.
* `WorkerProofs`. `TasksInv` says that a task and its row agree: a task that waits
  has a QUEUED row, one that runs a RUNNING row, and recovery has no tasks.
  `InputOutlivesWorker` follows from it, from `OneLiveRun` and from `VerdictIsFinal`
  (after a verdict no run is live, which the transactions establish by superseding
  or by refusing). `CleanInv` adds that a container is of a running task, except
  after a crash and until the kill gate, that a queued run has neither container
  nor products, and that what the retry is about to reset cannot start meanwhile
  (`RetryIsIdle`, because a tick does not suspend). The limit is then that of the
  semaphore, across crashes (`SlotsInv`).
* `ObservingProofs`. `ObsInv` relates a row to its bytes (`RowMatchesDisk`), to its
  container and task (`TaskMatchesRow`) and to processes inside a deletion
  (`BehindIsGone`), and says that at most one row is PLANNED or OBSERVING, none
  while `can_admit` computes (`OneActive`): without it two admissions would follow
  from one reading of the disk.
* `StorageProofs`. A sum of bytes is the number of bytes (`Bytes`, the cardinality
  of a set of pairs), so facts about sums are facts about finite sets and need no
  induction. `WatchedInv`: a container has a task, except after a crash, and its
  bytes were never moved. `MovedInv`: a row that failed has left nothing at its live
  path. `ChargedInv`: what `can_admit` read at first stays an upper bound while
  it computes, since until then only commands move rows, and they lower the charge.
  `AuxInv`: the cache is never below quarantine where it is, or will be, decided
  on -- the reason why only moves of the controller have to drop it.
  `LogicalInv` bounds the charge by the threshold while an observation is under way,
  and else by one overrun that `warn` let pass: only the observation under way
  exchanges a reservation for a larger size, and none is then left under way.
  `BytesInv` adds that, while an observation is under way, the others
  leave room for its reservation, which is what makes one overrun the worst case.
* `PipelineProofs`. `PipeInv` is what each half owes the other: a row that was never
  STORED has neither run nor processing container (`RunMatchesRow`), one that was has
  neither observing container nor observing task (`TaskMatchesRow`), and a verdict
  that was validated still finds its input when it commits, because only the
  deletion that a commit begins, or a drop of a row that is no longer STORED, takes
  it away (`RoutineMatchesRow`). It needs no hypothesis about faults. The two
  refinements go through `Next` action by action: each is an action of the module
  or changes nothing it sees; that an observation is STORED, for instance, is one
  step of `Processing`, with its data at the live path or without any.

The inductive invariants were checked by TLC on the instances of the runs before
they were proved. Each proof of an inductive step has one case per action of
`Next`.

Only model-checked: liveness (`ReachesOperator`, `DeletionCompletes`,
`ObservingEnds`, `CampaignCompletes`, `AdmittedReachesOperator`), since fairness and
`ENABLED` are outside the prover's reach. That a theorem of `Processing` or of
`Observing` holds of the whole follows from the two refinements by substitution,
for an implementation `Spec => ImplementsProcessing` and a theorem
`Spec => []Inv` of `Processing` under the same substitution; the prover does not take
theorems over from an instance, so this last step is an argument and not an
obligation. `composed` and `end_to_end` check the refinements with TLC too.

## Findings

Each is a run that TLC ends with a counterexample.

1. `qa discard` accepts every FAILED run, exhausted or not (`store.py:597`);
   `qa.py:53` and ADR-004 speak of exhausted ones.
2. The retry loop removes the product directory before its guarded transition;
   a reprocess in between makes it remove a superseded run's products
   (`scheduler.py:307`), which `README.md:127` says are retained.
3. A failing `docker ps` reads as "no containers" (`container.py:40`); recovery
   then touches files under a live writer, against `reconcile.py:28` and ADR-003.
4. A quarantine that raises in the exception handler is suppressed
   (`scheduler.py:79`): the row fails, the data stays at its live path, is charged
   to nothing and is never quarantined later, against `README.md:138`.

Two more were seen in the code and have no run of their own. A run stays in
`qa list` after its observation became INCONSISTENT or was dropped, with actions
that are always refused (`store.py:265`; `qa.py:11` lists what is "currently
intended for human action"). A failing abort is suppressed (`scheduler.py:58`),
and an overrun is then quarantined while it is written, against ADR-002; the
`campaign` run contains these steps.

## Not modelled, and why

* The scan for unknown files: every path under `observations/` belongs to a row
  unless something outside the program puts one there. (This is also why the
  leftover of finding 4 is never picked up.)
* A second controller on the same data root: nothing excludes it, and with two
  the properties about containers and executions are false at once, since the
  second one's recovery kills what the first one runs.
* The upgrade of a version 3 database: of two processes that start it at once
  one ends with an exception, before it did anything.
* Cancellation of a worker task other than by the end of the controller.
* A container that docker creates only after the kill gate looked, or after an
  abort found none.
* Previews (cannot change a run's outcome), sizes (numbers here), parsing of
  the configuration, listings, the event timeline, the fake runner.

What the cache costs. `BytesWithinThreshold` and `ChargeCoversDisk` show that a
stale cache never charges too little: only the controller adds to quarantine, and
it drops the cache explicitly, which is needed (without the call a move in the
clock tick of an earlier change is missed, as the mutated model shows); bytes in
trash are charged by their DELETING row as well. It may charge too much: after a
purge or a removal that was interrupted inside an entry nothing shows, and
admission may wait until something does. `CampaignCompletes` is therefore stated
for room as the cache has it. `sdpctl status` measures anew, but in a process of
its own: the controller's cache stays as it is, other than the docstring at
`storage.py:54` suggests.

## Plan

1. Invariants of `Processing` and `Observing` stated of `Pipeline` itself, under the
   substitution of the refinements, where one is worth a proof of its own.
2. Lemmas about `Store`'s queries (what the retry, repair and admission queries
   return) stated once for all the proofs that use them.
3. A campaign of three observations in `Pipeline`, should the instance become
   affordable.
