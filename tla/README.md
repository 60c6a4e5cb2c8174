# Verification of personal-devin

TLA+ models of the agent platform in this repository (`app/`, about 13,000 lines of
Python), TLC runs over small instances, and TLAPS proofs. Every definition is
translated from the source; `PROJECT.json` gives the lines each one stands for, the
runs, one mutant of the code per property, the hazards and the disagreements found.

Run inside this directory: `tlc -workers 2 -config MCMemoryStore.cfg MCMemoryStore`,
`tlapm TaskRunnerProofs.tla`.

## 1. The system

A goal is planned into tasks, the tasks are executed, the report is validated,
what happened is written to memory, and memory is mined for improvements. Three
drivers do this independently of each other: the core orchestrator
(`app/core`), the agent loop and the loop controller (`app/agent`). They share the
planner, the runner and the memory subsystem by plain calls; there are no messages
and no scheduler. Threads appear only where callers bring them, and the process may
die at any moment: only memory and the audit log are on disk.

| Component | State | Operations | Called by, calls | What is hard | What makes it correct |
|---|---|---|---|---|---|
| Execution runner (`execution/runner.py`, `executor.py`) | per run: task statuses, skip reasons, halted flag, report | `Runner.run`, `Executor.execute_task` | orchestrator, agent loop; calls handlers, infrastructure | chains of skips, halting, handlers that raise anything, `KeyboardInterrupt` | handlers run only behind completed ancestors; nothing behind a failure; true reasons; a truthful report |
| Core orchestrator (`core/orchestrator.py`, `state.py`, `recovery.py`) | state machine, traces, retry records, record ids | `run`, `transition_to`, `RecoveryManager.execute` | calls planner, runner, memory, self-improvement | five phases each of which may fail half way, retries, `None` results | COMPLETED earned, every end explained, retries bounded, memory agrees with the report |
| Planning engine (`planning/graph.py`, `planner.py`, `validator.py`) | adjacency, in-degrees, search state | `build_execution_plan` | orchestrator, loops | order of ids and roots, repeated and unknown dependencies | plans are levelled, cycle errors exactly for cycles |
| Memory streams (`memory/memory_store.py`, `repository.py`, `service.py`) | one JSON file per stream, a lock per store | `log_*`, `_next_id`, `append`, `_atomic_write` | every driver | threads, two stores over one directory, crashes, failing writes | no record lost, always readable, append order, ids follow positions |
| Loop controller (`agent/loop_controller.py`) | plan and position, failure counts, statistics, history | `run` | planner, executor, memory given to it | replanning, repairs, thresholds, failures between two updates | no step skipped or done twice, decisions obeyed, nothing counted twice, ends explained |
| Agent loop (`agent/agent_loop.py`, `retry.py`) | loop state, injected adaptations | `run`, four retried steps | planner, runner, memory | a step retried after it wrote part of its records | copies bounded, the whole account behind a run that returns, improvements earned |
| Improvement engine (`improvement/`) | none of its own; the decision stream, versions, cooldown | `run`, `select_actions`, `apply` | loop controller, legacy orchestrator; memory | every read and write may fail and is swallowed, several engines over one memory, cooldown counted in records | accepted improvements earned, versions and trend consistent, cooldown kept, what is applied is on record |
| Policy hook and audit log (`execution/hooks`, `audit`, `policy`) | audit file | `execute_with_policy`, `write_record` | loop controller's `ExecutionRunner` | a write that fails after the operation ran, partial writes, missing builtins | the audit agrees with what ran, reruns are explained |
| Execution sandbox (`execution/sandbox.py`) | process-wide builtins and environment, one lock | `execute` | executor | threads outside the lock see the restricted process | builtins and environment restored, the lock let go of |
| Self-improvement pipelines (`self_improvement/`) | none | pipelines over records | orchestrator, agent loop | records that retries repeat | improvements earned, one per target |
| Legacy orchestrator (`orchestration/`) | run context: status, memory references, errors in the trace | `run` | none in the new code; calls planner, runner, memory, agent loop, improvement engine | five stages that may raise, two executions of one goal | result and memory agree |
| Conflict resolver (`planning/conflict_resolver.py`) | none | `resolve` | agent loop | ties, repeated ids | the winner is the best, order irrelevant |
| Deployment, infrastructure, environment context, integrations | none between calls | build, validate, call a provider | runner, callers | a provider that raises | input and output only |
| Evaluation, feedback, adaptation, analysis, decomposition, loggers | none | scoring, text rules, templates, formatting | drivers | nothing concurrent | input and output only |

`PROJECT.json` lists each component with its sources, its status and the reason when it
is left out, and the hazards of the code at their lines.

## 2. Modules and the code

**`TaskRunner`**: `Runner.run` with the executor. A task is its position in
`ordered_tasks`; `deps` is any relation to earlier positions, which is what the
planner delivers (`PlanIsLevelled`). Actions follow the method: `ValidateContext`
and `Deploy` (each may raise), then per task one of `SkipAfterHalt`, `SkipBlocked` or
`StartTask`; `FinishTask` for each outcome `_normalize_result` tells apart;
`Interrupt` for what `except Exception` does not catch; `BuildReport`.

**`Orchestrator`** EXTENDS `TaskRunner`: `OrchestrationController.run`. `EnterPhase` is
the head of `_run_phase` with `transition_to`; `Succeeds` and `Fails` are its two
ways out, with `RecoveryManager.execute` folded in. With the default engine the
executing phase *is* `TaskRunner`, step by step; with injected engines
(`customEngines`) it is any report of `CustomReports`, `None`, or any failure category;
`CustomReports` is any set of `ExecutionReports`, the values that model can have: any
status, any counts that are not negative, any list of tasks, and no agreement between them. Every memory
write of `_reflect` and `store_improvements` is a step of its own and may fail.

**`PlanGraph`**: `build_execution_plan`. The recursive `_dfs` is a stack
machine (`DfsRoot`, `DfsCall`, `DfsBackEdge`, `DfsReturn`); the traversal is
`StartLevels`, `PopTask`, `EndLevel`, `Finish`. A dependency list is the number of
times it names each task, because `build` counts mentions (`Mentions`, one element for
each) and keeps a set. `MCPlanGraph` enumerates the lists.

**`AppendLog`** is the abstract promise of a stream: requests, atomic commits at the
end, returns, and calls abandoned by an error or a crash.

**`MemoryStore`**: one stream, down to the file operations. Names and files are
distinct, as in a directory: opening `.tmp` for writing empties the file behind the
name, whoever else has it open, and the rename moves the name. `NextId` is the read
of `_next_id`, which releases the lock; `BeginAppend` takes the lock and reads;
`OpenTmp`, `WriteTmp`, `Rename` are `_atomic_write`, with `WriteFails` and
`RenameFails`; `Return` leaves the `with` block; `Construct` is `_ensure_layout`;
`Crash` kills the process and keeps the directory. `StoreOf` says which store
instance a caller uses. `Stored == INSTANCE AppendLog WITH ...` is the refinement
mapping: the log is what the JSON file holds, the pending records those of callers
inside a `log_*` call. `MCMemoryStore` gives the callers one shared store or one each.

**`LoopController`**: `LoopController.run`, its iterations split where the code
can fail: `Plan`, `Execute`, `MakeDecision`, `Save`, `Conclude`; `StartRun`
retrieves memory and merges the statistics; `Restart` is a new process over the same
memory. The helpers that keep state (`IncrementStepFailure`, `AdvanceStep`,
`ReplaceCurrentStep`, `UpdateStats`) are operators of the code's names. Planner, executor
and memory are the protocols of the file, so a planner
returns any plan at any `current_step`, or what is no plan, on which the controller falls
back on the plan it has (`EnsurePlan`), a repair any step, a result any
classification. Scores are in hundredths. Of the statistics only attempts are kept:
successes are only ever recorded under `advance_step`, which is never scored.

**`AgentLoop`**: `AgentLoop.run`. `StartAttempt`, `Succeeds` and `Fails` are
`_run_step_with_retry` around the four operations. `_validate` and `_persist` are
sequences of writes (`FeedbackRecords`, `PersistedRecords`), of which `WriteRecord` takes
one and `WriteFails` makes one raise; a retried step writes from its beginning. The
report comes from any plan; that none of its tasks is skipped unless one failed is
what `TaskRunner` guarantees. Evaluation and feedback are operators on the report
(`Status`, `MatchType`, `FeedbackFailure`). `Improve`, `ImproveRaises` and `Improved` are the
self-improvement call inside the reflect step, with `Optimized` and `Approved` for what
its evaluator, optimizer and policy make of memory: of the records of this run, whose
copies count, and of the records of earlier runs, in `prior`. The engine asks for the latest
`Limit` of them all (`RecentPast`, `RecentOwn`), 200 in the code: so the records of a run push older ones
out of sight, and a run that succeeds may lower the rate of success by pushing out old successes. That
the latest are the last written assumes that the clock does not go back. The rate is rounded to four
digits, which moves no rate of at most 200 records across 0.8.

**`LegacyOrchestrator`** EXTENDS `AgentLoop`: `Orchestrator.run` of `app/orchestration`.
`PlanGoal`, `ExecutePlan`, `StoreRecord` and `Stored` come before the loop, `Reflect` and
`ApplyActions` after it. Both write to one memory, so a `StoreRecord` appends to the `prior`
that the loop's self-improvement finds. The actions that the improvement engine selects at the end are
kept nowhere; `ApplyActions` says only whether it raises. The stage `"none"` is the loop run by itself, so
that one run checks both. `MCAgentLoop` gives the pasts.

**`ImprovementEngine`**: `ImprovementEngine.run` with the call in
`LoopController._run_self_improvement`. A run is as many steps as it accesses memory:
`CheckCooldown`, `ReadBefore`, one `WriteEvent` per event, `ReadAfter`, `Gate`,
`ReadRollbackVersion`, `ReadVersion`, `WriteRecord`, `Apply`. Any of them may raise, which the
engine swallows for a default (`ReadOr`). Between them other engines, controllers
(`Observe`) and any number of callers of `MemoryService` (`Services`; `ServiceReads`, `ServiceSaves`), each
of which may be between its read and its save, use the same memory. The
analysis is computed: `Patterns`, `Approved`, `Metrics` and `Impact` from the number of
records of each kind, rates and impact in ten-thousandths, rounded as the code does. The two protocols are
a `MemoryStore`, and the `FileMemoryStore` of `build_default_loop_controller`, which has no
`read_all` and puts untyped records into the execution stream.

**`ExecutionHooks`**: `ExecutionRunner.run`, `execute_with_policy`, `PolicyValidator`,
`AuditLogger` and `ExecutionSandbox` in threads of one process. `EnterSandbox` to
`LeaveSandbox` take the lock and clear and refill the builtins and the environment one
after the other; any code of the hook that another thread runs meanwhile finds
names missing, which is a disjunct of its action. A request is a record of what the policy looks at and of
what its plan can bear (`plan`): anything, no `json.dumps`, or not even the `deepcopy` before the try
block (`Resolve`). `Prepare`, `Write`, `Continue`, `WriteFails`, `LenIsMissing` and `Close` are
`write_record`: the line is made and the file opened, or not; the line is in one piece, in two, half, or not at
all; and the loop around the writes, which looks up `len` before each and after the last, may not find it.

**`TaskRunnerProofs`, `OrchestratorProofs`, `PlanGraphProofs`, `MemoryStoreProofs`,
`LoopControllerProofs`, `AgentLoopProofs`, `ImprovementEngineProofs`,
`ExecutionHooksProofs`**: see section 5.

## 3. Runs

| Run | Checks | Bounds, and why they suffice |
|---|---|---|
| `orchestrator` | of the runner: type, `RanAfterAncestors`, `NothingRunsAfterFailure`, `SkipsAreJustified`, `ReportIsTruthful`, `SettledIsFinal`; of the whole: `CompletedRunIsWhole`, `EveryEndIsExplained`, `RetriesAreBounded`, `DefaultReportsValidate`, `MemoryMatchesReport`, `RunReturns` | 4 tasks, every relation: chains of three dependencies, diamonds, two branches, with and without `stop_on_failure`. Up to 2 approved adaptations: a store can fail between two improvements. Injected engines return every status with every total up to 2, other counts up to 1 and four lists of tasks (`MCCustomReports`), so that each check of the report can fail by itself and reports that contradict themselves pass. The safety properties are proved for every N and any reports. |
| `plan_graph` | `PlanIsLevelled`, `SearchFindsCycles`, `CycleErrorIsRight`, `PlanningEnds` | 4 tasks, up to 2 mentions per list: self-loops, cycles of 2 to 4, diamonds, three levels with ties, repeats, unknown ids. The safety properties are proved for every N and any lists. |
| `plan_graph_repeat` (violation) | `CycleErrorMeansCycle` | see findings |
| `memory_store` | type, `NoLostRecord`, `AlwaysReadable`, `IdsTrackPositions`, `Implements` (AppendLog), `LockIsReleased` | 2 threads, 1 store, 3 records each, 1 crash: a third record follows a failed one and a restart. The safety properties are proved for any number. |
| `memory_store_two` (violation) | `NoLostRecord` | 2 stores, 1 record each: see findings |
| `loop_controller` | `ProgressMatchesPlan`, `DecisionsAreFollowed`, `NothingCountedTwice`, `EndIsExplained` | 2 runs of up to 4 iterations, plans of up to 2 steps, thresholds 3 and 2. The run can reach repair before the failure threshold, replan after a success, meet a planner that has no other plan, and end on each of the four conditions; the second run merges what the first saved. Everything here is proved for any limits, plans and runs. |
| `loop_controller_retry` (violation) | `RetryIsDeprioritized` | one error type, same bounds |
| `agent_loop` | `CopiesAreBounded`, `ReturnedRunIsOnRecord`, `ImprovementsAreEarned`, `ResultAgreesWithMemory` | 2 tasks, 2 attempts: success, partial and failure reports, each write failing on each attempt, with each failure type. A third attempt, the code's default, does what the second does. The engine sees the latest 10 records; the past is empty, or longer than that: a decision (a violation or not) and ten successes that the records of the run push out of sight one by one, and behind them entries by which a run decides whether the rate is under 0.8. The loop runs by itself and under the legacy orchestrator. Everything here is proved for every N, any limits, threshold and past. |
| `agent_loop_improvement` (violation) | `ImprovementNeverBreaksARun` | same bounds: see findings |
| `improvement_engine` | `AcceptedIsEarned`, `RunsBuildOnEachOther`, `CooldownIsKept`, `HandedIsOnRecord`, `ServiceIsLockedOut` | Five sets of bounds (`MCBounds`): four runs in a row while three records arrive, which take a cooldown through its end; runs with two callers of `MemoryService`; with a fault; two runs at once over a history that changes; a run after two at once. Three kinds of records give every pattern, a rejected action, and impacts above and below the threshold. Everything here is proved for any number of engines, callers, runs, records and faults. |
| `improvement_engine_cooldown` (violation) | `CooldownLastsCycles` | same bounds: see findings |
| `execution_hooks` | `AuditTellsWhatRan`, `RerunIsExplained`, `ProcessIsRestored`, `EveryCallEnds` | Three sets of bounds (`MCBounds`): one thread with two calls, two faults, every kind of plan and a request the policy refuses; two threads with a fault; two threads of which one tries again. Two threads suffice for one to meet the sandbox of the other at every step. The safety properties are proved for any number of threads and calls. |

Deadlock is checked in every run: an ended system stutters in an explicit action
(`Done`, `Quiet`), so a state from which the code could not go on would
be reported.

Each property of a passing run has a mutant in `PROJECT.json`: an operator of the
module that changes one mapped definition as a slip in the code would (a halt that
is not set, a cooldown off by one, a lock not released, statistics that add up
what they should merge), under which TLC finds the property violated.

**Fairness.** `Orchestrator`, with the runner in it, and `PlanGraph` are one thread of
straight-line code: weak fairness of the whole step says only that the interpreter
goes on, and handlers, engines and memory calls are assumed to return or raise,
since nothing in the code bounds their time. In `MemoryStore` weak fairness is on the
file operations of each writer and on its return, which is what a system call
does; nothing is assumed about who gets a lock next, and no liveness is claimed that
would need it. `LoopController` and `AgentLoop` have no liveness property: `EndIsExplained` and
`CopiesAreBounded` bound their work as safety properties; `ImprovementEngine` runs in the thread
of its controller, and its steps always have a successor. In `ExecutionHooks` weak
fairness is on the steps of a thread inside a call: engines, handlers and writes are
assumed to return. That a thread waiting for the sandbox lock gets it needs no more, since
the number of calls is bounded.

## 4. Findings

- A dependency listed twice makes an acyclic plan fail with `PlanningCycleError`
  (`app/planning/graph.py:53`).
- Two stores over one directory lose records whose `log_*` call returned
  (`app/memory/memory_store.py:96`): the constructor of the second store, which takes no lock,
  empties the temporary file that a caller of the first has written and is about to rename.
  Two appends through two stores overlap in other ways (line 32). `MemoryService()` makes a store of
  its own over the same default directory each time.
- Repeated failed retries do not put `retry_same` behind the other candidates
  (`app/agent/loop_controller.py:813`): the later sort by score forgets the order.
- An exception of the self-improvement engine that is not transient ends
  `AgentLoop.run` (`app/agent/agent_loop.py:584`), after the run has been executed and
  recorded; the repository's README (line 1156) says none may break the result.

- The cooldown of the improvement engine counts records (`app/improvement/engine.py:412`), and
  a blocked run writes an event per rejected action, a cooldown event and its record. One blocked run
  can use a cooldown of three up, where line 31 and `AGENT_33_GAPS_IMPLEMENTATION.md:79` promise three
  cycles (`CooldownLastsCycles`). `CooldownIsKept` states what the code keeps instead: nothing is
  applied before three records are there, which at most two undisturbed runs use up.

The retried steps of `AgentLoop` write some records again. That is not a finding: the
repository's README (line 1144) declares memory append-only and non-idempotent.
`CopiesAreBounded` says how far the repetition can go.

Behaviour that surprises, and that the properties state as it is:

- `run` of the core orchestrator may return a status that is not terminal
  (`app/core/orchestrator.py:145`): an injected engine that returns `None` is taken for a
  failed phase, though the phase was traced as completed and no transition to FAILED made.
  `EveryEndIsExplained` allows this case only; the docstring of `status` (line 94) speaks of a
  terminal state.
- The engine measures before and after within one call, without applying anything in
  between: an improvement is only ever accepted or rolled back because others wrote to
  the history meanwhile, or because a read of it failed (`AcceptedIsEarned`). A rollback
  restores nothing; it is logged.
- One record of `FileMemoryStore` has no type and locks every `MemoryService` out of the
  stream, but for the calls that have read it before (`ServiceIsLockedOut`), although the two share a directory by default.
- An operation that has run, and whose audit record could not be written, is recorded as
  a failure or not at all, and is retried (`AuditTellsWhatRan`, `RerunIsExplained`). An operation on a plan
  that `json.dumps` refuses (`app/execution/audit/audit_logger.py:38`) runs and never has a record: the
  failure record made for the success record that raised holds the same plan and raises too, and the
  `TypeError` or `ValueError` makes the result an invalid plan, which is final. The repository's README
  (lines 1875 and 1876) speaks of a record of each. So is one that met the sandbox of another
  thread; it can even have both records, a success whose line was whole when `len` was gone, and the failure
  made of that.
- The legacy orchestrator executes a goal twice, once itself and once in its agent loop
  (`ResultAgreesWithMemory` relates the two).

## 5. Proofs

**`TaskRunnerProofs`**, for every N. `RunnerInv` adds to the checked properties what
makes them inductive: dependencies are earlier (`DepsAreEarlier`), tasks before `next`
are settled and those behind it are pending (`Walk`), a halted run has a failure behind
it (`HaltMeansFailure`), a task that ran has completed *direct* dependencies
(`RanAfterDeps`), and the report is that of the statuses (`ReportIsOfStatus`). The
step from direct dependencies to ancestors uses the definition of `Ancestors` by closed
sets: the completed tasks with what they stand on form a closed set, so no
induction is needed. `ReportIsTruthful` rests on a lemma that the counts of a
partition add up. Proved: `RunnerTypeCorrect`, `RanAfterAncestorsHolds`,
`NothingRunsAfterFailureHolds`, `SkipsAreJustifiedHolds`, `ReportIsTruthfulHolds`,
`SettledIsFinalHolds`.

**`MemoryStoreProofs`**, for any number of callers, records and crashes, from
`StoreAssumption` and, as a hypothesis of every theorem, `OneStore`: all callers share
one instance, without which `memory_store_two` shows `NoLostRecord` to be false. The
invariant `StoreInv` has three layers. `Construction` and `Locking` leave at most one
writer inside `_atomic_write`. So (`Descriptors`, `TwoFiles`, `Payloads`) what it read,
wrote and is about to rename is still current. So (`Keys`, `PendingIds`) the
stream changes by one record at a time and ids follow positions. `Keys` is also why
`TypeOK` needs the whole invariant: an id is in range because the records of the
stream are distinct by caller and number, and there are at most
`Cardinality(Callers) * MaxLogs` of them. Proved: `NoLostRecordHolds`,
`AlwaysReadableHolds`, `IdsTrackPositionsHolds`, `StoreTypeCorrect`, and
`StoreImplementsLog`: every step is a request, a commit (the rename), a return, an
abandonment (a failure or a crash) or a stutter of `AppendLog`.

**`OrchestratorProofs`**, for every N, any number of approved adaptations and any reports of
injected engines (`CustomReports`), from `CustomReportsAssumption`. EXTENDS `TaskRunnerProofs`: `OrchInv` carries
`RunnerInv` along and reads the rest of the state off `pc` and `phase`. `Position` says which
transitions and traces there are (`Underway`, `NoneReturned`, `PhaseFailed`, `Finished` are all
the places a run can be in), `AttemptsShape` that the recovery attempts are at most one retry in
executing and the attempt that failed, which is where the bound of `RetriesAreBounded` comes from, `DefaultReport`
that without injected engines the report is the runner's, `ReportShape` how far the report is checked, `MemoryShape`
what memory and the list of ids hold as a prefix of `ReflectionRecords`. None of the properties is
inductive, since each speaks of the end of a run only. `DefaultReportsValidate` rests on
`ReportIsTruthful` of the runner. Proved: `CompletedRunIsWholeHolds`, `RetriesAreBoundedHolds`,
`DefaultReportsValidateHolds`, `EveryEndIsExplainedHolds`, `MemoryMatchesReportHolds`, and
`OrchestratorRunsTheRunner`: every step of the orchestrator is a step of `TaskRunner` or leaves it
alone.

**`PlanGraphProofs`**, for every N and any dependency lists. No argument follows a path, so
none needs induction over data. `FinishedIsAcyclic`: the tasks whose call of `_dfs` has returned are
closed under dependents, and every nonempty set of them has a task that depends on none of the set;
a return preserves both, and when every task is finished that is acyclicity. `StackIsPath` makes a
back edge close a circle, a piece of the stack, which is why `CycleErrorIsRight` holds in the
search. `GraphIsBuilt` keeps `in_degree` equal to the number of mentions a task is still owed
(`Owed`), of which repeated ones never go away. So a traversal that gets stuck leaves a set in which
every task waits for another: repeated dependencies, or a cycle, which the search has excluded.
`LevelsInv` puts each task just behind what it depends on. What `FlattenSeq` of the community modules
returns is defined by recursion; `FlattenIs` gets its equations from least counterexamples, with
`WFMin`. Proved: `SearchFindsCyclesHolds`, `CycleErrorIsRightHolds`, `PlanIsLevelledHolds`.

**`LoopControllerProofs`**, for plans of every size, any limits and thresholds (positive ones: the
code takes 0 without complaint and then does what it does for 1), any number of runs and
restarts. `LoopInv` states at each place of an iteration how plan, counters and statistics stand to the
history: the decision is about the last result and the plan stands where it leaves it (`Decided`,
`OnRecord`), consecutive entries follow one another (`FollowInv`), the position is the start plus the
number of successes under the plan (`ProgressInv`), failures and failures of a step are what the history
has and at most one more (`CountInv`), a step is repaired exactly when it
is due (`RepairInv`), the end has its reason (`EndInv`), the
statistics are at most what memory held and this process has not saved (`StatsInv`). That `abort` is never
chosen is arithmetic: `ScoresAreBounded` bounds every score and `NeverAborts` compares them. Proved:
`LoopTypeCorrect`, `ProgressMatchesPlanHolds`, `DecisionsAreFollowedHolds`,
`NothingCountedTwiceHolds`, `EndIsExplainedHolds`.

**`AgentLoopProofs`**, for plans of every size, any number of attempts, any threshold and past, from
`AgentAssumption`. It extends `LegacyOrchestrator`, so that its invariant `LegacyInv` holds of the loop
with and without the orchestrator around it. Its heart, `CopiesInv`, says what the attempts of a step
leave behind: each earlier one a prefix of the records of the step that is never all of them, the
one under way as many as it has written (`Now`). So the number of copies that are owed to earlier
attempts (`Earlier`) falls along the records, is bounded by the attempts and is zero for the last; that
is inductive, and `CopiesAreBounded` by itself is not. `Comes` says where each record is from,
`AccountInv` that the account stands at the end, or right before the improvements, `ImproveInv` that
improvements stored or still to store are earned and different, and `EarnedStays` that earned they remain,
since a horizon of the past that was possible stays possible while the run writes on. That copies mislead no
one (`EvidenceIsGood`) is a count of the records in sight: of a run that succeeded every
`record_execution` entry is a success, the one summary per attempt is too, and if any of the past is
in sight then so are all of the run's own, at least two of them. The report's records depend on its statuses, which never change
once the execute step is over; `FeedbackIsGood` and `AccountIsGood` say all the proof uses of them. In
the orchestrator, `RefsInv`, `RememberedInv` and `StageInv` follow what each stage leaves, `OutcomeInv` relates the
result to both executions. Proved: `CopiesAreBoundedHolds`, `ReturnedRunIsOnRecordHolds`,
`ImprovementsAreEarnedHolds`, `ResultAgreesWithMemoryHolds`, and the first three of `AgentLoop`'s own
specification in `LoopAloneIsSafe`.

**`ImprovementEngineProofs`**, for any number of engines, runs, controllers' and services' records,
any finite set of kinds of records and any cooldown. `EngineInv` says what a run under way has read and
written in terms of the log as it was when the run started (`from`): entries are only appended, so what held
of those still holds when the record is written and ever after. `RunOK` is about each engine
(`AnnounceOK`: what is announced and what is left add up; `EarnedOK`: two readings of an undisturbed
history agree, so their impact is 0; `BuildOK`: versions and trend are those of the log, while the run is
`Alone`), `LogInv` about each record, `ServiceInv` about what each caller of `MemoryService` saved behind the first
untyped record: at most the one call that was between its read and its save (`Late`). `CooldownIsKept` counts blocked runs: each of them writes a cooldown event and a record
before the next one starts (`BlockedAreFew`). Proved: `EngineTypeCorrect`, `AcceptedIsEarnedHolds`,
`HandedIsOnRecordHolds`, `ServiceIsLockedOutHolds`, `RunsBuildOnEachOtherHolds`,
`CooldownIsKeptHolds`.

**`ExecutionHooksProofs`**, for any set of threads, any requests and kinds of plans, any policy, calls and faults.
`SandboxInv` reads builtins and environment off the place of the one thread that holds the lock;
`CallInv` is what a call knows of itself at each place of `execute_with_policy`; `RecordInv` which records have
been begun on its account, `EndedInv` which of them are left when it ended (a failure of an
operation that returned only where the call is `Marked`, that is disturbed or failed, and none of a plan
`json.dumps` refuses), `BegunOnce` and
`Numbered` that no two calls share one. `RetryInv` makes `RerunIsExplained` inductive: no call of
an operation follows one that settled it. Proved: `HooksTypeCorrect`, `ProcessIsRestoredHolds`,
`RerunIsExplainedHolds`, `AuditTellsWhatRanHolds`.

Every invariant that a passing run checks, and every action property, is thereby proved from the
assumptions its module names; TLC evaluates those on each run. The bounds of the runs
concern the liveness properties and the mutants only.

**Model-checked only.** Liveness, which needs fairness and ENABLED and is out of the prover's reach:
`RunReturns`, `PlanningEnds`, `LockIsReleased`, `EveryCallEnds`. The two proved
refinements (`StoreImplementsLog`, `OrchestratorRunsTheRunner`) are of the safety parts. The properties of
the runs that expect a violation are false and stay with TLC, which shows how.

## 6. Not modelled

Within modelled components: the text of errors, logs, timestamps and digests; `select_actions` and `apply` of the
improvement engine, which keep no state and whose result the legacy orchestrator stores nowhere but in its answer; the
read-only queries of the memory service; durability without `fsync` (a crash of the
process is modelled, loss of power is not); what an improvement applier does with a
plan (there is none by default); the effect of the self-improvement call on a run of
`LoopController`, which swallows whatever it raises and reads nothing back; the depth of Python's stack in `_dfs`. Whole components are
listed in section 1 and, with reasons, in `PROJECT.json`: the ones that are input and
output only have no state a model would add to. `ConflictResolver`, `AdaptationPolicy` and
`TaskDecomposer` are selections and templates over one list. `app/agent/self_improvement.py`
is imported by no module of the program.

## 7. Plan

The order of building so far was `TaskRunner`, `Orchestrator`, `PlanGraph`, `AppendLog`
and `MemoryStore`, `LoopController`, `AgentLoop`, `ImprovementEngine`, `ExecutionHooks`,
`LegacyOrchestrator`, and of proving `TaskRunner`, `MemoryStore`, `Orchestrator`,
`ExecutionHooks`, `LoopController`, `ImprovementEngine`, `PlanGraph`, `AgentLoop` with
`LegacyOrchestrator`. Every component with state of its own has its model, and every safety property its
theorem.

Next: abstract specifications with refinements to prove. An audit trail that `ExecutionHooks`
implements (records of calls, begun and completed); a run of five phases that `Orchestrator`
implements; `PlanGraph`'s result as the assumption `TaskRunner` makes of its `deps`, stated
as a theorem about the two modules together. Where a liveness property rests on a measure that only
falls (tasks left to settle in `TaskRunner`, attempts left in `AgentLoop`), the measure's
decrease is an action property, and can be proved.
