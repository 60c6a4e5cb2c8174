---------------------------- MODULE TaskRunner ----------------------------
(***************************************************************************)
(* One call of Runner.run (app/execution/runner.py) with the Executor it   *)
(* delegates to (app/execution/executor.py): validate the environment      *)
(* context, deploy infrastructure, then walk the plan in ordered_tasks     *)
(* order, skipping, running and failing tasks, and build the report.       *)
(*                                                                         *)
(* A task is its position in ordered_tasks.  The order of a dependency     *)
(* list decides only which blocking dependency a skip names, so deps[t]    *)
(* is a set and the skip names any blocking member of it.                  *)
(***************************************************************************)
EXTENDS Integers, FiniteSets

CONSTANT N                       \* plan.metadata.total_tasks

ASSUME NAssumption == N \in Nat

Tasks == 1..N

Settled  == {"completed", "failed", "skipped"}
Statuses == Settled \cup {"pending", "running"}

\* The values of skip_reason: the task whose id "dependency_failed:<id>" holds,
\* or one of these two numbers that are no task.
NoReason == 0
Halted   == N + 1                \* "run_halted_after_failure"
NoReport == [status |-> "none"]

\* What a handler does, as Executor sees it through _normalize_result: a
\* success or any plain value, a pair whose flag is false, an exception.
Outcomes == {"ok", "false", "raise"}

\* The run is over: it returned a report, raised, or was interrupted by an
\* exception that is not an Exception (KeyboardInterrupt, SystemExit).
Over == {"returned", "raised", "interrupted"}

VARIABLES
    deps,           \* task.dependencies, by task
    stopOnFailure,  \* Runner.stop_on_failure
    runState,       \* where Runner.run is
    status,         \* ExecutionTask.status, by task
    skipReason,     \* ExecutionTask.skip_reason, by task
    next,           \* the task of the current loop iteration
    halted,         \* the local flag of Runner.run
    report          \* the ExecutionReport returned, or NoReport

runnerVars ==
    <<deps, stopOnFailure, runState, status, skipReason, next, halted, report>>

Reports ==
    {NoReport} \cup
    [status : {"completed", "failed"}, total : Nat, completed : Nat,
     failed : Nat, skipped : Nat, tasks : [Tasks -> Statuses]]

RunnerTypeOK ==
    /\ deps \in [Tasks -> SUBSET Tasks]
    /\ stopOnFailure \in BOOLEAN
    /\ runState \in {"validate", "deploy", "loop", "handler"} \cup Over
    /\ status \in [Tasks -> Statuses]
    /\ skipReason \in [Tasks -> 0..(N + 1)]
    /\ next \in 1..(N + 1)
    /\ halted \in BOOLEAN
    /\ report \in Reports

-----------------------------------------------------------------------------
\* Fresh ExecutionTasks, as each call of run makes them from the plan's nodes.
FreshRun ==
    /\ runState = "validate"
    /\ status = [t \in Tasks |-> "pending"]
    /\ skipReason = [t \in Tasks |-> NoReason]
    /\ next = 1
    /\ halted = FALSE
    /\ report = NoReport

\* The planner orders every task after its dependencies (module PlanGraph).
RunnerInit ==
    /\ deps \in [Tasks -> SUBSET Tasks]
    /\ \A t \in Tasks : \A d \in deps[t] : d < t
    /\ stopOnFailure \in BOOLEAN
    /\ FreshRun

-----------------------------------------------------------------------------
\* _validate_environment_context runs before the try block and may raise.
ValidateContext ==
    /\ runState = "validate"
    /\ runState' \in {"deploy", "raised"}
    /\ UNCHANGED <<deps, stopOnFailure, status, skipReason, next, halted, report>>

\* get_provider and provider.deploy: both may raise, and run re-raises.
Deploy ==
    /\ runState = "deploy"
    /\ runState' \in {"loop", "raised"}
    /\ UNCHANGED <<deps, stopOnFailure, status, skipReason, next, halted, report>>

\* _find_blocking_dependency: the dependencies one of which it returns.
Blocking(t) == {d \in deps[t] : status[d] # "completed"}

Skip(t, why, halt) ==
    /\ status' = [status EXCEPT ![t] = "skipped"]
    /\ skipReason' = [skipReason EXCEPT ![t] = why]
    /\ halted' = halt
    /\ next' = next + 1
    /\ UNCHANGED <<deps, stopOnFailure, runState, report>>

\* The run is halted: the task is skipped whatever its dependencies did,
\* and they only choose the reason.
SkipAfterHalt ==
    /\ runState = "loop" /\ next <= N
    /\ halted
    /\ \/ \E d \in Blocking(next) : Skip(next, d, TRUE)
       \/ Blocking(next) = {} /\ Skip(next, Halted, TRUE)

SkipBlocked_AlwaysHalts ==
    /\ runState = "loop" /\ next <= N
    /\ ~halted
    /\ \E d \in Blocking(next) : Skip(next, d, TRUE)

SkipBlocked ==
    /\ runState = "loop" /\ next <= N
    /\ ~halted
    /\ \E d \in Blocking(next) : Skip(next, d, stopOnFailure)

StartTask_FailedDepsOnly ==
    /\ runState = "loop" /\ next <= N
    /\ ~halted
    /\ \A d \in deps[next] : status[d] # "failed"
    /\ runState' = "handler"
    /\ status' = [status EXCEPT ![next] = "running"]
    /\ skipReason' = [skipReason EXCEPT ![next] = NoReason]
    /\ UNCHANGED <<deps, stopOnFailure, next, halted, report>>

\* Executor.execute_task up to the call of the handler in the sandbox.
StartTask ==
    /\ runState = "loop" /\ next <= N
    /\ ~halted
    /\ Blocking(next) = {}
    /\ runState' = "handler"
    /\ status' = [status EXCEPT ![next] = "running"]
    /\ skipReason' = [skipReason EXCEPT ![next] = NoReason]
    /\ UNCHANGED <<deps, stopOnFailure, next, halted, report>>

FinishTask_NeverHalts(outcome) ==
    /\ runState = "handler"
    /\ status' = [status EXCEPT ![next] =
                     IF outcome = "ok" THEN "completed" ELSE "failed"]
    /\ next' = next + 1
    /\ runState' = "loop"
    /\ UNCHANGED <<deps, stopOnFailure, skipReason, halted, report>>

FinishTask_Redo(outcome) ==
    /\ runState = "handler"
    /\ status' = [status EXCEPT ![next] =
                     IF outcome = "ok" THEN "completed" ELSE "failed"]
    /\ halted' = (halted \/ (stopOnFailure /\ outcome # "ok"))
    /\ runState' = "loop"
    /\ UNCHANGED <<deps, stopOnFailure, skipReason, next, report>>

FinishTask_RawOutcome(outcome) ==
    /\ runState = "handler"
    /\ status' = [status EXCEPT ![next] = outcome]
    /\ halted' = (halted \/ (stopOnFailure /\ outcome # "ok"))
    /\ next' = next + 1
    /\ runState' = "loop"
    /\ UNCHANGED <<deps, stopOnFailure, skipReason, report>>

\* The handler returned or raised an Exception: execute_task settles the
\* task, and a failure halts a run that stops on failure.
FinishTask(outcome) ==
    /\ runState = "handler"
    /\ status' = [status EXCEPT ![next] =
                     IF outcome = "ok" THEN "completed" ELSE "failed"]
    /\ halted' = (halted \/ (stopOnFailure /\ outcome # "ok"))
    /\ next' = next + 1
    /\ runState' = "loop"
    /\ UNCHANGED <<deps, stopOnFailure, skipReason, report>>

\* execute_task catches Exception only: anything else leaves the task RUNNING
\* and unwinds run without a report.
Interrupt ==
    /\ runState = "handler"
    /\ runState' = "interrupted"
    /\ UNCHANGED <<deps, stopOnFailure, status, skipReason, next, halted, report>>

-----------------------------------------------------------------------------
CountOf(st, s) == Cardinality({t \in Tasks : st[t] = s})

ReportOf_DropsSkipped(st) ==
    [status    |-> IF CountOf(st, "failed") > 0 THEN "failed" ELSE "completed",
     total     |-> N,
     completed |-> CountOf(st, "completed"),
     failed    |-> CountOf(st, "failed"),
     skipped   |-> 0,
     tasks     |-> st]

\* _build_report
ReportOf(st) ==
    [status    |-> IF \/ CountOf(st, "failed") > 0
                      \/ CountOf(st, "skipped") > 0 /\ CountOf(st, "completed") < N
                   THEN "failed" ELSE "completed",
     total     |-> N,
     completed |-> CountOf(st, "completed"),
     failed    |-> CountOf(st, "failed"),
     skipped   |-> CountOf(st, "skipped"),
     tasks     |-> st]

BuildReport ==
    /\ runState = "loop" /\ next = N + 1
    /\ report' = ReportOf(status)
    /\ runState' = "returned"
    /\ UNCHANGED <<deps, stopOnFailure, status, skipReason, next, halted>>

-----------------------------------------------------------------------------
\* Runner.run outside the handlers' own code.
RunnerStep ==
    \/ ValidateContext
    \/ Deploy
    \/ SkipAfterHalt
    \/ SkipBlocked
    \/ StartTask
    \/ BuildReport

HandlerStep == (\E o \in Outcomes : FinishTask(o)) \/ Interrupt

RunnerDone == runState \in Over /\ UNCHANGED runnerVars

RunnerNext == RunnerStep \/ HandlerStep \/ RunnerDone

RunnerSpec == RunnerInit /\ [][RunnerNext]_runnerVars

-----------------------------------------------------------------------------
\* t and everything it depends on, through any number of dependencies: what
\* belongs to every set that holds t and is closed under dependencies.
Ancestors(t) ==
    {a \in Tasks :
        \A S \in SUBSET Tasks :
            (t \in S /\ \A u \in S : deps[u] \subseteq S) => a \in S}

Ran(t) == status[t] \in {"running", "completed", "failed"}

\* A handler is called only when everything its task depends on, directly or
\* through other tasks, has COMPLETED: the single look at the direct
\* dependencies in _find_blocking_dependency is enough for the whole chain.
RanAfterAncestors ==
    \A t \in Tasks : Ran(t) =>
        \A a \in Ancestors(t) \ {t} : status[a] = "completed"

\* With stop_on_failure no handler runs after the first failure, so a run
\* holds at most one FAILED task and nothing ran behind it in plan order.
NothingRunsAfterFailure ==
    stopOnFailure =>
        \A f, t \in Tasks : status[f] = "failed" /\ t > f => ~Ran(t)

\* A skip is never spurious.  Without stop_on_failure a skipped task has a
\* FAILED ancestor; with it some earlier task FAILED.  The reason recorded in
\* skip_reason is true of the statuses: a named dependency did not complete,
\* and "run_halted_after_failure" is used only when no dependency is to blame.
SkipsAreJustified ==
    \A t \in Tasks : status[t] = "skipped" =>
        /\ \/ \E a \in Ancestors(t) : status[a] = "failed"
           \/ stopOnFailure /\ \E f \in Tasks : f < t /\ status[f] = "failed"
        /\ \/ skipReason[t] \in deps[t] /\ status[skipReason[t]] \in {"failed", "skipped"}
           \/ skipReason[t] = Halted /\ \A d \in deps[t] : status[d] = "completed"

\* What OrchestrationController._validate_execution_report demands of a report
\* (app/core/orchestrator.py).
AcceptedReport(r) ==
    /\ r.total = Cardinality(DOMAIN r.tasks)
    /\ r.completed + r.failed + r.skipped = r.total
    /\ r.failed > 0 => r.status = "failed"
    /\ r.failed = 0 /\ r.skipped = 0 => r.status = "completed"

\* The report a run returns passes the orchestrator's validation, and it says
\* "completed" exactly when every task of the plan completed: a run with
\* skipped tasks is never reported as a success.
ReportIsTruthful ==
    report # NoReport =>
        /\ AcceptedReport(report)
        /\ report.tasks = status
        /\ report.status = "completed" <=> \A t \in Tasks : status[t] = "completed"

\* A settled task keeps its status and its reason for the rest of the run.
SettledIsFinal ==
    [][\A t \in Tasks : status[t] \in Settled =>
          status'[t] = status[t] /\ skipReason'[t] = skipReason[t]]_runnerVars
=============================================================================
