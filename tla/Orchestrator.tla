--------------------------- MODULE Orchestrator ---------------------------
(***************************************************************************)
(* One call of OrchestrationController.run (app/core/orchestrator.py) with *)
(* the state machine it drives (app/core/state.py) and the recovery        *)
(* manager each phase runs under (app/core/recovery.py).                   *)
(*                                                                         *)
(* The default execution engine is run_plan, so the executing phase takes  *)
(* the steps of module TaskRunner.  Nothing run_plan raises is one of the  *)
(* classes recovery.py retries.  The constructor also accepts any other    *)
(* planning and execution engine: customEngines says that the run uses     *)
(* such engines, which may return None, raise any failure category, and    *)
(* return any ExecutionReport: its fields need not agree with each other.  *)
(***************************************************************************)
EXTENDS TaskRunner, Sequences

CONSTANTS
    MaxApproved,      \* bound on the adaptations one improvement approves
    CustomReports     \* what an injected execution engine may return

\* The values of the ExecutionReport model: any status, counts that are not
\* negative, and any list of tasks.
ExecutionReports ==
    [status : Statuses, total : Nat, completed : Nat, failed : Nat, skipped : Nat,
     tasks : Seq(Statuses)]

ASSUME MaxApprovedAssumption == MaxApproved \in Nat
ASSUME CustomReportsAssumption == CustomReports \subseteq ExecutionReports

Phases == <<"planning", "executing", "validating", "reflecting", "improving">>

Terminal == {"completed", "failed"}

\* _ALLOWED_TRANSITIONS
Allowed(s) ==
    CASE s = "initialized" -> {"planning", "failed"}
      [] s = "planning"    -> {"executing", "failed"}
      [] s = "executing"   -> {"validating", "failed"}
      [] s = "validating"  -> {"reflecting", "failed"}
      [] s = "reflecting"  -> {"improving", "failed"}
      [] s = "improving"   -> {"completed", "failed"}
      [] OTHER             -> {}

\* FailureCategory; categorize_failure maps any exception it does not know to
\* "deterministic".
Categories == {"transient", "deterministic", "policy_violation"}

VARIABLES
    customEngines,  \* injected planning and execution engines
    phase,          \* index in Phases of the phase run is at; 6 is past the last
    pc,             \* "enter" a phase, in its "operation", or how run ended
    sysState,       \* SystemStateMachine.state
    transitions,    \* the to_state of each SystemStateMachine transition
    attempt,        \* attempt_number of RecoveryManager.execute
    attempts,       \* recovery_attempts
    traces,         \* phase_traces
    execReport,     \* execution_report, NoReport while there is none
    approved,       \* adaptations still to store; -1 before the runner returned
    saved,          \* the local list of store_improvements
    stored,         \* records this run has appended to memory
    listed,         \* memory_record_ids, as the records they name
    error           \* OrchestrationResult.error

orchVars ==
    <<customEngines, phase, pc, sysState, transitions, attempt, attempts,
      traces, execReport, approved, saved, stored, listed, error>>

vars == <<runnerVars, orchVars>>

memory == <<approved, saved, stored, listed>>

\* A memory record: its stream, and the task and status it is about.
Record(kind, t, s) == [kind |-> kind, task |-> t, status |-> s]

Ended == {"returned", "crashed", "interrupted"}

Init ==
    /\ RunnerInit
    /\ customEngines \in BOOLEAN
    /\ phase = 1 /\ pc = "enter"
    /\ sysState = "initialized" /\ transitions = <<>>
    /\ attempt = 1 /\ attempts = <<>>
    /\ traces = <<>>
    /\ execReport = NoReport
    /\ approved = -1 /\ saved = <<>>
    /\ stored = <<>> /\ listed = <<>>
    /\ error = ""

-----------------------------------------------------------------------------
(***************************************************************************)
(* The state machine.                                                      *)
(***************************************************************************)

\* transition_to: an InvalidStateTransitionError is caught nowhere in run.
TransitionTo(s, then) ==
    IF s \in Allowed(sysState)
    THEN /\ sysState' = s
         /\ transitions' = Append(transitions, s)
         /\ pc' = then
    ELSE /\ pc' = "crashed"
         /\ UNCHANGED <<sysState, transitions>>

\* The start of _run_phase.
EnterPhase ==
    /\ pc = "enter" /\ phase <= 5
    /\ TransitionTo(Phases[phase], "operation")
    /\ attempt' = 1
    /\ UNCHANGED <<runnerVars, customEngines, phase, attempts, traces, execReport,
                   memory, error>>

InPhase(name) == pc = "operation" /\ Phases[phase] = name

Trace(s) == traces' = Append(traces, [phase |-> Phases[phase], status |-> s])

\* The operation returned: the phase is traced as completed, and run takes its
\* early return when the value it got back is None.
Succeeds(isNone) ==
    /\ Trace("completed")
    /\ IF isNone
       THEN pc' = "returned" /\ error' = "orchestration_failed" /\ phase' = phase
       ELSE pc' = "enter" /\ phase' = phase + 1 /\ UNCHANGED error
    /\ UNCHANGED <<customEngines, sysState, transitions, attempt, attempts>>

\* RetryPolicy.max_retries: _EXECUTION_RETRY for executing, _NO_RETRY elsewhere.
MaxRetries == IF Phases[phase] = "executing" THEN 1 ELSE 0

WillRetry_OneMore(category) == category = "transient" /\ attempt <= MaxRetries + 1

WillRetry(category) == category = "transient" /\ attempt <= MaxRetries

Fails_KeepsGoing(category) ==
    /\ attempts' = Append(attempts, [phase |-> Phases[phase], number |-> attempt,
                                     category |-> category,
                                     willRetry |-> WillRetry(category)])
    /\ IF WillRetry(category)
       THEN /\ attempt' = attempt + 1
            /\ UNCHANGED <<pc, sysState, transitions, traces, error, phase>>
       ELSE /\ Trace("failed")
            /\ TransitionTo("failed", "enter")
            /\ error' \in {"phase_error", "orchestration_failed"}
            /\ phase' = phase + 1
            /\ UNCHANGED attempt
    /\ UNCHANGED customEngines

\* The operation raised: RecoveryManager.execute records the attempt and goes
\* round again, or gives up and _run_phase fails the run.  _phase_error replaces
\* the text of an exception that has none.
Fails(category) ==
    /\ attempts' = Append(attempts, [phase |-> Phases[phase], number |-> attempt,
                                     category |-> category,
                                     willRetry |-> WillRetry(category)])
    /\ IF WillRetry(category)
       THEN /\ attempt' = attempt + 1
            /\ UNCHANGED <<pc, sysState, transitions, traces, error>>
       ELSE /\ Trace("failed")
            /\ TransitionTo("failed", "returned")
            /\ error' \in {"phase_error", "orchestration_failed"}
            /\ UNCHANGED attempt
    /\ UNCHANGED <<customEngines, phase>>

-----------------------------------------------------------------------------
(***************************************************************************)
(* The five operations.                                                    *)
(***************************************************************************)

\* build_execution_plan returns a plan or raises a planning error.
Plan ==
    /\ InPhase("planning")
    /\ \/ \E isNone \in IF customEngines THEN BOOLEAN ELSE {FALSE} : Succeeds(isNone)
       \/ \E c \in IF customEngines THEN Categories ELSE {"deterministic"} : Fails(c)
    /\ UNCHANGED <<runnerVars, execReport, memory>>

\* The default engine: Runner.run of module TaskRunner, one step at a time.
RunPlanStep ==
    /\ InPhase("executing") /\ ~customEngines
    /\ RunnerStep \/ HandlerStep
    /\ UNCHANGED orchVars

RunPlanReturns ==
    /\ InPhase("executing") /\ ~customEngines
    /\ runState = "returned"
    /\ Succeeds(FALSE)
    /\ execReport' = report
    /\ UNCHANGED <<runnerVars, memory>>

\* No exception of Runner.run is one of recovery.py's classes.
RunPlanRaises ==
    /\ InPhase("executing") /\ ~customEngines
    /\ runState = "raised"
    /\ Fails("deterministic")
    /\ UNCHANGED <<runnerVars, execReport, memory>>

\* RecoveryManager catches Exception only.
RunPlanInterrupted ==
    /\ InPhase("executing") /\ ~customEngines
    /\ runState = "interrupted"
    /\ pc' = "interrupted"
    /\ UNCHANGED <<runnerVars, customEngines, phase, sysState, transitions, attempt,
                   attempts, traces, execReport, memory, error>>

CustomEngine ==
    /\ InPhase("executing") /\ customEngines
    /\ \/ \E r \in CustomReports : Succeeds(FALSE) /\ execReport' = r
       \/ Succeeds(TRUE) /\ UNCHANGED execReport
       \/ \E c \in Categories : Fails(c) /\ UNCHANGED execReport
    /\ UNCHANGED <<runnerVars, memory>>

Validate_Skipped ==
    /\ InPhase("validating")
    /\ Succeeds(FALSE)
    /\ UNCHANGED <<runnerVars, execReport, memory>>

\* _validate_execution_report
Validate ==
    /\ InPhase("validating")
    /\ IF AcceptedReport(execReport) THEN Succeeds(FALSE) ELSE Fails("deterministic")
    /\ UNCHANGED <<runnerVars, execReport, memory>>

\* The records _reflect logs, in its order.
ReflectionRecords(r) ==
    <<Record("execution", 0, r.status)>>
    \o [t \in DOMAIN r.tasks |-> Record("task", t, r.tasks[t])]
    \o (IF r.status = "failed" THEN <<Record("failure", 0, "failed")>> ELSE <<>>)
    \o <<Record("decision", 0, "reflection_snapshot")>>

\* One log_* call of _reflect: the id is listed as soon as the record is saved.
ReflectWrite ==
    /\ InPhase("reflecting")
    /\ LET records == ReflectionRecords(execReport)
           i == Len(listed) + 1
       IN  /\ i <= Len(records)
           /\ stored' = Append(stored, records[i])
           /\ listed' = Append(listed, records[i])
    /\ UNCHANGED <<runnerVars, customEngines, phase, pc, sysState, transitions,
                   attempt, attempts, traces, execReport, approved, saved, error>>

\* A log_* call, or the get_recent before the last one, raised.
ReflectFails ==
    /\ InPhase("reflecting")
    /\ Len(listed) < Len(ReflectionRecords(execReport))
    /\ Fails("deterministic")
    /\ UNCHANGED <<runnerVars, execReport, memory>>

ReflectReturns ==
    /\ InPhase("reflecting")
    /\ Len(listed) = Len(ReflectionRecords(execReport))
    /\ Succeeds(FALSE)
    /\ UNCHANGED <<runnerVars, execReport, memory>>

\* self_improvement_runner returned its result.
ImprovementRunner ==
    /\ InPhase("improving") /\ approved = -1
    /\ approved' \in 0..MaxApproved
    /\ UNCHANGED <<runnerVars, customEngines, phase, pc, sysState, transitions,
                   attempt, attempts, traces, execReport, saved, stored, listed, error>>

\* One log_decision of store_improvements: saved, not yet listed.
StoreImprovement ==
    /\ InPhase("improving") /\ approved > 0
    /\ approved' = approved - 1
    /\ stored' = Append(stored, Record("decision", 0, "improvement_action"))
    /\ saved' = Append(saved, Record("decision", 0, "improvement_action"))
    /\ UNCHANGED <<runnerVars, customEngines, phase, pc, sysState, transitions,
                   attempt, attempts, traces, execReport, listed, error>>

\* The runner raised, returned something without adaptations_approved, or a
\* log_decision raised; the ids of what was stored before are lost.
ImproveFails ==
    /\ InPhase("improving") /\ approved # 0
    /\ Fails("deterministic")
    /\ UNCHANGED <<runnerVars, execReport, memory>>

ImproveReturns ==
    /\ InPhase("improving") /\ approved = 0
    /\ listed' = listed \o saved
    /\ Succeeds(FALSE)
    /\ UNCHANGED <<runnerVars, execReport, approved, saved, stored>>

Finish_IgnoresReport ==
    /\ pc = "enter" /\ phase = 6
    /\ TransitionTo("completed", "returned")
    /\ UNCHANGED <<runnerVars, customEngines, phase, attempt, attempts, traces,
                   execReport, memory, error>>

\* The end of run: the report decides between FAILED and COMPLETED.
Finish ==
    /\ pc = "enter" /\ phase = 6
    /\ TransitionTo(IF execReport.status = "failed" THEN "failed" ELSE "completed",
                    "returned")
    /\ UNCHANGED <<runnerVars, customEngines, phase, attempt, attempts, traces,
                   execReport, memory, error>>

-----------------------------------------------------------------------------
Done == pc \in Ended /\ UNCHANGED vars

Step ==
    \/ EnterPhase
    \/ Plan
    \/ RunPlanStep \/ RunPlanReturns \/ RunPlanRaises \/ RunPlanInterrupted
    \/ CustomEngine
    \/ Validate
    \/ ReflectWrite \/ ReflectFails \/ ReflectReturns
    \/ ImprovementRunner \/ StoreImprovement \/ ImproveFails \/ ImproveReturns
    \/ Finish

Next == Step \/ Done

\* run is one thread; handlers, engines and memory calls are assumed to return.
Spec == Init /\ [][Next]_vars /\ WF_vars(Step)

-----------------------------------------------------------------------------
\* COMPLETED is earned: every phase ran and was traced as completed, in order;
\* the report was validated and counts no failed task; and every record the run
\* stored is named in memory_record_ids.  Under the default engine every task of
\* the plan has then completed.  An injected engine may get by with less: a report
\* that counts a skipped task may say anything but "failed".
CompletedRunIsWhole ==
    sysState = "completed" =>
        /\ transitions = Phases \o <<"completed">>
        /\ traces = [i \in 1..5 |-> [phase |-> Phases[i], status |-> "completed"]]
        /\ AcceptedReport(execReport)
        /\ execReport.failed = 0 /\ execReport.status # "failed"
        /\ execReport.status = "completed" \/ (customEngines /\ execReport.skipped > 0)
        /\ ~customEngines => \A t \in Tasks : status[t] = "completed"
        /\ listed = stored
        /\ error = ""

\* Every end is explained by the trace, and there is no other: no transition the
\* state machine forbids is ever asked for, so InvalidStateTransitionError escapes
\* from no run.  FAILED follows a phase that failed and was the last, or a whole run
\* whose report says "failed".  A run that returns in between was given None by an
\* injected engine, in a phase it traces as completed.
EveryEndIsExplained ==
    LET n == Len(traces)
        failedAt == n > 0 /\ traces[n].status = "failed"
    IN  /\ pc # "crashed"
        /\ sysState = "failed" =>
              IF failedAt
              THEN transitions = SubSeq(Phases, 1, n) \o <<"failed">> /\ error # ""
              ELSE transitions = Phases \o <<"failed">> /\ n = 5
                   /\ execReport.status = "failed"
        /\ pc = "returned" /\ sysState \notin Terminal =>
              /\ customEngines /\ n \in 1..2 /\ ~failedAt /\ sysState = Phases[n]
              /\ execReport = NoReport /\ error = "orchestration_failed"

\* Retries are bounded: a run retries at most once, after its first failure and
\* only when that is a transient one in the executing phase.  Every other failure
\* is the last and fails the run, so there are at most two, and an operation is in
\* its second attempt only right after the retry.
RetriesAreBounded ==
    /\ Len(attempts) <= 2
    /\ pc = "operation" =>
          /\ attempt <= 2
          /\ attempt = 2 => Len(attempts) = 1 /\ attempts[1].willRetry
    /\ \A i \in 1..Len(attempts) :
          /\ attempts[i].willRetry =>
                i = 1 /\ attempts[i].phase = "executing" /\ attempts[i].category = "transient"
          /\ ~attempts[i].willRetry => i = Len(attempts) /\ sysState = "failed"
          /\ attempts[i].number = IF i = 2 /\ attempts[i].phase = "executing" THEN 2 ELSE 1

\* The engine this repository supplies never fails validation: a report of
\* run_plan always passes _validate_execution_report.
DefaultReportsValidate ==
    ~customEngines =>
        \A i \in 1..Len(traces) :
            traces[i].phase = "validating" => traces[i].status = "completed"

\* Memory tells the truth about the run: nothing is stored before the report
\* is validated, what is stored begins with what memory_record_ids names, and
\* once the reflecting phase is over the execution record, one record per task
\* with its reported status, and the failure record are all there.
MemoryMatchesReport ==
    /\ stored # <<>> => AcceptedReport(execReport)
    /\ listed = SubSeq(stored, 1, Len(listed))
    /\ LET records == ReflectionRecords(execReport)
           written == IF Len(stored) < Len(records) THEN Len(stored) ELSE Len(records)
       IN  execReport # NoReport =>
              /\ SubSeq(stored, 1, written) = SubSeq(records, 1, written)
              /\ sysState \in {"improving", "completed"} => written = Len(records)

\* Every run ends: it returns, or an interrupt unwinds it.
RunReturns == <>(pc \in Ended)
=============================================================================
