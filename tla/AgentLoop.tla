----------------------------- MODULE AgentLoop -----------------------------
(***************************************************************************)
(* AgentLoop.run (app/agent/agent_loop.py): the steps plan, execute,       *)
(* validate and reflect, each under _run_step_with_retry, over a memory    *)
(* any write of which may raise.  A step that is retried starts again from *)
(* the beginning and writes again what it had written.                     *)
(*                                                                         *)
(* What run_plan reports is taken from module TaskRunner: settled tasks,   *)
(* and none skipped unless one failed (SkipsAreJustified).  The loop's own *)
(* plans have one task; longer plans come with a replaced planner, as in   *)
(* the tests.                                                              *)
(***************************************************************************)
EXTENDS Integers, Sequences, FiniteSets, SequencesExt

CONSTANTS
    N,              \* tasks of the plan
    MaxAttempts,    \* RetryPolicy.max_attempts
    Threshold,      \* ImprovementPolicy.confidence_threshold, in hundredths
    Limit,          \* how many records SelfImprovementEngine asks get_recent for
    Priors          \* what memory may hold from earlier runs, in order

\* A record of an earlier run: its stream, and what it says.
PastRecords ==
    [stream : {"execution", "task", "failure", "decision"},
     what : {"success", "failed", "violation", "other"}]

ASSUME AgentAssumption ==
    /\ N \in Nat /\ MaxAttempts \in Nat \ {0} /\ Threshold \in Nat /\ Limit \in Nat
    /\ Priors \subseteq Seq(PastRecords)

Steps == <<"PLAN", "EXECUTE", "VALIDATE", "REFLECT">>

Tasks == 1..N

Reports ==
    {st \in [Tasks -> {"completed", "failed", "skipped"}] :
        (\E t \in Tasks : st[t] = "skipped") => \E t \in Tasks : st[t] = "failed"}

\* classify_failure
FailureTypes == {"TRANSIENT", "LOGIC", "VALIDATION"}

VARIABLES
    injected,       \* run was given adaptations to apply
    prior,          \* the records memory holds from before
    pc,             \* where run is, or how it ended
    step,           \* the index in Steps
    attempt,        \* the attempt of the step
    written,        \* records this attempt has written
    report,         \* the statuses of execution_report
    approved,       \* the targets of the improvements still to store
    stored,         \* the records this run has written, in order
    history         \* _state_history

vars == <<injected, prior, pc, step, attempt, written, report, approved, stored, history>>

\* A record: its stream, what it is about, the task if it is a task, and what it
\* says of it.
About(stream, about, t, what) == [stream |-> stream, about |-> about, task |-> t, what |-> what]

Record(stream, about, what) == About(stream, about, 0, what)

Improvement(target) == Record("decision", "improvement", target)

Init ==
    /\ injected \in BOOLEAN
    /\ pc = (IF injected THEN "inject" ELSE "start")
    /\ step = 1 /\ attempt = 1 /\ written = 0
    /\ report = [t \in Tasks |-> "completed"]       \* there is none before EXECUTE
    /\ prior \in Priors /\ approved = <<>>
    /\ stored = <<>> /\ history = <<>>

-----------------------------------------------------------------------------
(***************************************************************************)
(* What a run says of its report.                                          *)
(***************************************************************************)
Unsuccessful == {t \in Tasks : report[t] # "completed"}

\* _classify
Status ==
    IF Unsuccessful = {} THEN "success"
    ELSE IF Unsuccessful = Tasks THEN "failure"
    ELSE "partial"

\* How the evaluator matches what _evaluation_actual_output says with the
\* expected "completed", which the text "completed_with_failures" contains and
\* "failed" does not.
MatchType == [success |-> "exact", partial |-> "partial", failure |-> "failure"][Status]

\* _classify_failure; the score of no match is 0.
FeedbackFailure ==
    CASE MatchType = "exact"   -> "none"
      [] MatchType = "partial" -> "partial_match"
      [] MatchType = "failure" ->
            IF \E t \in Tasks : report[t] = "failed" THEN "execution_failure"
            ELSE "dependency_skip"

\* _route_feedback_to_adaptation_inputs
FeedbackRecords ==
    LET type == FeedbackFailure
    IN  <<Record("decision", "feedback", type)>>
        \o IF type = "none" THEN <<>> ELSE <<Record("failure", "feedback", type)>>

TaskRecords(t) ==
    <<About("task", "task", t, report[t])>>
    \o IF t \in Unsuccessful THEN <<About("failure", "task", t, report[t])>> ELSE <<>>

\* record_execution knows success and failure only.
RecordExecution(success) ==
    Record("execution", "record", IF success THEN "success" ELSE "failure")

\* _persist, in its order.
PersistedRecords ==
    <<RecordExecution(Status = "success"), Record("execution", "summary", Status)>>
    \o FlattenSeq([t \in Tasks |-> TaskRecords(t)])
    \o <<Record("decision", "run", Status)>>

\* The records the operation of a step writes.
RecordsOf(s) ==
    CASE Steps[s] = "VALIDATE" -> FeedbackRecords
      [] Steps[s] = "REFLECT"  -> PersistedRecords
      [] OTHER                 -> <<>>

-----------------------------------------------------------------------------
(***************************************************************************)
(* SelfImprovementEngine: what it makes of the latest Limit records.  No   *)
(* record this loop writes has a latency or a count of retries, and none   *)
(* is a violation.                                                         *)
(***************************************************************************)
\* get_recent: a record is among them as long as fewer than Limit are later.
RecentPast == {i \in 1..Len(prior) : i + Limit > Len(prior) + Len(stored)}

RecentOwn == {i \in 1..Len(stored) : i + Limit > Len(stored)}

\* Of the records at these places, the entries of executions and the successes.
Executions(records, places) == {i \in places : records[i].stream = "execution"}

Successes(records, places) == {i \in Executions(records, places) : records[i].what = "success"}

Failures(records, places) == {i \in places : records[i].stream = "failure"}

Violations(records, places) ==
    {i \in places : records[i].stream = "decision" /\ records[i].what = "violation"}

\* Evaluator.evaluate, and Optimizer.optimize: the confidence of each action, by
\* its target.
Confidence == [policy_violation_guard |-> 90, retry_limit |-> 85, policy_gate |-> 75]

Entries ==
    Cardinality(Executions(prior, RecentPast)) + Cardinality(Executions(stored, RecentOwn))

Good ==
    Cardinality(Successes(prior, RecentPast)) + Cardinality(Successes(stored, RecentOwn))

Optimized_AtMost(target) ==
    CASE target = "retry_limit" -> 10 * Good <= 8 * Entries
      [] target = "policy_gate" ->
            Failures(prior, RecentPast) # {} \/ Failures(stored, RecentOwn) # {}
      [] target = "policy_violation_guard" -> Violations(prior, RecentPast) # {}

\* A rate under 0.8, any failure record, any violation.
Optimized(target) ==
    CASE target = "retry_limit" -> 10 * Good < 8 * Entries
      [] target = "policy_gate" ->
            Failures(prior, RecentPast) # {} \/ Failures(stored, RecentOwn) # {}
      [] target = "policy_violation_guard" -> Violations(prior, RecentPast) # {}

\* ImprovementPolicy.approve, in its order.  No two actions have one target.
IfApproved(target) ==
    IF Optimized(target) /\ Confidence[target] >= Threshold THEN <<target>> ELSE <<>>

Approved == IfApproved("policy_violation_guard") \o IfApproved("retry_limit") \o IfApproved("policy_gate")

-----------------------------------------------------------------------------
\* _apply_injected_adaptations, before any step and without retry.
InjectAdaptations ==
    /\ pc = "inject"
    /\ \/ pc' = "start" /\ stored' = Append(stored, Record("decision", "injected", "applied"))
       \/ pc' = "raised" /\ UNCHANGED stored
    /\ UNCHANGED <<injected, prior, step, attempt, written, report, approved, history>>

\* _record_state
State(status) == [step |-> step, status |-> status, attempt |-> attempt]

StartAttempt ==
    /\ pc = "start"
    /\ pc' = "operation" /\ written' = 0
    /\ history' = Append(history, State("STARTED"))
    /\ UNCHANGED <<injected, prior, step, attempt, report, approved, stored>>

\* The operation returned.
Succeeds ==
    /\ history' = Append(history, State("SUCCESS"))
    /\ IF step = 4
       THEN pc' = "returned" /\ UNCHANGED <<step, attempt>>
       ELSE pc' = "start" /\ step' = step + 1 /\ attempt' = 1

\* RetryPolicy.should_retry
ShouldRetry(type) == attempt < MaxAttempts /\ type = "TRANSIENT"

\* The operation raised.
Fails(type) ==
    IF ShouldRetry(type)
    THEN /\ history' = history \o <<State("FAILED"), State("RETRY")>>
         /\ pc' = "start" /\ attempt' = attempt + 1 /\ UNCHANGED step
    ELSE /\ history' = Append(history, State("FAILED"))
         /\ pc' = "raised" /\ UNCHANGED <<step, attempt>>

InStep(name) == pc = "operation" /\ Steps[step] = name

\* _plan only reads memory; its reads and the planner may raise.
Plan ==
    /\ InStep("PLAN")
    /\ Succeeds \/ \E type \in FailureTypes : Fails(type)
    /\ UNCHANGED <<injected, prior, written, report, approved, stored>>

Execute ==
    /\ InStep("EXECUTE")
    /\ \/ report' \in Reports /\ Succeeds
       \/ UNCHANGED report /\ \E type \in FailureTypes : Fails(type)
    /\ UNCHANGED <<injected, prior, written, approved, stored>>

\* One write of _validate or _persist.
WriteRecord ==
    /\ pc = "operation" /\ written < Len(RecordsOf(step))
    /\ stored' = Append(stored, RecordsOf(step)[written + 1])
    /\ written' = written + 1
    /\ UNCHANGED <<injected, prior, pc, step, attempt, report, approved, history>>

\* A write raised, or the evaluation before the first one.
WriteFails ==
    /\ pc = "operation" /\ written < Len(RecordsOf(step))
    /\ \E type \in FailureTypes : Fails(type)
    /\ UNCHANGED <<injected, prior, written, report, approved, stored>>

Validated ==
    /\ InStep("VALIDATE") /\ written = Len(FeedbackRecords)
    /\ Succeeds
    /\ UNCHANGED <<injected, prior, written, report, approved, stored>>

Persist_BeforeLast ==
    /\ InStep("REFLECT") /\ written >= Len(PersistedRecords) - 1
    /\ pc' = "improve" /\ approved' \in {Approved, <<>>}
    /\ UNCHANGED <<injected, prior, step, attempt, written, report, stored, history>>

\* _persist returned, and the engine reads what is recent.  When that raises it goes
\* on with no history, and finds nothing to improve.
Persist ==
    /\ InStep("REFLECT") /\ written = Len(PersistedRecords)
    /\ pc' = "improve" /\ approved' \in {Approved, <<>>}
    /\ UNCHANGED <<injected, prior, step, attempt, written, report, stored, history>>

\* One improvement is stored, or storing them raises, which the engine swallows.
Improve ==
    /\ pc = "improve" /\ approved # <<>>
    /\ \/ stored' = Append(stored, Improvement(Head(approved))) /\ approved' = Tail(approved)
       \/ approved' = <<>> /\ UNCHANGED stored
    /\ UNCHANGED <<injected, prior, pc, step, attempt, written, report, history>>

ImproveRaises_AllRetried(type) ==
    /\ pc = "improve"
    /\ Fails(type)
    /\ UNCHANGED <<injected, prior, written, report, approved, stored>>

\* The engine raised: _run_self_improvement swallows what is transient and
\* raises the rest again.
ImproveRaises(type) ==
    /\ pc = "improve"
    /\ IF type = "TRANSIENT" THEN Succeeds ELSE Fails(type)
    /\ UNCHANGED <<injected, prior, written, report, approved, stored>>

Improved ==
    /\ pc = "improve" /\ approved = <<>>
    /\ Succeeds
    /\ UNCHANGED <<injected, prior, written, report, approved, stored>>

Step ==
    \/ InjectAdaptations \/ StartAttempt
    \/ Plan \/ Execute
    \/ WriteRecord \/ WriteFails \/ Validated \/ Persist
    \/ Improve \/ (\E type \in FailureTypes : ImproveRaises(type)) \/ Improved

Done == pc \in {"returned", "raised"} /\ UNCHANGED vars

Next == Step \/ Done

Spec == Init /\ [][Next]_vars

-----------------------------------------------------------------------------
Attempts(s) ==
    Cardinality({i \in 1..Len(history) : history[i].step = s /\ history[i].status = "STARTED"})

Copies(r) == Cardinality({i \in 1..Len(stored) : stored[i] = r})

\* Memory is not idempotent, but what retries repeat is bounded: no record is
\* written more often than its step was tried, no later record of a step more
\* often than an earlier one, and the last one only once, so that the whole
\* account of a run is never there twice, whatever raised and where.
CopiesAreBounded ==
    \A s \in 1..4 :
        LET records == RecordsOf(s)
        IN  /\ Attempts(s) <= MaxAttempts
            /\ \A i \in 1..Len(records) :
                  /\ Copies(records[i]) <= IF i = 1 THEN Attempts(s) ELSE Copies(records[i - 1])
                  /\ i = Len(records) => Copies(records[i]) <= 1

\* Memory tells of a run what the run returns: behind a run that returned its
\* whole account comes last, before the improvements it led to; and no account
\* begins before the feedback on the same report is whole.
ReturnedRunIsOnRecord ==
    LET improvements == {i \in 1..Len(stored) : stored[i].about = "improvement"}
        told == Len(stored) - Cardinality(improvements)
        account == PersistedRecords
        feedback == FeedbackRecords
    IN  /\ pc = "returned" \/ improvements # {} =>
              /\ improvements = (told + 1)..Len(stored)
              /\ IsSuffix(account, SubSeq(stored, 1, told))
        /\ Copies(account[1]) > 0 => \A i \in 1..Len(feedback) : Copies(feedback[i]) > 0

\* Where the part of the past begins that this run can have seen: not more than
\* Limit records back, and with all that fits in beside the records of the run.
Horizons ==
    {from \in 1..(Len(prior) + 1) :
        /\ from + Limit > Len(prior)
        /\ from = 1 \/ from + Limit <= Len(prior) + Len(stored) + 1}

\* The copies that retries leave behind mislead no one: an improvement is stored at
\* most once, and a run that succeeds brings no evidence of its own.  It limits
\* retries only if the past in sight, with two successes more, is under the rate
\* by itself, however often its own records were written; in sight is all of a
\* past that fits in, but a longer one loses its oldest records to those of the
\* run.  It asks for a gate only after a failure that was there before, as every
\* run asks for a guard only after a violation.
ImprovementsAreEarned ==
    LET targets == {target \in DOMAIN Confidence : Copies(Improvement(target)) > 0}
        since(from) == from..Len(prior)
        recent == {i \in 1..Len(prior) : i + Limit > Len(prior)}
    IN  /\ \A target \in targets : Copies(Improvement(target)) = 1
        /\ "retry_limit" \in targets =>
              \/ Status # "success"
              \/ \E from \in Horizons :
                    10 * (Cardinality(Successes(prior, since(from))) + 2)
                      < 8 * (Cardinality(Executions(prior, since(from))) + 2)
        /\ "policy_gate" \in targets => Status # "success" \/ Failures(prior, recent) # {}
        /\ "policy_violation_guard" \in targets => Violations(prior, recent) # {}

\* Exceptions from self-improvement never break a run.
ImprovementNeverBreaksARun == [][pc = "improve" => pc' # "raised"]_vars
=============================================================================
