-------------------------- MODULE LoopController --------------------------
(***************************************************************************)
(* LoopController.run (app/agent/loop_controller.py): plan, execute one    *)
(* step, evaluate, decide, save, repeat; and what one controller carries   *)
(* from run to run, its strategy statistics.                               *)
(*                                                                         *)
(* The planner, the executor and the memory are the protocols the          *)
(* controller is built over.  A planner may return any plan, a repair any  *)
(* step; an executor answers with the classifications ExecutionRunner      *)
(* gives; memory is a count of records by error pattern and decision,      *)
(* which is all the controller reads of it.  Self-improvement is off, as   *)
(* it is by default.                                                       *)
(*                                                                         *)
(* Of the statistics only the attempts are kept: a success is recorded     *)
(* under advance_step, which is never scored, so for every decision that   *)
(* is scored the success rate and the bonus are zero.                      *)
(***************************************************************************)
EXTENDS Integers, Sequences, FiniteSets

CONSTANTS
    MaxIterations,      \* max_iterations
    FailureThreshold,   \* failure_threshold
    StepThreshold,      \* step_failure_threshold
    ErrorTypes,         \* what an executor may report of a failed step
    MaxSteps,           \* bound on the steps of a plan
    MaxRuns             \* bound on the calls of run

\* The error types ExecutionRunner gives.
AllErrorTypes == {"runtime_error", "policy_violation", "invalid_plan", "invalid_output"}

ASSUME LoopAssumption ==
    /\ ErrorTypes \subseteq AllErrorTypes
    /\ MaxIterations \in Nat /\ FailureThreshold \in Nat \ {0} /\ StepThreshold \in Nat \ {0}
    /\ MaxSteps \in Nat \ {0} /\ MaxRuns \in Nat

StepIds == 1..MaxSteps

Patterns == {"none"} \cup ErrorTypes

Decisions ==
    {"retry_same", "adjust_plan", "repair_step", "abort", "escalate", "advance_step"}

Pairs == Patterns \X Decisions

VARIABLES
    pc,             \* where run is
    iteration,
    failures,
    plan,           \* state["active_plan"]
    stepFailures,   \* state["current_step_failures"]
    decision,       \* state["last_decision"]
    step,           \* current_step: the position and the step last executed
    pattern,        \* the error_type of the last result
    stats,          \* strategy_stats, attempts only; 0 where there is no entry
    memory,         \* records saved for the goal, by pattern and decision
    context,        \* what _retrieve_context last made of memory
    history,        \* state["history"]
    outcome,        \* how run ended
    runs,           \* calls of run so far
    plans,          \* plans made in this run
    unsaved         \* iterations counted in stats whose save raised

vars == <<pc, iteration, failures, plan, stepFailures, decision, step, pattern, stats,
          memory, context, history, outcome, runs, plans, unsaved>>

NoStep == [index |-> 0, id |-> 1, repaired |-> FALSE]

NoPlan == [steps |-> <<>>, start |-> 0, current |-> 0]

Nothing == [p \in Pairs |-> 0]

\* last_decision before the first one, and the outcome of a run that goes on.
NoDecision == ""

Running == ""

Init ==
    /\ pc = "idle" /\ iteration = 0 /\ failures = 0
    /\ plan = NoPlan /\ plans = 0
    /\ stepFailures = [i \in StepIds |-> 0]
    /\ decision = NoDecision /\ step = NoStep /\ pattern = "none"
    /\ stats = Nothing /\ memory = Nothing /\ context = Nothing /\ unsaved = Nothing
    /\ history = <<>> /\ outcome = Running /\ runs = 0

End(how) == pc' = "idle" /\ outcome' = how

-----------------------------------------------------------------------------
\* _retrieve_context: an exception of memory.retrieve gives an empty context.
Retrieved == {memory, Nothing}

Merge_Adds(incoming) == [p \in Pairs |-> stats[p] + incoming[p]]

\* _merge_strategy_stats takes over only the entries it does not have.
Merge(incoming) == [p \in Pairs |-> IF stats[p] = 0 THEN incoming[p] ELSE stats[p]]

StartRun ==
    /\ pc = "idle" /\ runs < MaxRuns
    /\ runs' = runs + 1
    /\ \E c \in Retrieved : context' = c /\ stats' = Merge(c)
    /\ pc' = "plan" /\ iteration' = 0 /\ failures' = 0
    /\ plan' = NoPlan /\ plans' = 0
    /\ stepFailures' = [i \in StepIds |-> 0]
    /\ decision' = NoDecision /\ step' = NoStep /\ pattern' = "none"
    /\ history' = <<>> /\ outcome' = Running
    /\ UNCHANGED <<memory, unsaved>>

\* The process starts again: a new controller over the same memory.
Restart ==
    /\ pc = "idle" /\ runs \in 1..(MaxRuns - 1) /\ stats # Nothing
    /\ stats' = Nothing /\ unsaved' = Nothing
    /\ UNCHANGED <<pc, iteration, failures, plan, stepFailures, decision, step, pattern, memory,
                   context, history, outcome, runs, plans>>

\* _normalize_step_plan clamps the current_step a planner gives.
Normalize(n, current) ==
    LET c == IF current < 0 THEN 0 ELSE IF current > n THEN n ELSE current
    IN  [steps |-> [i \in 1..n |-> [id |-> i, repaired |-> FALSE]],
         start |-> c, current |-> c]

\* What a planner's answer is normalised to, when it is one: a plan, or one step.
NewPlans == {Normalize(n, current) : n \in 0..MaxSteps, current \in -1..(MaxSteps + 1)}

EnsurePlan_KeepsIndex(p) ==
    \/ plans = 0 /\ p \in NewPlans /\ plans' = 1
    \/ /\ plans > 0 /\ decision = "adjust_plan" /\ plans' = plans + 1
       /\ \E q \in NewPlans :
             plan.current <= Len(q.steps) /\ p = [q EXCEPT !.current = plan.current]
    \/ plans > 0 /\ p = plan /\ plans' = plans

\* _ensure_step_plan: the active plan, or a new one when there is none or the
\* last decision was to adjust it.  When the planner answers an adjustment with
\* something that is no plan, _normalize_step_plan falls back on the active one, its
\* steps and its position.
EnsurePlan(p) ==
    \/ (plans = 0 \/ decision = "adjust_plan") /\ p \in NewPlans /\ plans' = plans + 1
    \/ plans > 0 /\ p = plan /\ plans' = plans

AllStepsCompleted(p) == p.current >= Len(p.steps)

\* The head of the loop: out of iterations, a planner that raises, a plan with
\* nothing left to do, or a step to execute.
Plan ==
    /\ pc = "plan"
    /\ IF iteration < MaxIterations
       THEN /\ iteration' = iteration + 1
            /\ \/ /\ \E p \in {plan} \cup NewPlans :
                        /\ EnsurePlan(p)
                        /\ plan' = p
                        /\ IF AllStepsCompleted(p)
                           THEN End("success")
                           ELSE pc' = "execute" /\ UNCHANGED outcome
               \/ /\ plans = 0 \/ decision = "adjust_plan"
                  /\ End("raised")
                  /\ UNCHANGED <<plan, plans>>
       ELSE End("max_iterations") /\ UNCHANGED <<iteration, plan, plans>>
    /\ UNCHANGED <<failures, stepFailures, decision, step, pattern, stats, memory, context,
                   history, runs, unsaved>>

CurrentStep == plan.steps[plan.current + 1]

\* _increment_step_failure counts by the id of the step.
IncrementStepFailure == [stepFailures EXCEPT ![CurrentStep.id] = @ + 1]

\* executor.run and _classify_result.  ExecutionRunner catches what execution
\* raises.
Execute ==
    /\ pc = "execute"
    /\ pattern' \in Patterns
    /\ step' = [index |-> plan.current, id |-> CurrentStep.id,
                repaired |-> CurrentStep.repaired]
    /\ stepFailures' = IF pattern' = "none" THEN stepFailures ELSE IncrementStepFailure
    /\ pc' = "decide"
    /\ UNCHANGED <<iteration, failures, plan, decision, stats, memory, context, history,
                   outcome, runs, plans, unsaved>>

-----------------------------------------------------------------------------
(***************************************************************************)
(* The decision.                                                           *)
(***************************************************************************)
Retryable == pattern = "runtime_error"

CurrentStepFailureCount == stepFailures[CurrentStep.id]

\* What _count_recent_pattern_failures finds in the context.
RecentPatternFailures(d) == context[<<pattern, d>>]

Candidates ==
    IF Retryable THEN {"retry_same", "adjust_plan", "abort"} ELSE {"adjust_plan", "abort"}

Prior == [retry_same |-> 60, adjust_plan |-> 55, abort |-> 20]

Rank == [adjust_plan |-> 0, retry_same |-> 1, abort |-> 2]

\* _decision_score, in hundredths.
Score(d) ==
    LET attempts == stats[<<pattern, d>>]
    IN  Prior[d] - IF attempts > 10 THEN 20 ELSE 2 * attempts

\* _select_best_decision sorts by score and rank, so the order of the
\* candidates, which repeated retry failures change, plays no part.
BestDecision ==
    CHOOSE d \in Candidates :
        \A e \in Candidates :
            Score(d) > Score(e) \/ (Score(d) = Score(e) /\ Rank[d] <= Rank[e])

\* _decide_next_step, or advance_step after a success.
Decide ==
    IF pattern = "none" THEN "advance_step"
    ELSE IF pattern = "policy_violation" THEN "escalate"
    ELSE IF CurrentStepFailureCount >= StepThreshold THEN "repair_step"
    ELSE BestDecision

AdvanceStep == [plan EXCEPT !.current = @ + 1]

ReplaceCurrentStep(s) == [plan EXCEPT !.steps[plan.current + 1] = s]

Repair_NotReplaced(id) == plan

\* _repair_step: what the planner returns takes the place of the step.
Repair(id) == ReplaceCurrentStep([id |-> id, repaired |-> TRUE])

\* _update_strategy_stats
UpdateStats(d) == [stats EXCEPT ![<<pattern, d>>] = @ + 1]

\* The decision with its effect on the plan; a repair may raise.  The
\* statistics are updated last.
MakeDecision ==
    /\ pc = "decide"
    /\ decision' = Decide
    /\ \/ /\ CASE decision' = "advance_step" -> plan' = AdvanceStep
               [] decision' = "repair_step"  -> \E id \in StepIds : plan' = Repair(id)
               [] OTHER                      -> plan' = plan
          /\ stats' = UpdateStats(decision')
          /\ pc' = "save" /\ UNCHANGED outcome
       \/ /\ decision' = "repair_step"
          /\ End("raised") /\ UNCHANGED <<plan, stats>>
    /\ UNCHANGED <<iteration, failures, stepFailures, step, pattern, memory, context,
                   history, runs, plans, unsaved>>

\* memory.save and the history; a save that raises ends the run.
Save ==
    /\ pc = "save"
    /\ \/ /\ memory' = [memory EXCEPT ![<<pattern, decision>>] = @ + 1]
          /\ history' = Append(history, [plan |-> plans, step |-> step, pattern |-> pattern,
                                         decision |-> decision])
          /\ pc' = "conclude"
          /\ UNCHANGED <<unsaved, outcome>>
       \/ /\ unsaved' = [unsaved EXCEPT ![<<pattern, decision>>] = @ + 1]
          /\ End("raised")
          /\ UNCHANGED <<memory, history>>
    /\ UNCHANGED <<iteration, failures, plan, stepFailures, decision, step, pattern, stats,
                   context, runs, plans>>

Stop_ThresholdExceeded(n) == n > FailureThreshold

Stop(n) == n >= FailureThreshold

\* The end of an iteration.  _apply_step_adjustment changes the text of the step's
\* action and its metadata, which nothing here tells apart.
Conclude ==
    /\ pc = "conclude"
    /\ IF pattern = "none"
       THEN /\ UNCHANGED failures
            /\ IF AllStepsCompleted(plan)
               THEN End("success") /\ UNCHANGED context
               ELSE pc' = "plan" /\ context' \in Retrieved /\ UNCHANGED outcome
       ELSE /\ failures' = failures + 1
            /\ IF decision = "escalate" THEN End("escalated") /\ UNCHANGED context
               ELSE IF decision = "abort" THEN End("abort") /\ UNCHANGED context
               ELSE IF Stop(failures') THEN End("failure_threshold") /\ UNCHANGED context
               ELSE pc' = "plan" /\ context' \in Retrieved /\ UNCHANGED outcome
    /\ UNCHANGED <<iteration, plan, stepFailures, decision, step, pattern, stats, memory,
                   history, runs, plans, unsaved>>

Quiet == pc = "idle" /\ runs = MaxRuns /\ UNCHANGED vars

Next ==
    \/ StartRun \/ Restart
    \/ Plan \/ Execute \/ MakeDecision \/ Save \/ Conclude
    \/ Quiet

Spec == Init /\ [][Next]_vars

-----------------------------------------------------------------------------
Failed(e) == e.pattern # "none"

\* The iterations in which a step of the plan succeeded.
Done == {k \in 1..Len(history) : history[k].plan = plans /\ ~Failed(history[k])}

\* Steps are neither skipped nor done twice: under every plan the steps that
\* succeeded are those from where it started to where it stands, each once and
\* in order, whatever was retried, repaired or replanned between them; and a
\* run that reports success has come to the end of its plan.
ProgressMatchesPlan ==
    /\ \A k \in Done :
          history[k].step.index = plan.start + Cardinality({j \in Done : j < k})
    /\ pc \in {"plan", "execute", "conclude"} => plan.current = plan.start + Cardinality(Done)
    /\ outcome = "success" =>
          plan.current = Len(plan.steps) /\ plan.current = plan.start + Cardinality(Done)

\* What an iteration decides is what the next one does: a retry runs the same
\* step of the same plan again, a repair runs its replacement, an adjustment
\* starts a new plan, or runs the same step where the planner has no other; and
\* a step is repaired exactly when it has failed often enough, counted by id
\* over the whole run, unless what failed it is a policy violation.
DecisionsAreFollowed ==
    \A k \in 1..Len(history) :
        LET e == history[k]
            sameId == {j \in 1..k : Failed(history[j]) /\ history[j].step.id = e.step.id}
        IN  /\ k < Len(history) =>
                LET f == history[k + 1]
                IN  CASE e.decision = "advance_step" -> f.plan = e.plan /\ f.step.index = e.step.index + 1
                      [] e.decision = "retry_same"   ->
                            /\ e.pattern = "runtime_error"
                            /\ f.plan = e.plan /\ f.step = e.step
                      [] e.decision = "repair_step"  ->
                            f.plan = e.plan /\ f.step.index = e.step.index /\ f.step.repaired
                      [] e.decision = "adjust_plan"  ->
                            f.plan = e.plan + 1 \/ (f.plan = e.plan /\ f.step = e.step)
                      [] OTHER                       -> FALSE
            /\ e.decision = "repair_step" <=>
                  /\ Failed(e) /\ e.pattern # "policy_violation"
                  /\ Cardinality(sameId) >= StepThreshold

\* The statistics are learned from what happened: over restarts, lost saves and
\* contexts that could not be read, no iteration is counted twice.
NothingCountedTwice ==
    pc \in {"idle", "plan", "execute"} =>
        \A p \in Pairs : stats[p] <= memory[p] + unsaved[p]

\* Every end has its reason, and work is bounded: a policy violation is the last
\* thing a run meets, the failure threshold stops a run at once, and running out
\* of iterations means neither happened.  No run ever aborts.
EndIsExplained ==
    LET failed == {k \in 1..Len(history) : Failed(history[k])}
    IN  /\ Cardinality(failed) <= FailureThreshold /\ Len(history) <= MaxIterations
        /\ \A k \in failed : history[k].pattern = "policy_violation" =>
              k = Len(history) /\ outcome \in {Running, "escalated"}
        /\ outcome = "escalated" => history[Len(history)].pattern = "policy_violation"
        /\ outcome = "failure_threshold" => Cardinality(failed) = FailureThreshold
        /\ outcome = "max_iterations" =>
              Len(history) = MaxIterations /\ Cardinality(failed) < FailureThreshold
        /\ outcome # "abort"

\* After two failed retries of a pattern in the recent history, retry_same gives
\* way to the other candidates.
RetryIsDeprioritized ==
    (pc = "save" /\ decision = "retry_same") => RecentPatternFailures("retry_same") < 2
=============================================================================
