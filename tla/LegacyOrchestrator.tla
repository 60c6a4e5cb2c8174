------------------------- MODULE LegacyOrchestrator -------------------------
(***************************************************************************)
(* Orchestrator.run (app/orchestration/orchestrator.py), the layer kept    *)
(* for old imports, around the AgentLoop of its registry.  The two write   *)
(* to one MemoryService, so that the loop's self-improvement finds the     *)
(* orchestrator's records among what memory held before: here, in prior.   *)
(* The loop plans and executes the goal a second time.                     *)
(*                                                                         *)
(* Any engine of the registry may raise.                                   *)
(***************************************************************************)
EXTENDS AgentLoop

VARIABLES
    stage,          \* the stage run is in; "none" where the loop is run by itself
    status,         \* RunContext.status
    executed,       \* what execution_result says
    refs,           \* memory_refs, as the streams of the records
    errors          \* the stages that left an error in the trace

legacyVars == <<stage, status, executed, refs, errors>>

OrchestrationInit ==
    /\ Init
    /\ stage \in {"none"} \cup IF injected THEN {} ELSE {"planning"}
    /\ status = "running" /\ executed = "none" /\ refs = <<>> /\ errors = {}

\* The stage ends, with an error or without.
Leaves(next, raised) ==
    /\ stage' = next
    /\ errors' = IF raised THEN errors \cup {stage} ELSE errors

\* The planner raises, or its plan has no task: run returns.
PlanGoal ==
    /\ stage = "planning"
    /\ \E raised \in BOOLEAN :
          /\ Leaves(IF raised THEN "ended" ELSE "execution", raised)
          /\ status' = IF raised THEN "failed" ELSE status
    /\ UNCHANGED <<vars, executed, refs>>

\* _extract_execution_status: what names no failure is a success, a report
\* without a status is a failure.
ExecutionStatus(reported) ==
    IF reported \in {"none", "failed", "failure"} THEN "failed" ELSE "success"

\* An engine that raises counts as one that reports a failure.
ExecutePlan ==
    /\ stage = "execution"
    /\ \E raised \in BOOLEAN :
          \E reported \in {"failed"} \cup IF raised THEN {}
                                         ELSE {"none", "completed", "skipped", "failure"} :
             Leaves("memory_store", raised) /\ executed' = ExecutionStatus(reported)
    /\ status' = IF executed' = "failed" THEN "failed" ELSE status
    /\ UNCHANGED <<vars, refs>>

\* What the stage still has to write.
Unwritten ==
    IF refs = <<>> THEN "execution"
    ELSE IF executed = "failed" /\ Len(refs) = 1 THEN "failure"
    ELSE "nothing"

Told(stream) == [stream |-> stream, what |-> executed]

\* One write of the memory stage; when it raises the rest is left out.
StoreRecord ==
    /\ stage = "memory_store" /\ Unwritten # "nothing"
    /\ \/ refs' = Append(refs, Unwritten) /\ prior' = Append(prior, Told(Unwritten))
          /\ UNCHANGED <<stage, errors>>
       \/ Leaves("reflection", TRUE) /\ UNCHANGED <<refs, prior>>
    /\ UNCHANGED <<injected, pc, step, attempt, written, report, approved, stored, history,
                   status, executed>>

Stored ==
    /\ stage = "memory_store" /\ Unwritten = "nothing"
    /\ Leaves("reflection", FALSE)
    /\ UNCHANGED <<vars, status, executed, refs>>

\* AgentLoop.run, called by the orchestrator or by itself.
LoopStep ==
    /\ stage \in {"none", "reflection"}
    /\ Step
    /\ UNCHANGED legacyVars

Reflect_PartialWins ==
    /\ stage = "reflection" /\ pc \in {"returned", "raised"}
    /\ Leaves("improvement", pc = "raised")
    /\ status' = IF pc = "raised" \/ Status = "failure" THEN "failed"
                 ELSE IF Status = "partial" THEN "partial"
                 ELSE status
    /\ UNCHANGED <<vars, executed, refs>>

\* The loop is over; its failure is the run's, its partial success only where
\* nothing failed before.
Reflect ==
    /\ stage = "reflection" /\ pc \in {"returned", "raised"}
    /\ Leaves("improvement", pc = "raised")
    /\ status' = IF pc = "raised" \/ Status = "failure" THEN "failed"
                 ELSE IF Status = "partial" /\ status # "failed" THEN "partial"
                 ELSE status
    /\ UNCHANGED <<vars, executed, refs>>

\* The engine selects and applies actions, of which it keeps nothing, and may raise;
\* run returns either way.
ApplyActions ==
    /\ stage = "improvement"
    /\ \/ Leaves("ended", TRUE) /\ status' = "failed"
       \/ Leaves("ended", FALSE) /\ status' = IF status = "running" THEN "success" ELSE status
    /\ UNCHANGED <<vars, executed, refs>>

Over ==
    /\ stage = "ended" \/ (stage = "none" /\ pc \in {"returned", "raised"})
    /\ UNCHANGED <<vars, legacyVars>>

OrchestrationNext ==
    \/ PlanGoal \/ ExecutePlan \/ StoreRecord \/ Stored
    \/ LoopStep \/ Reflect \/ ApplyActions \/ Over

OrchestrationSpec == OrchestrationInit /\ [][OrchestrationNext]_<<vars, legacyVars>>

-----------------------------------------------------------------------------
\* The result and the memory tell the same of the two executions: a run is a success
\* exactly when no engine raised and neither execution left a failure in memory, a
\* partial one failed in the second only, and what the orchestrator names is what it
\* stored, right before the loop began.  Only what memory itself raises is held
\* against nobody.
ResultAgreesWithMemory ==
    stage = "ended" =>
       LET failures == {i \in 1..Len(stored) : stored[i].stream = "failure"}
           clean == errors \subseteq {"memory_store"} /\ executed = "success"
       IN  /\ status \in {"success", "partial", "failed"}
           /\ status = "success" <=> clean /\ failures = {}
           /\ status = "partial" =>
                 clean /\ failures # {} /\ Contains(stored, Record("decision", "run", "partial"))
           /\ executed # "none" /\ "memory_store" \notin errors =>
                 refs = <<"execution">> \o IF executed = "failed" THEN <<"failure">> ELSE <<>>
           /\ IsSuffix([i \in DOMAIN refs |-> Told(refs[i])], prior)
           /\ Contains(refs, "failure") => status = "failed"
=============================================================================
