-------------------------- MODULE MCExecutionHooks --------------------------
(* ExecutionHooks with the policy of ExecutionRunner, and requests it refuses. *)
EXTENDS ExecutionHooks, TLC

CONSTANTS t1, t2, configuredPath

MCPolicy ==
    [allowed |-> {"run_plan"}, blocked |-> {}, maxRuntime |-> None, environments |-> {"local"}]

\* What ExecutionRunner asks, of three kinds of plans, and an operation that is not
\* allowed.
RunPlan(plan) ==
    [operation |-> "run_plan", environment |-> "local", runtime |-> 0, plan |-> plan]

Delete ==
    [operation |-> "delete", environment |-> Malformed, runtime |-> None, plan |-> "plain"]

MCRequests == {RunPlan("plain"), RunPlan("unwritable"), RunPlan("uncopyable"), Delete}

\* One thread whose writes fail; two at once with a failing write; and two at once
\* of which one tries again.
MCBounds ==
    {[env |-> None, asks |-> t1 :> MCRequests @@ t2 :> {}, calls |-> t1 :> 2 @@ t2 :> 0,
      faults |-> 2, configured |-> 1],
     [env |-> None, asks |-> t1 :> {RunPlan("plain")} @@ t2 :> {RunPlan("plain"), Delete},
      calls |-> t1 :> 1 @@ t2 :> 1, faults |-> 1, configured |-> 1],
     [env |-> configuredPath,
      asks |-> t1 :> {RunPlan("plain")} @@ t2 :> {RunPlan("plain")},
      calls |-> t1 :> 2 @@ t2 :> 1, faults |-> 0, configured |-> 0]}
=============================================================================
