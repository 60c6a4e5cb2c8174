------------------------ MODULE MCImprovementEngine ------------------------
(* ImprovementEngine over three kinds of execution records. *)
EXTENDS ImprovementEngine, TLC

CONSTANTS s1, unsafe

\* A slow failure, a fast success, and a retried misuse at a step whose id holds a
\* forbidden token.
MCObserved ==
    {[step |-> s1, status |-> "failure", retry |-> FALSE, error |-> "none", latency |-> 20],
     [step |-> s1, status |-> "success", retry |-> FALSE, error |-> "none", latency |-> 1],
     [step |-> unsafe, status |-> "failure", retry |-> TRUE, error |-> "tool_misuse", latency |-> 0]}

\* Many runs one after another; with services; with a read or write that fails;
\* two engines at once over a history that grows; and a run after two at once.
MCBounds ==
    {[runs |-> 4, atOnce |-> 1, observed |-> 3, serviced |-> 0, faults |-> 0],
     [runs |-> 2, atOnce |-> 1, observed |-> 2, serviced |-> 2, faults |-> 0],
     [runs |-> 3, atOnce |-> 1, observed |-> 2, serviced |-> 0, faults |-> 1],
     [runs |-> 2, atOnce |-> 2, observed |-> 2, serviced |-> 0, faults |-> 0],
     [runs |-> 3, atOnce |-> 2, observed |-> 0, serviced |-> 0, faults |-> 0]}

EngineSymmetry == Permutations(Engines) \cup Permutations(Services)
=============================================================================
