----------------------------- MODULE PlanGraph -----------------------------
(***************************************************************************)
(* build_execution_plan (app/planning/planner.py): PlanValidator, then     *)
(* DependencyGraph.build, the depth-first has_cycle and the level-by-level *)
(* traversal of traverse_levels (app/planning/graph.py).                   *)
(*                                                                         *)
(* A task is a number in the alphabetical order of the ids, which is the   *)
(* order sorted() and the heaps use.  Of a dependency list only the number *)
(* of times it names each task matters, so deps[t][d] is that number;      *)
(* d = 0 stands for every id that is no task.                              *)
(***************************************************************************)
EXTENDS Integers, Sequences, FiniteSets, FiniteSetsExt, SequencesExt, Functions

CONSTANTS
    N,              \* number of tasks
    Dependencies    \* the dependency lists a task may come with

Tasks == 1..N

ASSUME PlanAssumption ==
    /\ N \in Nat
    /\ Dependencies \subseteq [0..N -> Nat]

VARIABLES
    deps,       \* TaskNode.dependencies, by task
    malformed,  \* the input is not a list of tasks with distinct ids
    pc,         \* where build_execution_plan is, or how it ended
    adjacency,  \* DependencyGraph._adjacency
    inDegree,   \* _in_degree, then the local copy traverse_levels counts down
    visited,    \* has_cycle: visited
    stack,      \* has_cycle: the calls of _dfs under way; rec_stack as a set
    ready,      \* current_ready
    nextReady,  \* next_ready
    group,      \* the group of the current level
    ordered,    \* ordered
    groups      \* groups

vars == <<deps, malformed, pc, adjacency, inDegree, visited, stack, ready,
          nextReady, group, ordered, groups>>

Ended == {"planned", "value_error", "cycle_error"}

Init ==
    /\ deps \in [Tasks -> Dependencies]
    /\ malformed \in BOOLEAN
    /\ pc = "validate"
    /\ adjacency = [t \in Tasks |-> {}]
    /\ inDegree = [t \in Tasks |-> 0]
    /\ visited = {} /\ stack = <<>>
    /\ ready = {} /\ nextReady = {}
    /\ group = <<>> /\ ordered = <<>> /\ groups = <<>>

-----------------------------------------------------------------------------
DependsOn(t) == {d \in Tasks : deps[t][d] > 0}

\* _normalize_tasks and PlanValidator.validate.
Validate ==
    /\ pc = "validate"
    /\ pc' = IF malformed \/ \E t \in Tasks : deps[t][0] > 0
             THEN "value_error" ELSE "build"
    /\ UNCHANGED <<deps, malformed, adjacency, inDegree, visited, stack, ready,
                   nextReady, group, ordered, groups>>

\* A dependency list as the pairs of an id and the how-manieth time it is named.
Mentions(t) == UNION {{d} \X (1..deps[t][d]) : d \in Tasks}

\* build: a set of dependents per task, but one count per mention.
Build ==
    /\ pc = "build"
    /\ pc' = "dfs"
    /\ adjacency' = [d \in Tasks |-> {t \in Tasks : deps[t][d] > 0}]
    /\ inDegree' = [t \in Tasks |-> Cardinality(Mentions(t))]
    /\ UNCHANGED <<deps, malformed, visited, stack, ready, nextReady, group, ordered, groups>>

-----------------------------------------------------------------------------
(***************************************************************************)
(* has_cycle.  The loop over sorted neighbours of _dfs passes over those   *)
(* that are visited and not on the stack, and the ones it has dealt with   *)
(* stay so; the next one it acts on is the least of the others.            *)
(***************************************************************************)
Active(n) == {m \in adjacency[n] : m \notin visited \/ m \in Range(stack)}

levelState == <<adjacency, inDegree, ready, nextReady, group, ordered, groups>>

DfsRoot_ForgetsVisited ==
    /\ pc = "dfs" /\ stack = <<>> /\ visited # Tasks
    /\ stack' = <<Min(Tasks \ visited)>>
    /\ UNCHANGED <<deps, malformed, pc, visited, levelState>>

\* The outer loop of has_cycle calls _dfs on the next unvisited task.
DfsRoot ==
    /\ pc = "dfs" /\ stack = <<>> /\ visited # Tasks
    /\ LET n == Min(Tasks \ visited)
       IN  stack' = <<n>> /\ visited' = visited \cup {n}
    /\ UNCHANGED <<deps, malformed, pc, levelState>>

DfsCall ==
    /\ pc = "dfs" /\ stack # <<>> /\ Active(Last(stack)) # {}
    /\ LET m == Min(Active(Last(stack)))
       IN  /\ m \notin visited
           /\ stack' = Append(stack, m)
           /\ visited' = visited \cup {m}
    /\ UNCHANGED <<deps, malformed, pc, levelState>>

DfsBackEdge_AnyVisited ==
    /\ pc = "dfs" /\ stack # <<>>
    /\ \E m \in adjacency[Last(stack)] : m \in visited
    /\ pc' = "cycle_error"
    /\ UNCHANGED <<deps, malformed, visited, stack, levelState>>

\* A neighbour on the stack: has_cycle is True and traverse_levels raises.
DfsBackEdge ==
    /\ pc = "dfs" /\ stack # <<>> /\ Active(Last(stack)) # {}
    /\ Min(Active(Last(stack))) \in visited
    /\ pc' = "cycle_error"
    /\ UNCHANGED <<deps, malformed, visited, stack, levelState>>

DfsReturn_BeforeCallees ==
    /\ pc = "dfs" /\ stack # <<>>
    /\ Active(Last(stack)) \cap Range(stack) = {}
    /\ stack' = Front(stack)
    /\ UNCHANGED <<deps, malformed, pc, visited, levelState>>

DfsReturn ==
    /\ pc = "dfs" /\ stack # <<>> /\ Active(Last(stack)) = {}
    /\ stack' = Front(stack)
    /\ UNCHANGED <<deps, malformed, pc, visited, levelState>>

-----------------------------------------------------------------------------
search == <<adjacency, visited, stack>>

\* has_cycle is False: the tasks without dependencies are ready.
StartLevels ==
    /\ pc = "dfs" /\ stack = <<>> /\ visited = Tasks
    /\ pc' = "levels"
    /\ ready' = {t \in Tasks : inDegree[t] = 0}
    /\ UNCHANGED <<deps, malformed, search, inDegree, nextReady, group, ordered, groups>>

PopTask_SameLevel ==
    /\ pc = "levels" /\ ready # {}
    /\ LET n == Min(ready)
       IN  /\ ordered' = Append(ordered, n)
           /\ group' = Append(group, n)
           /\ inDegree' = [t \in Tasks |->
                              IF t \in adjacency[n] THEN inDegree[t] - 1 ELSE inDegree[t]]
           /\ ready' = (ready \ {n}) \cup {t \in adjacency[n] : inDegree'[t] = 0}
    /\ UNCHANGED <<deps, malformed, pc, search, nextReady, groups>>

\* One turn of the loop over a level.
PopTask ==
    /\ pc = "levels" /\ ready # {}
    /\ LET n == Min(ready)
       IN  /\ ready' = ready \ {n}
           /\ ordered' = Append(ordered, n)
           /\ group' = Append(group, n)
           /\ inDegree' = [t \in Tasks |->
                              IF t \in adjacency[n] THEN inDegree[t] - 1 ELSE inDegree[t]]
           /\ nextReady' = nextReady \cup {t \in adjacency[n] : inDegree'[t] = 0}
    /\ UNCHANGED <<deps, malformed, pc, search, groups>>

EndLevel ==
    /\ pc = "levels" /\ ready = {} /\ group # <<>>
    /\ groups' = Append(groups, group)
    /\ ready' = nextReady
    /\ group' = <<>> /\ nextReady' = {}
    /\ UNCHANGED <<deps, malformed, pc, search, inDegree, ordered>>

\* No task is ready: the plan is complete, or the count says it is not.
Finish ==
    /\ pc = "levels" /\ ready = {} /\ group = <<>>
    /\ pc' = IF Len(ordered) = N THEN "planned" ELSE "cycle_error"
    /\ UNCHANGED <<deps, malformed, search, inDegree, ready, nextReady, group,
                   ordered, groups>>

-----------------------------------------------------------------------------
Step ==
    \/ Validate \/ Build
    \/ DfsRoot \/ DfsCall \/ DfsBackEdge \/ DfsReturn
    \/ StartLevels \/ PopTask \/ EndLevel \/ Finish

Done == pc \in Ended /\ UNCHANGED vars

Next == Step \/ Done

\* Planning is one call in one thread.
Spec == Init /\ [][Next]_vars /\ WF_vars(Step)

-----------------------------------------------------------------------------
\* Some tasks depend on each other in a circle: each of them on one of them.
Cyclic ==
    \E S \in SUBSET Tasks : S # {} /\ \A t \in S : DependsOn(t) \cap S # {}

RepeatsADependency == \E t, d \in Tasks : deps[t][d] > 1

\* A plan holds every task once, each after all its dependencies, the order Runner.run
\* relies on (module TaskRunner), and its execution groups are the levels of the graph:
\* they split the order, in alphabetical order inside a group; a task's dependencies
\* are in earlier groups, and outside the first group one is in the group just before.
PlanIsLevelled ==
    pc = "planned" =>
        /\ Len(ordered) = N /\ Range(ordered) = Tasks
        /\ FlattenSeq(groups) = ordered
        /\ \A g \in 1..Len(groups) :
              /\ \A i, j \in 1..Len(groups[g]) : i < j => groups[g][i] < groups[g][j]
              /\ \A i \in 1..Len(groups[g]) :
                    LET before == DependsOn(groups[g][i])
                    IN  /\ before \subseteq UNION {Range(groups[h]) : h \in 1..(g - 1)}
                        /\ g > 1 => before \cap Range(groups[g - 1]) # {}

\* The depth-first search finds every cycle: it lets only acyclic inputs
\* through to the traversal, whatever the order of the ids and the roots.
SearchFindsCycles == pc \in {"levels", "planned"} => ~Cyclic

\* A PlanningCycleError is right, for lists that name no dependency twice.
CycleErrorIsRight == pc = "cycle_error" => Cyclic \/ RepeatsADependency

\* Planning ends, in a plan or an error.
PlanningEnds == <>(pc \in Ended)

\* "PlanningCycleError: If the dependency graph contains a cycle."
CycleErrorMeansCycle == pc = "cycle_error" => Cyclic
=============================================================================
