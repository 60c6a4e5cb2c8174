------------------------- MODULE TaskRunnerProofs -------------------------
(***************************************************************************)
(* The safety properties of TaskRunner, proved for a plan of any length    *)
(* and every dependency relation that runs backwards in plan order.        *)
(*                                                                         *)
(* The inductive invariant says what the walk has done at each iteration:  *)
(* every task before next is settled, every task after it is pending, and  *)
(* the halted flag is up exactly when a run that stops on failure has met  *)
(* one.  The properties follow from it task by task.                       *)
(***************************************************************************)
EXTENDS TaskRunner, FiniteSetTheorems, TLAPS

AtHandler == runState \in {"handler", "interrupted"}

\* Where the walk stands.
Walk ==
    /\ runState \in {"validate", "deploy"} => next = 1
    /\ runState = "returned" => next = N + 1
    /\ AtHandler => next <= N /\ status[next] = "running"
    /\ \A t \in Tasks : t < next => status[t] \in Settled
    /\ \A t \in Tasks : t > next => status[t] = "pending"
    /\ next <= N /\ ~AtHandler => status[next] = "pending"

DepsAreEarlier == \A t \in Tasks : \A d \in deps[t] : d < t

\* What the halted flag means.
HaltMeansFailure ==
    /\ AtHandler => ~halted
    /\ halted => stopOnFailure /\ \E f \in Tasks : f < next /\ status[f] = "failed"
    /\ stopOnFailure /\ (\E f \in Tasks : status[f] = "failed") => halted

RanAfterDeps ==
    \A t \in Tasks : Ran(t) => \A d \in deps[t] : status[d] = "completed"

ReportIsOfStatus ==
    report = IF runState = "returned" THEN ReportOf(status) ELSE NoReport

RunnerInv ==
    /\ RunnerTypeOK
    /\ DepsAreEarlier
    /\ Walk
    /\ HaltMeansFailure
    /\ RanAfterDeps
    /\ NothingRunsAfterFailure
    /\ SkipsAreJustified
    /\ ReportIsOfStatus

-----------------------------------------------------------------------------
(***************************************************************************)
(* Ancestors is defined by closed sets, so no induction is needed: a task  *)
(* is its own ancestor, and an ancestor of a dependency is an ancestor.    *)
(***************************************************************************)

\* A task belongs to its own ancestors.
LEMMA SelfIsAncestor ==
    ASSUME NEW t \in Tasks
    PROVE  t \in Ancestors(t)
  BY DEF Ancestors

\* The ancestors of a direct dependency are ancestors of the task.
LEMMA AncestorsOfDependency ==
    ASSUME deps \in [Tasks -> SUBSET Tasks],
           NEW t \in Tasks, NEW d \in deps[t], NEW a \in Ancestors(d)
    PROVE  a \in Ancestors(t)
  <1>1. a \in Tasks
    BY DEF Ancestors
  <1>2. ASSUME NEW S \in SUBSET Tasks, t \in S, \A u \in S : deps[u] \subseteq S
        PROVE  a \in S
    <2>1. d \in S
      BY <1>2
    <2> QED
      BY <1>2, <2>1 DEF Ancestors
  <1> QED
    BY <1>1, <1>2 DEF Ancestors

\* Nothing outside a closed set that holds t is an ancestor of t.
LEMMA AncestorsWithin ==
    ASSUME deps \in [Tasks -> SUBSET Tasks],
           NEW t \in Tasks, NEW S \in SUBSET Tasks, t \in S,
           \A u \in S : deps[u] \subseteq S
    PROVE  Ancestors(t) \subseteq S
  BY DEF Ancestors

-----------------------------------------------------------------------------
(***************************************************************************)
(* The three counts of a report partition the plan.                        *)
(***************************************************************************)

\* Disjoint finite sets: the cardinality of the union is the sum.
LEMMA DisjointUnion ==
    ASSUME NEW S, NEW T, IsFiniteSet(S), IsFiniteSet(T), S \cap T = {}
    PROVE  /\ IsFiniteSet(S \cup T)
           /\ Cardinality(S \cup T) = Cardinality(S) + Cardinality(T)
  <1>1. Cardinality(S) \in Nat /\ Cardinality(T) \in Nat
    BY FS_CardinalityType
  <1>2. Cardinality(S \cap T) = 0
    BY FS_EmptySet
  <1>3. /\ IsFiniteSet(S \cup T)
        /\ Cardinality(S \cup T)
             = Cardinality(S) + Cardinality(T) - Cardinality(S \cap T)
    BY FS_Union
  <1> QED
    BY <1>1, <1>2, <1>3

\* When every task is settled the counts by status add up to the plan's length.
LEMMA CountsAddUp ==
    ASSUME status \in [Tasks -> Settled]
    PROVE  CountOf(status, "completed") + CountOf(status, "failed")
             + CountOf(status, "skipped") = N
  <1> DEFINE Where(s) == {t \in Tasks : status[t] = s}
  <1>1. IsFiniteSet(Tasks) /\ Cardinality(Tasks) = N
    BY FS_Interval, NAssumption DEF Tasks
  <1>2. /\ IsFiniteSet(Where("completed"))
        /\ IsFiniteSet(Where("failed"))
        /\ IsFiniteSet(Where("skipped"))
    BY <1>1, FS_Subset
  <1>3. /\ IsFiniteSet(Where("completed") \cup Where("failed"))
        /\ Cardinality(Where("completed") \cup Where("failed"))
             = Cardinality(Where("completed")) + Cardinality(Where("failed"))
    <2>1. Where("completed") \cap Where("failed") = {}
      OBVIOUS
    <2> QED
      BY <1>2, <2>1, DisjointUnion
  <1>4. Cardinality((Where("completed") \cup Where("failed")) \cup Where("skipped"))
          = Cardinality(Where("completed") \cup Where("failed"))
              + Cardinality(Where("skipped"))
    <2>1. (Where("completed") \cup Where("failed")) \cap Where("skipped") = {}
      OBVIOUS
    <2> QED
      BY <1>2, <1>3, <2>1, DisjointUnion
  <1>5. (Where("completed") \cup Where("failed")) \cup Where("skipped") = Tasks
    BY DEF Settled
  <1> QED
    BY <1>1, <1>3, <1>4, <1>5 DEF CountOf

\* A count is zero when no task has the status, and the plan's length when all do.
LEMMA CountExtremes ==
    ASSUME NEW s, NEW st
    PROVE  /\ Cardinality(Tasks) = N
           /\ CountOf(st, s) \in Nat
           /\ CountOf(st, s) = 0 <=> \A t \in Tasks : st[t] # s
           /\ CountOf(st, s) = N <=> \A t \in Tasks : st[t] = s
  <1> DEFINE W == {t \in Tasks : st[t] = s}
  <1>1. IsFiniteSet(Tasks) /\ Cardinality(Tasks) = N
    BY FS_Interval, NAssumption DEF Tasks
  <1>2. IsFiniteSet(W) /\ Cardinality(W) \in Nat
    BY <1>1, FS_Subset, FS_CardinalityType, W \subseteq Tasks
  <1>3. Cardinality(W) = 0 <=> W = {}
    BY <1>2, FS_EmptySet
  <1>4. Cardinality(W) = N <=> W = Tasks
    BY <1>1, FS_Subset, W \subseteq Tasks
  <1> QED
    BY <1>1, <1>2, <1>3, <1>4 DEF CountOf

-----------------------------------------------------------------------------
(***************************************************************************)
(* The invariant: it holds initially, and every step keeps it.             *)
(***************************************************************************)

\* A fresh run satisfies the invariant.
LEMMA InitInv == RunnerInit => RunnerInv
  <1> SUFFICES ASSUME RunnerInit
               PROVE  RunnerInv
    OBVIOUS
  <1> USE NAssumption DEF RunnerInit, FreshRun
  <1>1. RunnerTypeOK
    <2>1. status \in [Tasks -> Statuses] /\ skipReason \in [Tasks -> 0..(N + 1)]
      BY DEF Statuses, NoReason, Tasks
    <2>2. next \in 1..(N + 1) /\ report \in Reports
      BY DEF Reports
    <2>3. runState = "validate" /\ halted \in BOOLEAN
      OBVIOUS
    <2> QED
      BY <2>1, <2>2, <2>3 DEF RunnerTypeOK
  <1>2. Walk /\ DepsAreEarlier
    BY DEF Walk, DepsAreEarlier, AtHandler, Tasks
  <1>3. HaltMeansFailure /\ RanAfterDeps /\ NothingRunsAfterFailure /\ SkipsAreJustified
    BY DEF HaltMeansFailure, RanAfterDeps, NothingRunsAfterFailure,
           SkipsAreJustified, Ran, AtHandler
  <1>4. ReportIsOfStatus
    BY DEF ReportIsOfStatus
  <1> QED
    BY <1>1, <1>2, <1>3, <1>4 DEF RunnerInv

\* A skip blamed on dependency d, or on the halt, keeps the invariant.
LEMMA SkipKeepsInv ==
    ASSUME RunnerInv, runState = "loop", next <= N,
           NEW why \in Blocking(next) \cup {Halted}, NEW halt \in BOOLEAN,
           why = Halted => halted /\ Blocking(next) = {},
           halted => halt = TRUE,
           ~halted => halt = stopOnFailure,
           Skip(next, why, halt)
    PROVE  RunnerInv'
  <1> USE NAssumption
  <1>1. /\ RunnerTypeOK /\ next \in Tasks
        /\ status[next] = "pending"
        /\ status' = [status EXCEPT ![next] = "skipped"]
        /\ UNCHANGED <<deps, stopOnFailure, runState, report>>
    BY DEF RunnerInv, RunnerTypeOK, Walk, AtHandler, Skip, Tasks
  <1>2. why \in Tasks => why \in deps[next] /\ why < next /\ status[why] \in {"failed", "skipped"}
    BY <1>1 DEF RunnerInv, RunnerTypeOK, Walk, DepsAreEarlier, Blocking, Halted, Tasks, Settled
  <1>3. RunnerTypeOK'
    BY <1>1 DEF Skip, RunnerTypeOK, Statuses, Settled, Blocking, Halted, Tasks
  <1>4. DepsAreEarlier' /\ Walk'
    BY <1>1 DEF RunnerInv, RunnerTypeOK, Skip, DepsAreEarlier, Walk, AtHandler, Settled, Tasks
  <1>5. \E f \in Tasks : f < next /\ status[f] = "failed" /\ (~halted => f \in Ancestors(next))
    <2>1. CASE halted
      BY <2>1 DEF RunnerInv, HaltMeansFailure
    <2>2. CASE ~halted
      <3>1. why \in deps[next] /\ why \in Tasks /\ why < next
        BY <1>1, <1>2, <2>2 DEF RunnerTypeOK, Blocking, Halted
      <3>2. CASE status[why] = "failed"
        BY <1>1, <3>1, <3>2, SelfIsAncestor, AncestorsOfDependency DEF RunnerTypeOK
      <3>3. CASE status[why] = "skipped"
        <4>1. ~(stopOnFailure /\ \E f \in Tasks : status[f] = "failed")
          BY <2>2 DEF RunnerInv, HaltMeansFailure
        <4>2. PICK a \in Ancestors(why) : status[a] = "failed"
          BY <3>1, <3>3, <4>1 DEF RunnerInv, SkipsAreJustified
        <4>3. a \in Ancestors(next) /\ a \in Tasks
          BY <1>1, <3>1, <4>2, AncestorsOfDependency DEF RunnerTypeOK, Ancestors
        <4>4. a < next
          BY <1>1, <4>2, <4>3 DEF RunnerInv, RunnerTypeOK, Walk, Tasks
        <4> QED
          BY <4>2, <4>3, <4>4
      <3> QED
        BY <1>2, <3>1, <3>2, <3>3
    <2> QED
      BY <2>1, <2>2
  <1>6. HaltMeansFailure'
    BY <1>1, <1>5 DEF RunnerInv, HaltMeansFailure, RunnerTypeOK, AtHandler, Skip, Tasks
  <1>7. RanAfterDeps' /\ NothingRunsAfterFailure'
    BY <1>1 DEF RunnerInv, RanAfterDeps, NothingRunsAfterFailure, Ran, RunnerTypeOK
  <1>8. SkipsAreJustified'
    <2> SUFFICES ASSUME NEW t \in Tasks, status'[t] = "skipped"
                 PROVE  /\ \/ \E a \in Ancestors(t)' : status'[a] = "failed"
                           \/ stopOnFailure' /\ \E f \in Tasks : f < t /\ status'[f] = "failed"
                        /\ \/ /\ skipReason'[t] \in deps'[t]
                              /\ status'[skipReason'[t]] \in {"failed", "skipped"}
                           \/ /\ skipReason'[t] = Halted
                              /\ \A d \in deps'[t] : status'[d] = "completed"
      BY DEF SkipsAreJustified
    <2>1. Ancestors(t)' = Ancestors(t)
      BY <1>1 DEF Ancestors
    <2>2. \A a \in Tasks : status[a] \in {"failed", "skipped"} => status'[a] = status[a]
      BY <1>1 DEF RunnerTypeOK
    <2>3. \A a \in Tasks : status[a] = "completed" => status'[a] = status[a]
      BY <1>1 DEF RunnerTypeOK
    <2>4. CASE t = next
      <3>1. \/ \E a \in Ancestors(t)' : status'[a] = "failed"
            \/ stopOnFailure' /\ \E f \in Tasks : f < t /\ status'[f] = "failed"
        BY <1>1, <1>5, <2>1, <2>2, <2>4 DEF RunnerInv, HaltMeansFailure
      <3>2. skipReason'[t] = why
        BY <1>1, <2>4 DEF Skip, RunnerTypeOK
      <3>3. CASE why \in Blocking(next)
        BY <1>1, <1>2, <2>2, <2>4, <3>1, <3>2, <3>3 DEF Blocking, RunnerTypeOK
      <3>4. CASE why = Halted
        BY <1>1, <2>3, <2>4, <3>1, <3>2, <3>4 DEF Blocking, RunnerTypeOK
      <3> QED
        BY <3>3, <3>4
    <2>5. CASE t # next
      <3>1. status[t] = "skipped" /\ skipReason'[t] = skipReason[t]
        BY <1>1, <2>5 DEF Skip, RunnerTypeOK
      <3>2. \/ \E a \in Ancestors(t) : status[a] = "failed"
            \/ stopOnFailure /\ \E f \in Tasks : f < t /\ status[f] = "failed"
        BY <3>1 DEF RunnerInv, SkipsAreJustified
      <3>3. \/ \E a \in Ancestors(t)' : status'[a] = "failed"
            \/ stopOnFailure' /\ \E f \in Tasks : f < t /\ status'[f] = "failed"
        BY <1>1, <2>1, <2>2, <3>2 DEF Ancestors
      <3>4. \/ skipReason[t] \in deps[t] /\ status[skipReason[t]] \in {"failed", "skipped"}
            \/ skipReason[t] = Halted /\ \A d \in deps[t] : status[d] = "completed"
        BY <3>1 DEF RunnerInv, SkipsAreJustified
      <3> QED
        BY <1>1, <2>2, <2>3, <3>1, <3>3, <3>4 DEF RunnerTypeOK
    <2> QED
      BY <2>4, <2>5
  <1>9. ReportIsOfStatus'
    BY <1>1 DEF RunnerInv, ReportIsOfStatus
  <1> QED
    BY <1>3, <1>4, <1>6, <1>7, <1>8, <1>9 DEF RunnerInv

\* Starting a handler keeps the invariant.
LEMMA StartKeepsInv == RunnerInv /\ StartTask => RunnerInv'
  <1> SUFFICES ASSUME RunnerInv, StartTask
               PROVE  RunnerInv'
    OBVIOUS
  <1> USE NAssumption
  <1>1. /\ RunnerTypeOK /\ next \in Tasks
        /\ status[next] = "pending"
        /\ status' = [status EXCEPT ![next] = "running"]
        /\ \A d \in deps[next] : status[d] = "completed"
        /\ UNCHANGED <<deps, stopOnFailure, next, halted, report>>
    BY DEF RunnerInv, RunnerTypeOK, Walk, AtHandler, StartTask, Blocking, Tasks
  <1>2. RunnerTypeOK'
    BY <1>1 DEF StartTask, RunnerTypeOK, Statuses, NoReason, Tasks
  <1>3. DepsAreEarlier' /\ Walk'
    BY <1>1 DEF RunnerInv, RunnerTypeOK, StartTask, DepsAreEarlier, Walk, AtHandler, Settled, Tasks
  <1>4. HaltMeansFailure'
    BY <1>1 DEF RunnerInv, HaltMeansFailure, RunnerTypeOK, AtHandler, StartTask, Tasks
  <1>5. RanAfterDeps'
    BY <1>1 DEF RunnerInv, RanAfterDeps, Ran, RunnerTypeOK, DepsAreEarlier, Tasks
  <1>6. NothingRunsAfterFailure'
    BY <1>1 DEF RunnerInv, HaltMeansFailure, NothingRunsAfterFailure, Ran, RunnerTypeOK, StartTask
  <1>7. SkipsAreJustified'
    BY <1>1 DEF RunnerInv, SkipsAreJustified, Ancestors, RunnerTypeOK, StartTask
  <1>8. ReportIsOfStatus'
    BY <1>1 DEF RunnerInv, ReportIsOfStatus, StartTask
  <1> QED
    BY <1>2, <1>3, <1>4, <1>5, <1>6, <1>7, <1>8 DEF RunnerInv

\* Settling the running task keeps the invariant.
LEMMA FinishKeepsInv ==
    ASSUME RunnerInv, NEW o \in Outcomes, FinishTask(o)
    PROVE  RunnerInv'
  <1> USE NAssumption
  <1> DEFINE s == IF o = "ok" THEN "completed" ELSE "failed"
  <1>1. /\ RunnerTypeOK /\ next \in Tasks
        /\ status[next] = "running"
        /\ status' = [status EXCEPT ![next] = s]
        /\ ~halted
        /\ halted' = (stopOnFailure /\ s = "failed")
        /\ next' = next + 1 /\ runState' = "loop"
        /\ UNCHANGED <<deps, stopOnFailure, skipReason, report>>
    BY DEF RunnerInv, RunnerTypeOK, Walk, HaltMeansFailure, AtHandler, FinishTask, Tasks
  <1>2. s \in {"completed", "failed"}
    OBVIOUS
  <1> HIDE DEF s
  <1>3. RunnerTypeOK'
    BY <1>1, <1>2 DEF RunnerTypeOK, Statuses, Settled, Tasks
  <1>4. DepsAreEarlier' /\ Walk'
    BY <1>1, <1>2, runState = "handler" DEF RunnerInv, RunnerTypeOK, DepsAreEarlier, Walk, AtHandler, Settled, Tasks, FinishTask
  <1>5. HaltMeansFailure'
    BY <1>1, <1>2 DEF RunnerInv, HaltMeansFailure, RunnerTypeOK, AtHandler, Tasks
  <1>6. RanAfterDeps'
    BY <1>1, <1>2 DEF RunnerInv, RanAfterDeps, Ran, RunnerTypeOK, DepsAreEarlier, Tasks
  <1>7. NothingRunsAfterFailure'
    BY <1>1, <1>2 DEF RunnerInv, Walk, AtHandler, HaltMeansFailure, NothingRunsAfterFailure, Ran, RunnerTypeOK, Settled, FinishTask, Tasks
  <1>8. SkipsAreJustified'
    BY <1>1, <1>2 DEF RunnerInv, SkipsAreJustified, Ancestors, RunnerTypeOK
  <1>9. ReportIsOfStatus'
    BY <1>1 DEF RunnerInv, ReportIsOfStatus, FinishTask
  <1> QED
    BY <1>3, <1>4, <1>5, <1>6, <1>7, <1>8, <1>9 DEF RunnerInv

\* Returning the report keeps the invariant.
LEMMA ReportKeepsInv == RunnerInv /\ BuildReport => RunnerInv'
  <1> SUFFICES ASSUME RunnerInv, BuildReport
               PROVE  RunnerInv'
    OBVIOUS
  <1> USE NAssumption
  <1>1. RunnerTypeOK'
    <2>1. ReportOf(status) \in Reports
      BY CountExtremes DEF RunnerInv, RunnerTypeOK, ReportOf, Reports
    <2> QED
      BY <2>1 DEF RunnerInv, RunnerTypeOK, BuildReport, Over
  <1>2. DepsAreEarlier' /\ Walk'
    BY DEF RunnerInv, RunnerTypeOK, BuildReport, DepsAreEarlier, Walk, AtHandler
  <1>3. HaltMeansFailure'
    BY DEF RunnerInv, HaltMeansFailure, AtHandler, BuildReport
  <1>4. RanAfterDeps' /\ NothingRunsAfterFailure' /\ SkipsAreJustified'
    BY DEF RunnerInv, RanAfterDeps, NothingRunsAfterFailure, SkipsAreJustified,
           Ran, Ancestors, BuildReport
  <1>5. ReportIsOfStatus'
    BY DEF ReportIsOfStatus, BuildReport
  <1> QED
    BY <1>1, <1>2, <1>3, <1>4, <1>5 DEF RunnerInv

\* The steps that only move runState, before the loop or out of a handler.
LEMMA MoveKeepsInv == RunnerInv /\ (ValidateContext \/ Deploy \/ Interrupt) => RunnerInv'
  <1> SUFFICES ASSUME RunnerInv, ValidateContext \/ Deploy \/ Interrupt
               PROVE  RunnerInv'
    OBVIOUS
  <1>1. UNCHANGED <<deps, stopOnFailure, status, skipReason, next, halted, report>>
    BY DEF ValidateContext, Deploy, Interrupt
  <1>2. /\ runState \in {"validate", "deploy", "handler"}
        /\ runState' \in {"deploy", "loop", "raised", "interrupted"}
        /\ runState = "handler" <=> runState' = "interrupted"
        /\ runState' = "deploy" => runState = "validate"
    BY DEF ValidateContext, Deploy, Interrupt
  <1>3. RunnerTypeOK'
    BY <1>1, <1>2 DEF RunnerInv, RunnerTypeOK, Over
  <1>4. DepsAreEarlier' /\ Walk' /\ HaltMeansFailure'
    BY <1>1, <1>2 DEF RunnerInv, DepsAreEarlier, Walk, HaltMeansFailure, AtHandler
  <1>5. RanAfterDeps' /\ NothingRunsAfterFailure' /\ SkipsAreJustified'
    BY <1>1 DEF RunnerInv, RanAfterDeps, NothingRunsAfterFailure, SkipsAreJustified,
                Ran, Ancestors
  <1>6. ReportIsOfStatus'
    BY <1>1, <1>2 DEF RunnerInv, ReportIsOfStatus
  <1> QED
    BY <1>3, <1>4, <1>5, <1>6 DEF RunnerInv

\* Every step keeps the invariant, one case per action.
LEMMA NextKeepsInv == RunnerInv /\ [RunnerNext]_runnerVars => RunnerInv'
  <1> SUFFICES ASSUME RunnerInv, [RunnerNext]_runnerVars
               PROVE  RunnerInv'
    OBVIOUS
  <1>1. CASE ValidateContext \/ Deploy \/ Interrupt
    BY <1>1, MoveKeepsInv
  <1>2. CASE SkipAfterHalt
    <2>1. PICK why \in Blocking(next) \cup {Halted} :
              Skip(next, why, TRUE) /\ (why = Halted => Blocking(next) = {})
      <3>1. Halted \notin Blocking(next)
        BY <1>2, NAssumption
           DEF SkipAfterHalt, RunnerInv, RunnerTypeOK, Blocking, Halted, Tasks
      <3> QED
        BY <1>2, <3>1 DEF SkipAfterHalt
    <2> QED
      BY <1>2, <2>1, SkipKeepsInv DEF SkipAfterHalt
  <1>3. CASE SkipBlocked
    <2>1. PICK why \in Blocking(next) : Skip(next, why, stopOnFailure)
      BY <1>3 DEF SkipBlocked
    <2>2. why # Halted
      BY <1>3, NAssumption
         DEF SkipBlocked, RunnerInv, RunnerTypeOK, Blocking, Halted, Tasks
    <2> QED
      BY <1>3, <2>1, <2>2, SkipKeepsInv DEF SkipBlocked, RunnerInv, RunnerTypeOK
  <1>4. CASE StartTask
    BY <1>4, StartKeepsInv
  <1>5. CASE BuildReport
    BY <1>5, ReportKeepsInv
  <1>6. CASE \E o \in Outcomes : FinishTask(o)
    BY <1>6, FinishKeepsInv
  <1>7. CASE UNCHANGED runnerVars
    BY <1>7 DEF runnerVars, RunnerInv, RunnerTypeOK, DepsAreEarlier, Walk, AtHandler,
                HaltMeansFailure, RanAfterDeps, NothingRunsAfterFailure,
                SkipsAreJustified, Ran, Ancestors, ReportIsOfStatus
  <1> QED
    BY <1>1, <1>2, <1>3, <1>4, <1>5, <1>6, <1>7
       DEF RunnerNext, RunnerStep, HandlerStep, RunnerDone

\* The invariant holds in every state of every behaviour.
THEOREM RunnerInvHolds == RunnerSpec => []RunnerInv
  <1> QED
    BY InitInv, NextKeepsInv, PTL DEF RunnerSpec

-----------------------------------------------------------------------------
(***************************************************************************)
(* What the invariant gives.                                               *)
(***************************************************************************)

\* Every variable keeps its type, whatever the length of the plan.
THEOREM RunnerTypeCorrect == RunnerSpec => []RunnerTypeOK
  <1>1. RunnerInv => RunnerTypeOK
    BY DEF RunnerInv
  <1> QED
    BY <1>1, RunnerInvHolds, PTL

\* A handler runs only when all the ancestors of its task have completed: the
\* task and the completed tasks form a set closed under dependencies.
THEOREM RanAfterAncestorsHolds == RunnerSpec => []RanAfterAncestors
  <1>1. RunnerInv => RanAfterAncestors
    <2> SUFFICES ASSUME RunnerInv, NEW t \in Tasks, Ran(t),
                        NEW a \in Ancestors(t) \ {t}
                 PROVE  status[a] = "completed"
      BY DEF RanAfterAncestors
    <2> DEFINE S == {t} \cup {u \in Tasks : status[u] = "completed"}
    <2>1. \A u \in S : Ran(u)
      BY DEF Ran
    <2>2. S \in SUBSET Tasks /\ t \in S
      OBVIOUS
    <2>3. \A u \in S : deps[u] \subseteq S
      BY <2>1, <2>2 DEF RunnerInv, RanAfterDeps, RunnerTypeOK
    <2>4. a \in S
      <3>1. deps \in [Tasks -> SUBSET Tasks]
        BY DEF RunnerInv, RunnerTypeOK
      <3> HIDE DEF S
      <3>2. Ancestors(t) \subseteq S
        BY <2>2, <2>3, <3>1, AncestorsWithin
      <3> QED
        BY <3>2
    <2> QED
      BY <2>4
  <1> QED
    BY <1>1, RunnerInvHolds, PTL

\* With stop_on_failure nothing runs after the first failure.
THEOREM NothingRunsAfterFailureHolds == RunnerSpec => []NothingRunsAfterFailure
  <1>1. RunnerInv => NothingRunsAfterFailure
    BY DEF RunnerInv
  <1> QED
    BY <1>1, RunnerInvHolds, PTL

\* No task is skipped without a failure to blame, and the reason is true.
THEOREM SkipsAreJustifiedHolds == RunnerSpec => []SkipsAreJustified
  <1>1. RunnerInv => SkipsAreJustified
    BY DEF RunnerInv
  <1> QED
    BY <1>1, RunnerInvHolds, PTL

\* A state of the invariant has a truthful report: the counts partition the plan.
LEMMA InvIsTruthful == RunnerInv => ReportIsTruthful
  <1> SUFFICES ASSUME RunnerInv, report # NoReport
               PROVE  /\ AcceptedReport(report)
                      /\ report.tasks = status
                      /\ report.status = "completed"
                            <=> \A t \in Tasks : status[t] = "completed"
    BY DEF ReportIsTruthful
  <1>1. report = ReportOf(status) /\ next = N + 1 /\ runState = "returned"
    BY DEF RunnerInv, ReportIsOfStatus, Walk
  <1>2. status \in [Tasks -> Settled]
    BY <1>1, NAssumption DEF RunnerInv, RunnerTypeOK, Walk, Tasks
  <1> DEFINE c == CountOf(status, "completed")
             f == CountOf(status, "failed")
             k == CountOf(status, "skipped")
  <1>3. c \in Nat /\ f \in Nat /\ k \in Nat /\ Cardinality(Tasks) = N
    BY CountExtremes
  <1>4. c + f + k = N
    BY <1>2, CountsAddUp
  <1>5. c = N <=> \A t \in Tasks : status[t] = "completed"
    BY CountExtremes
  <1>6. /\ report.total = N /\ report.completed = c
        /\ report.failed = f /\ report.skipped = k /\ report.tasks = status
        /\ report.status = IF f > 0 \/ (k > 0 /\ c < N) THEN "failed" ELSE "completed"
    BY <1>1 DEF ReportOf
  <1> HIDE DEF c, f, k
  <1>7. AcceptedReport(report)
    <2>1. DOMAIN report.tasks = Tasks
      BY <1>2, <1>6
    <2> QED
      BY <1>3, <1>4, <1>6, <2>1, NAssumption DEF AcceptedReport
  <1>8. report.status = "completed" <=> c = N
    BY <1>3, <1>4, <1>6, NAssumption
  <1> QED
    BY <1>5, <1>6, <1>7, <1>8

\* The report passes the orchestrator's validation and is a success exactly
\* when every task completed.
THEOREM ReportIsTruthfulHolds == RunnerSpec => []ReportIsTruthful
  <1> QED
    BY InvIsTruthful, RunnerInvHolds, PTL

\* A settled task is never touched again.
THEOREM SettledIsFinalHolds == RunnerSpec => SettledIsFinal
  <1>1. RunnerInv /\ [RunnerNext]_runnerVars =>
          [\A t \in Tasks : status[t] \in Settled =>
             status'[t] = status[t] /\ skipReason'[t] = skipReason[t]]_runnerVars
    <2> SUFFICES ASSUME RunnerInv, RunnerNext, NEW t \in Tasks, status[t] \in Settled
                 PROVE  status'[t] = status[t] /\ skipReason'[t] = skipReason[t]
      OBVIOUS
    <2>1. /\ status \in [Tasks -> Statuses] /\ skipReason \in [Tasks -> 0..(N + 1)]
          /\ next <= N => status[next] \in {"pending", "running"}
      BY DEF RunnerInv, RunnerTypeOK, Walk, AtHandler
    <2>2. runState \in {"loop", "handler"} /\ next <= N => t # next
      BY <2>1 DEF Settled
    <2>3. runState = "handler" => next <= N
      BY DEF RunnerInv, Walk, AtHandler
    <2> QED
      BY <2>1, <2>2, <2>3
         DEF RunnerNext, RunnerStep, HandlerStep, RunnerDone, runnerVars, ValidateContext,
             Deploy, SkipAfterHalt, SkipBlocked, Skip, StartTask, FinishTask, Interrupt,
             BuildReport
  <1> QED
    BY <1>1, RunnerInvHolds, PTL DEF RunnerSpec, SettledIsFinal
=============================================================================
