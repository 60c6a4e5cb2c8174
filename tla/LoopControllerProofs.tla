------------------------ MODULE LoopControllerProofs ------------------------
(***************************************************************************)
(* The safety properties of LoopController, proved for plans of any size,  *)
(* any limits and thresholds, and any number of runs and restarts.         *)
(*                                                                         *)
(* The inductive invariant says at each place of an iteration how the      *)
(* plan, the counters and the statistics stand to the history: which step  *)
(* the next entry will be about, which decision led to it, and what the    *)
(* iteration under way has counted already that is not in the history.     *)
(***************************************************************************)
EXTENDS LoopController, FiniteSetTheorems, TLAPS

PlanSteps == [id : StepIds, repaired : BOOLEAN]

Plans == [steps : Seq(PlanSteps), start : Nat, current : Nat]

Steps == [index : Nat, id : StepIds, repaired : BOOLEAN]

Entries == [plan : Nat, step : Steps, pattern : Patterns, decision : Decisions]

Outcomes ==
    {Running, "success", "raised", "max_iterations", "escalated", "abort", "failure_threshold"}

LoopTypeOK ==
    /\ pc \in {"idle", "plan", "execute", "decide", "save", "conclude"}
    /\ iteration \in Nat /\ failures \in Nat /\ plans \in Nat /\ runs \in Nat
    /\ plan \in Plans /\ step \in Steps
    /\ stepFailures \in [StepIds -> Nat]
    /\ decision \in Decisions \cup {NoDecision} /\ pattern \in Patterns
    /\ stats \in [Pairs -> Nat] /\ memory \in [Pairs -> Nat]
    /\ context \in [Pairs -> Nat] /\ unsaved \in [Pairs -> Nat]
    /\ history \in Seq(Entries) /\ outcome \in Outcomes

\* Where an iteration has a step, and where the last decision stands in the history.
Stepping == {"execute", "decide", "save", "conclude"}

Last == history[Len(history)]

\* The step to be executed next.
Here == [index |-> plan.current, id |-> CurrentStep.id, repaired |-> CurrentStep.repaired]

PlanInv ==
    /\ plan.start <= plan.current /\ plan.current <= Len(plan.steps)
    /\ pc \in {"execute", "decide"} => plan.current < Len(plan.steps)
    /\ pc \in Stepping => plans > 0
    /\ \A k \in 1..Len(history) : history[k].plan \in 1..plans

\* The decision is about the last result, and the plan stands where it leaves it.
Decided ==
    /\ decision \in Decisions \ {"abort"}
    /\ decision = "advance_step" <=> pattern = "none"
    /\ decision = "escalate" <=> pattern = "policy_violation"
    /\ decision = "retry_same" => pattern = "runtime_error"
    /\ decision = "advance_step" => plan.current = step.index + 1
    /\ decision # "advance_step" => plan.current = step.index /\ plan.current < Len(plan.steps)
    /\ decision \in {"retry_same", "adjust_plan"} =>
          CurrentStep.id = step.id /\ CurrentStep.repaired = step.repaired
    /\ decision = "repair_step" => CurrentStep.repaired

\* The last entry of the history is about the last iteration.
OnRecord ==
    Last.plan = plans /\ Last.step = step /\ Last.pattern = pattern /\ Last.decision = decision

DecisionInv ==
    /\ pc = "decide" => step = Here
    /\ pc \in {"save", "conclude"} => Decided
    /\ pc = "conclude" => history # <<>>
    /\ pc \in {"plan", "conclude"} /\ history # <<>> => Decided /\ OnRecord
    /\ pc = "plan" => decision # "escalate"

\* What an entry says comes next: a step under a plan.
Follows(e, n, s) ==
    /\ e.decision \in {"advance_step", "retry_same", "repair_step", "adjust_plan"}
    /\ e.decision = "advance_step" => n = e.plan /\ s.index = e.step.index + 1
    /\ e.decision = "retry_same" =>
          e.pattern = "runtime_error" /\ n = e.plan /\ s = e.step
    /\ e.decision = "repair_step" =>
          n = e.plan /\ s.index = e.step.index /\ s.repaired
    /\ e.decision = "adjust_plan" => n = e.plan + 1 \/ (n = e.plan /\ s = e.step)

FollowInv ==
    /\ \A k \in 1..(Len(history) - 1) :
          Follows(history[k], history[k + 1].plan, history[k + 1].step)
    /\ history # <<>> /\ pc = "execute" => Follows(Last, plans, Here)
    /\ history # <<>> /\ pc \in {"decide", "save"} => Follows(Last, plans, step)

\* The iterations of a history that failed, or succeeded under a plan, or failed at a
\* step; and those of a set before one.
FailedIn(h) == {k \in 1..Len(h) : Failed(h[k])}

DoneIn(h, n) == {k \in 1..Len(h) : h[k].plan = n /\ ~Failed(h[k])}

OfStep(h, id, k) == {j \in 1..k : Failed(h[j]) /\ h[j].step.id = id}

Before(S, k) == {j \in S : j < k}

ProgressInv ==
    /\ \A k \in DoneIn(history, plans) :
          history[k].step.index = plan.start + Cardinality(Before(DoneIn(history, plans), k))
    /\ pc \in {"plan", "execute", "decide", "conclude"} =>
          plan.current = plan.start + Cardinality(DoneIn(history, plans))
    /\ pc = "save" => step.index = plan.start + Cardinality(DoneIn(history, plans))
    /\ outcome = "success" =>
          /\ plan.current = Len(plan.steps)
          /\ plan.current = plan.start + Cardinality(DoneIn(history, plans))

CountInv ==
    /\ Len(history) <= iteration /\ iteration <= MaxIterations
    /\ pc \in {"plan", "conclude"} => Len(history) = iteration
    /\ pc \in {"execute", "decide", "save"} => Len(history) + 1 = iteration
    /\ Cardinality(FailedIn(history)) <= FailureThreshold
    /\ pc \in {"plan", "execute", "decide", "save"} =>
          failures = Cardinality(FailedIn(history)) /\ failures < FailureThreshold
    /\ pc = "conclude" =>
          /\ failures < FailureThreshold
          /\ pattern = "none" => failures = Cardinality(FailedIn(history))
          /\ pattern # "none" => failures + 1 = Cardinality(FailedIn(history))

EndInv ==
    /\ pc # "idle" => outcome = Running
    /\ \A k \in 1..Len(history) :
          history[k].pattern = "policy_violation" =>
             k = Len(history) /\ (pc = "conclude" \/ outcome = "escalated")
    /\ outcome = "escalated" => history # <<>> /\ Last.pattern = "policy_violation"
    /\ outcome = "failure_threshold" => Cardinality(FailedIn(history)) = FailureThreshold
    /\ outcome = "max_iterations" =>
          Len(history) = MaxIterations /\ Cardinality(FailedIn(history)) < FailureThreshold
    /\ outcome # "abort"

\* A step that failed in this way, and has now failed this often, is to be repaired.
RepairDue(how, n) == how # "none" /\ how # "policy_violation" /\ n >= StepThreshold

\* Failures of a step are counted over the run, the one under way included.
RepairInv ==
    /\ \A k \in 1..Len(history) :
          history[k].decision = "repair_step" <=>
             RepairDue(history[k].pattern,
                       Cardinality(OfStep(history, history[k].step.id, k)))
    /\ \A id \in StepIds :
          /\ pc \in {"plan", "execute", "conclude"}
                \/ (pc \in {"decide", "save"} /\ (id # step.id \/ pattern = "none"))
             => stepFailures[id] = Cardinality(OfStep(history, id, Len(history)))
          /\ pc \in {"decide", "save"} /\ id = step.id /\ pattern # "none"
             => stepFailures[id] = Cardinality(OfStep(history, id, Len(history))) + 1
    /\ pc = "save" => (decision = "repair_step" <=> RepairDue(pattern, stepFailures[step.id]))

StatsInv ==
    \A p \in Pairs :
        /\ pc # "save" \/ p # <<pattern, decision>> => stats[p] <= memory[p] + unsaved[p]
        /\ pc = "save" => stats[p] <= memory[p] + unsaved[p] + 1

LoopInv ==
    /\ LoopTypeOK /\ PlanInv /\ DecisionInv /\ FollowInv
    /\ ProgressInv /\ CountInv /\ EndInv /\ RepairInv /\ StatsInv

-----------------------------------------------------------------------------
(***************************************************************************)
(* What one more entry adds to the counts of a history.                    *)
(***************************************************************************)
LEMMA OneMoreEntry ==
    ASSUME NEW h \in Seq(Entries), NEW f \in Entries, NEW g, g = Append(h, f),
           NEW n, n = Len(h) + 1
    PROVE  /\ n \in Nat \ {0} /\ g \in Seq(Entries) /\ Len(g) = n /\ g[n] = f
           /\ \A k \in 1..Len(h) : g[k] = h[k]
           /\ \A k : k \in 1..n <=> k \in 1..Len(h) \/ k = n
           /\ n \notin 1..Len(h)
  OBVIOUS

LEMMA CountsAreFinite ==
    ASSUME NEW h \in Seq(Entries)
    PROVE  /\ IsFiniteSet(FailedIn(h)) /\ Cardinality(FailedIn(h)) \in Nat
           /\ \A n : /\ IsFiniteSet(DoneIn(h, n)) /\ Cardinality(DoneIn(h, n)) \in Nat
           /\ \A id : \A k \in 0..Len(h) :
                 IsFiniteSet(OfStep(h, id, k)) /\ Cardinality(OfStep(h, id, k)) \in Nat
  <1>1. \A k \in 0..Len(h) : IsFiniteSet(1..k)
    BY FS_Interval
  <1>2. Len(h) \in 0..Len(h)
    OBVIOUS
  <1>3. FailedIn(h) \in SUBSET (1..Len(h)) /\ \A n : DoneIn(h, n) \in SUBSET (1..Len(h))
    BY DEF FailedIn, DoneIn
  <1>4. \A id : \A k \in 0..Len(h) : OfStep(h, id, k) \in SUBSET (1..k)
    BY DEF OfStep
  <1>5. IsFiniteSet(FailedIn(h)) /\ \A n : IsFiniteSet(DoneIn(h, n))
    BY <1>1, <1>2, <1>3, FS_Subset
  <1>6. \A id : \A k \in 0..Len(h) : IsFiniteSet(OfStep(h, id, k))
    BY <1>1, <1>4, FS_Subset
  <1> QED
    BY <1>5, <1>6, FS_CardinalityType

LEMMA FailuresCounted ==
    ASSUME NEW h \in Seq(Entries), NEW f \in Entries, NEW g, g = Append(h, f)
    PROVE  /\ Failed(f) => Cardinality(FailedIn(g)) = Cardinality(FailedIn(h)) + 1
           /\ ~Failed(f) => Cardinality(FailedIn(g)) = Cardinality(FailedIn(h))
  <1> PICK n : n = Len(h) + 1
    OBVIOUS
  <1>1. /\ Len(g) = n /\ g[n] = f /\ n \notin 1..Len(h)
        /\ \A k \in 1..Len(h) : g[k] = h[k]
        /\ \A k : k \in 1..n <=> k \in 1..Len(h) \/ k = n
    BY OneMoreEntry
  <1>2. Failed(f) => FailedIn(g) = FailedIn(h) \cup {n}
    BY <1>1 DEF FailedIn
  <1>3. ~Failed(f) => FailedIn(g) = FailedIn(h)
    BY <1>1 DEF FailedIn
  <1>4. n \notin FailedIn(h)
    BY <1>1 DEF FailedIn
  <1>5. Cardinality(FailedIn(h) \cup {n}) = Cardinality(FailedIn(h)) + 1
    BY <1>4, CountsAreFinite, FS_AddElement
  <1> QED
    BY <1>2, <1>3, <1>5

\* The successes under a plan, and where each stands among them, after one more entry.
OneMoreResult(h, f, g, m) ==
    /\ ~Failed(f) => Cardinality(DoneIn(g, m)) = Cardinality(DoneIn(h, m)) + 1
    /\ Failed(f) => Cardinality(DoneIn(g, m)) = Cardinality(DoneIn(h, m))
    /\ \A k \in 1..Len(h) : k \in DoneIn(g, m) <=> k \in DoneIn(h, m)
    /\ \A k \in 1..Len(h) : Cardinality(Before(DoneIn(g, m), k))
                              = Cardinality(Before(DoneIn(h, m), k))
    /\ Cardinality(Before(DoneIn(g, m), Len(g))) = Cardinality(DoneIn(h, m))
    /\ Len(g) \in DoneIn(g, m) <=> ~Failed(f)

LEMMA SuccessesCounted ==
    ASSUME NEW h \in Seq(Entries), NEW f \in Entries, NEW g, g = Append(h, f),
           NEW m, f.plan = m
    PROVE  OneMoreResult(h, f, g, m)
  <1> PICK n : n = Len(h) + 1
    OBVIOUS
  <1>1. /\ Len(g) = n /\ g[n] = f /\ n \notin 1..Len(h)
        /\ \A k \in 1..Len(h) : g[k] = h[k]
        /\ \A k : k \in 1..n <=> k \in 1..Len(h) \/ k = n
    BY OneMoreEntry
  <1>2. ~Failed(f) => DoneIn(g, m) = DoneIn(h, m) \cup {n}
    BY <1>1 DEF DoneIn
  <1>3. Failed(f) => DoneIn(g, m) = DoneIn(h, m)
    BY <1>1 DEF DoneIn
  <1>4. n \notin DoneIn(h, m) /\ DoneIn(h, m) \subseteq 1..Len(h)
    BY <1>1 DEF DoneIn
  <1>5. Cardinality(DoneIn(h, m) \cup {n}) = Cardinality(DoneIn(h, m)) + 1
    BY <1>4, CountsAreFinite, FS_AddElement
  <1>6. \A k \in 1..Len(h) : k \in DoneIn(g, m) <=> k \in DoneIn(h, m)
    BY <1>1 DEF DoneIn
  <1>7. \A k \in 1..n : \A j : j < k /\ j \in DoneIn(g, m) => j \in DoneIn(h, m)
    <2>1. \A k \in 1..n : ~(n < k)
      OBVIOUS
    <2> QED
      BY <1>2, <1>3, <2>1
  <1>8. DoneIn(h, m) \subseteq DoneIn(g, m)
    BY <1>2, <1>3
  <1>9. ASSUME NEW k \in 1..n
        PROVE  Before(DoneIn(g, m), k) = Before(DoneIn(h, m), k)
    BY <1>7, <1>8 DEF Before
  <1>10. Before(DoneIn(h, m), n) = DoneIn(h, m)
    BY <1>4 DEF Before
  <1>11. n \in 1..n /\ 1..Len(h) \subseteq 1..n
    BY <1>1
  <1>12. Cardinality(Before(DoneIn(g, m), n)) = Cardinality(DoneIn(h, m))
    BY <1>9, <1>10, <1>11
  <1>13. \A k \in 1..Len(h) : Cardinality(Before(DoneIn(g, m), k))
                                 = Cardinality(Before(DoneIn(h, m), k))
    BY <1>9, <1>11
  <1>14. n \in DoneIn(g, m) <=> ~Failed(f)
    BY <1>1, <1>11 DEF DoneIn
  <1> QED
    BY <1>1, <1>2, <1>3, <1>5, <1>6, <1>12, <1>13, <1>14 DEF OneMoreResult

\* The failures of a step after one more entry.
OneMoreOfStep(h, f, g, id) ==
    /\ \A k \in 1..Len(h) : Cardinality(OfStep(g, id, k)) = Cardinality(OfStep(h, id, k))
    /\ Failed(f) /\ f.step.id = id =>
          Cardinality(OfStep(g, id, Len(g))) = Cardinality(OfStep(h, id, Len(h))) + 1
    /\ ~Failed(f) \/ f.step.id # id =>
          Cardinality(OfStep(g, id, Len(g))) = Cardinality(OfStep(h, id, Len(h)))

LEMMA StepFailuresCounted ==
    ASSUME NEW h \in Seq(Entries), NEW f \in Entries, NEW g, g = Append(h, f), NEW id
    PROVE  OneMoreOfStep(h, f, g, id)
  <1> PICK n : n = Len(h) + 1
    OBVIOUS
  <1>1. /\ Len(g) = n /\ g[n] = f /\ n \notin 1..Len(h)
        /\ \A k \in 1..Len(h) : g[k] = h[k]
        /\ \A k : k \in 1..n <=> k \in 1..Len(h) \/ k = n
    BY OneMoreEntry
  <1>2. \A k \in 1..Len(h) : 1..k \subseteq 1..Len(h)
    OBVIOUS
  <1>3. ASSUME NEW k \in 1..Len(h)
        PROVE  OfStep(g, id, k) = OfStep(h, id, k)
    BY <1>1, <1>2 DEF OfStep
  <1>4. Failed(f) /\ f.step.id = id => OfStep(g, id, n) = OfStep(h, id, Len(h)) \cup {n}
    BY <1>1 DEF OfStep
  <1>5. ~Failed(f) \/ f.step.id # id => OfStep(g, id, n) = OfStep(h, id, Len(h))
    BY <1>1 DEF OfStep
  <1>6. n \notin OfStep(h, id, Len(h))
    BY <1>1 DEF OfStep
  <1>7. IsFiniteSet(OfStep(h, id, Len(h)))
    <2>1. Len(h) \in 0..Len(h)
      OBVIOUS
    <2> QED
      BY <2>1, CountsAreFinite
  <1>8. Cardinality(OfStep(h, id, Len(h)) \cup {n}) = Cardinality(OfStep(h, id, Len(h))) + 1
    BY <1>6, <1>7, FS_AddElement
  <1>9. \A k \in 1..Len(h) : Cardinality(OfStep(g, id, k)) = Cardinality(OfStep(h, id, k))
    BY <1>3
  <1> QED
    BY <1>1, <1>4, <1>5, <1>8, <1>9 DEF OneMoreOfStep

-----------------------------------------------------------------------------
(***************************************************************************)
(* The actions.                                                            *)
(***************************************************************************)

\* A run that goes on has not ended in any way, and has a decision or none.
LEMMA DistinctWords ==
    /\ Running \notin {"success", "raised", "max_iterations", "escalated", "abort",
                       "failure_threshold"}
    /\ NoDecision \notin Decisions
  BY Zenon DEF Running, NoDecision, Decisions

LEMMA NothingIsThere ==
    Nothing \in [Pairs -> Nat] /\ \A p \in Pairs : Nothing[p] = 0
  BY DEF Nothing

LEMMA NoHistoryNoCounts ==
    /\ Cardinality(FailedIn(<<>>)) = 0 /\ \A n : DoneIn(<<>>, n) = {}
    /\ \A n : Cardinality(DoneIn(<<>>, n)) = 0
    /\ \A id : Cardinality(OfStep(<<>>, id, 0)) = 0
  <1>1. FailedIn(<<>>) = {} /\ \A n : DoneIn(<<>>, n) = {}
    BY DEF FailedIn, DoneIn
  <1>2. \A id : OfStep(<<>>, id, 0) = {}
    BY DEF OfStep
  <1> QED
    BY <1>1, <1>2, FS_EmptySet

\* No run is under way, or one has just been started, and nothing is in the history.
Fresh ==
    /\ LoopTypeOK /\ StatsInv
    /\ pc \in {"idle", "plan"} /\ iteration = 0 /\ failures = 0
    /\ plan = NoPlan /\ plans = 0 /\ stepFailures = [i \in StepIds |-> 0]
    /\ decision = NoDecision /\ history = <<>> /\ outcome = Running

LEMMA FreshStart == Fresh => LoopInv
  <1> SUFFICES ASSUME Fresh
               PROVE  LoopInv
    OBVIOUS
  <1> USE DEF Fresh
  <1>1. /\ plan.start = 0 /\ plan.current = 0 /\ Len(plan.steps) = 0 /\ Len(history) = 0
        /\ pc # "execute" /\ pc # "decide" /\ pc # "save" /\ pc # "conclude"
    BY DEF NoPlan
  <1>2. PlanInv
    BY <1>1 DEF PlanInv, Stepping
  <1>3. DecisionInv
    BY <1>1, DistinctWords DEF DecisionInv, Decisions
  <1>4. FollowInv
    BY <1>1 DEF FollowInv
  <1>5. ProgressInv
    BY <1>1, NoHistoryNoCounts, DistinctWords DEF ProgressInv
  <1>6. CountInv
    BY <1>1, NoHistoryNoCounts, LoopAssumption DEF CountInv
  <1>7. EndInv
    BY <1>1, DistinctWords DEF EndInv
  <1>8. RepairInv
    BY <1>1, NoHistoryNoCounts DEF RepairInv
  <1> QED
    BY <1>2, <1>3, <1>4, <1>5, <1>6, <1>7, <1>8 DEF LoopInv

LEMMA FreshStartNext == Fresh' => LoopInv'
  BY FreshStart, PTL

LEMMA InitLoopInv ==
    ASSUME Init
    PROVE  LoopInv
  <1>1. LoopTypeOK
    <2>1. NoPlan \in Plans
      BY DEF NoPlan, Plans
    <2>2. NoStep \in Steps
      BY LoopAssumption DEF NoStep, Steps, StepIds
    <2>3. history \in Seq(Entries)
      BY DEF Init
    <2>4. "none" \in Patterns /\ [i \in StepIds |-> 0] \in [StepIds -> Nat]
      BY DEF Patterns
    <2> QED
      BY <2>1, <2>2, <2>3, <2>4, NothingIsThere DEF Init, LoopTypeOK, Outcomes
  <1>2. StatsInv
    BY NothingIsThere DEF Init, StatsInv
  <1> QED
    BY <1>1, <1>2, FreshStart DEF Init, Fresh

LEMMA StartRunKeepsInv ==
    ASSUME LoopInv, StartRun
    PROVE  LoopInv'
  <1>1. PICK c \in Retrieved : context' = c /\ stats' = Merge(c)
    BY DEF StartRun
  <1>2. c \in [Pairs -> Nat] /\ \A p \in Pairs : c[p] <= memory[p]
    BY <1>1, NothingIsThere DEF Retrieved, LoopInv, LoopTypeOK
  <1>3. \A p \in Pairs : /\ stats'[p] = IF stats[p] = 0 THEN c[p] ELSE stats[p]
                         /\ stats'[p] \in Nat
    BY <1>1, <1>2 DEF Merge, LoopInv, LoopTypeOK
  <1>4. stats' \in [Pairs -> Nat]
    BY <1>1, <1>3 DEF Merge
  <1>5. StatsInv'
    <2> SUFFICES ASSUME NEW p \in Pairs
                 PROVE  stats'[p] <= memory[p] + unsaved[p]
      BY <1>3 DEF StatsInv, StartRun, LoopInv, LoopTypeOK
    <2>1. stats[p] <= memory[p] + unsaved[p]
      BY DEF StartRun, LoopInv, StatsInv
    <2>2. memory[p] \in Nat /\ unsaved[p] \in Nat /\ stats[p] \in Nat /\ c[p] \in Nat
      BY <1>2 DEF LoopInv, LoopTypeOK
    <2>3. c[p] <= memory[p]
      BY <1>2
    <2>4. stats[p] = 0 => stats'[p] = c[p]
      BY <1>3
    <2>5. stats[p] # 0 => stats'[p] = stats[p]
      BY <1>3
    <2> QED
      BY <2>1, <2>2, <2>3, <2>4, <2>5
  <1>6. LoopTypeOK'
    <2>1. NoPlan \in Plans
      BY DEF NoPlan, Plans
    <2>2. NoStep \in Steps
      BY LoopAssumption DEF NoStep, Steps, StepIds
    <2>3. history' \in Seq(Entries)
      BY DEF StartRun
    <2>4. "none" \in Patterns /\ [i \in StepIds |-> 0] \in [StepIds -> Nat]
      BY DEF Patterns
    <2>5. runs' \in Nat
      BY DEF StartRun, LoopInv, LoopTypeOK
    <2> QED
      BY <1>1, <1>2, <1>4, <2>1, <2>2, <2>3, <2>4, <2>5
         DEF StartRun, LoopInv, LoopTypeOK, Outcomes
  <1> QED
    BY <1>5, <1>6, FreshStartNext DEF StartRun, Fresh

LEMMA RestartKeepsInv ==
    ASSUME LoopInv, Restart
    PROVE  LoopInv'
  <1>1. /\ UNCHANGED <<pc, iteration, failures, plan, stepFailures, decision, step, pattern,
                       memory, context, history, outcome, runs, plans>>
        /\ pc = "idle" /\ stats' = Nothing /\ unsaved' = Nothing
    BY DEF Restart
  <1>2. LoopTypeOK'
    BY <1>1, NothingIsThere DEF LoopInv, LoopTypeOK
  <1>3. StatsInv'
    BY <1>1, NothingIsThere DEF LoopInv, StatsInv, LoopTypeOK
  <1>4. PlanInv' /\ DecisionInv' /\ FollowInv'
    BY <1>1 DEF LoopInv, PlanInv, DecisionInv, FollowInv
  <1>5. ProgressInv' /\ CountInv' /\ EndInv' /\ RepairInv'
    BY <1>1 DEF LoopInv, ProgressInv, CountInv, EndInv, RepairInv, Last
  <1> QED
    BY <1>2, <1>3, <1>4, <1>5 DEF LoopInv

LEMMA IdleKeepsLoopInv ==
    ASSUME LoopInv, UNCHANGED vars
    PROVE  LoopInv'
  <1>1. UNCHANGED <<pc, iteration, failures, plan, stepFailures, decision, step, pattern, stats,
                    memory, context, history, outcome, runs, plans, unsaved>>
    BY DEF vars
  <1>2. LoopTypeOK' /\ StatsInv'
    BY <1>1 DEF LoopInv, LoopTypeOK, StatsInv
  <1>3. PlanInv' /\ DecisionInv' /\ FollowInv'
    BY <1>1 DEF LoopInv, PlanInv, DecisionInv, FollowInv, Decided, OnRecord, Last, Here,
                CurrentStep, Stepping
  <1>4. ProgressInv' /\ CountInv' /\ EndInv' /\ RepairInv'
    BY <1>1 DEF LoopInv, ProgressInv, CountInv, EndInv, RepairInv, Last
  <1> QED
    BY <1>2, <1>3, <1>4 DEF LoopInv

\* What a planner may return.
LEMMA NewPlanFacts ==
    ASSUME NEW p \in NewPlans
    PROVE  p \in Plans /\ p.start = p.current /\ p.current <= Len(p.steps)
  <1>1. PICK n \in 0..MaxSteps, current \in -1..(MaxSteps + 1) : p = Normalize(n, current)
    BY DEF NewPlans
  <1>2. PICK c : c = IF current < 0 THEN 0 ELSE IF current > n THEN n ELSE current
    OBVIOUS
  <1>3. c \in Nat /\ c <= n /\ n \in Nat
    BY <1>1, <1>2, LoopAssumption
  <1>4. PICK s : s = [i \in 1..n |-> [id |-> i, repaired |-> FALSE]]
    OBVIOUS
  <1>5. s \in Seq(PlanSteps) /\ Len(s) = n
    <2>1. \A i \in 1..n : i \in StepIds
      BY <1>1, LoopAssumption DEF StepIds
    <2>2. s \in [1..n -> PlanSteps]
      BY <1>4, <2>1 DEF PlanSteps
    <2> QED
      BY <1>3, <2>2
  <1>6. p = [steps |-> s, start |-> c, current |-> c]
    BY <1>1, <1>2, <1>4 DEF Normalize
  <1> QED
    BY <1>3, <1>5, <1>6 DEF Plans

\* The plan a run goes on with: the one it has, or a new one, at its start.
LEMMA EnsuredPlan ==
    ASSUME LoopInv, pc = "plan", NEW p \in {plan} \cup NewPlans, EnsurePlan(p),
           NEW m, m = plans'
    PROVE  /\ p \in Plans /\ p.start <= p.current /\ p.current <= Len(p.steps)
           /\ m \in Nat /\ m > 0
           /\ \/ m = plans /\ p = plan
              \/ /\ m = plans + 1 /\ p.current = p.start
                 /\ plans = 0 \/ decision = "adjust_plan"
  <1>1. plans \in Nat /\ plan \in Plans
    BY DEF LoopInv, LoopTypeOK
  <1>2. CASE (plans = 0 \/ decision = "adjust_plan") /\ p \in NewPlans /\ m = plans + 1
    <2>1. p \in Plans /\ p.start = p.current /\ p.current <= Len(p.steps)
      BY <1>2, NewPlanFacts
    <2>2. p.start <= p.current
      BY <2>1 DEF Plans
    <2> QED
      BY <1>1, <1>2, <2>1, <2>2
  <1>3. CASE plans > 0 /\ p = plan /\ m = plans
    BY <1>1, <1>3 DEF LoopInv, PlanInv
  <1> QED
    BY <1>2, <1>3 DEF EnsurePlan

\* Nothing has succeeded under a plan that is new.
LEMMA NewPlanHasNothingDone ==
    ASSUME LoopInv, NEW m \in Nat, m > plans
    PROVE  DoneIn(history, m) = {} /\ Cardinality(DoneIn(history, m)) = 0
  <1>1. \A k \in 1..Len(history) : history[k].plan # m
    BY DEF LoopInv, LoopTypeOK, PlanInv
  <1>2. DoneIn(history, m) = {}
    BY <1>1 DEF DoneIn
  <1> QED
    BY <1>2, FS_EmptySet

LEMMA PlanKeepsInv ==
    ASSUME LoopInv, Plan
    PROVE  LoopInv'
  <1>1. /\ pc = "plan" /\ outcome = Running
        /\ UNCHANGED <<failures, stepFailures, decision, step, pattern, stats, memory, context,
                       history, runs, unsaved>>
    BY DEF Plan, LoopInv, EndInv
  <1>2. /\ iteration \in Nat /\ MaxIterations \in Nat /\ Len(history) = iteration
        /\ iteration <= MaxIterations /\ FailureThreshold \in Nat
        /\ Cardinality(FailedIn(history)) < FailureThreshold
        /\ failures = Cardinality(FailedIn(history)) /\ failures \in Nat
    BY <1>1, LoopAssumption DEF LoopInv, LoopTypeOK, CountInv
  <1>3. ASSUME pc' \in {"idle", "execute"}
        PROVE  StatsInv' /\ RepairInv'
    <2>1. StatsInv'
      BY <1>1, <1>3 DEF LoopInv, StatsInv
    <2>2. RepairInv'
      BY <1>1, <1>3 DEF LoopInv, RepairInv
    <2> QED
      BY <2>1, <2>2
  <1>4. \A k \in 1..Len(history) : history[k].pattern # "policy_violation"
    BY <1>1, DistinctWords DEF LoopInv, EndInv
  <1>5. \A k \in 1..(Len(history) - 1) :
            Follows(history[k], history[k + 1].plan, history[k + 1].step)
    BY DEF LoopInv, FollowInv
  <1>6. ASSUME iteration < MaxIterations, iteration' = iteration + 1,
               NEW p \in {plan} \cup NewPlans, EnsurePlan(p), plan' = p
        PROVE  LoopInv' \/ ~(IF AllStepsCompleted(p)
                             THEN End("success")
                             ELSE pc' = "execute" /\ UNCHANGED outcome)
    <2>1. SUFFICES ASSUME IF AllStepsCompleted(p)
                          THEN End("success")
                          ELSE pc' = "execute" /\ UNCHANGED outcome
                   PROVE  LoopInv'
      OBVIOUS
    <2>2. PICK m : m = plans'
      OBVIOUS
    <2>3. /\ p \in Plans /\ p.start <= p.current /\ p.current <= Len(p.steps)
          /\ m \in Nat /\ m > 0
      BY <1>1, <1>6, <2>2, EnsuredPlan
    <2>4. \/ m = plans /\ p = plan
          \/ /\ m = plans + 1 /\ p.current = p.start
             /\ plans = 0 \/ decision = "adjust_plan"
      BY <1>1, <1>6, <2>2, EnsuredPlan
    <2>5. \/ /\ pc' = "idle" /\ outcome' = "success" /\ p.current >= Len(p.steps)
          \/ /\ pc' = "execute" /\ outcome' = Running /\ p.current < Len(p.steps)
      BY <1>1, <2>1, <2>3 DEF AllStepsCompleted, End, Plans
    <2>6. LoopTypeOK'
      BY <1>1, <1>6, <2>2, <2>3, <2>5 DEF LoopInv, LoopTypeOK, Outcomes
    <2>7. PlanInv'
      <3>1. \A k \in 1..Len(history) : history[k].plan \in 1..m
        BY <2>3, <2>4 DEF LoopInv, LoopTypeOK, PlanInv
      <3> QED
        BY <1>1, <1>6, <2>2, <2>3, <2>5, <3>1 DEF PlanInv
    <2>8. DecisionInv'
      BY <2>5 DEF DecisionInv
    <2>9. FollowInv'
      <3>1. ASSUME history # <<>>, pc' = "execute"
            PROVE  Follows(Last, m, [index |-> p.current, id |-> p.steps[p.current + 1].id,
                                     repaired |-> p.steps[p.current + 1].repaired])
        <4>1. Decided /\ OnRecord /\ decision # "escalate"
          BY <1>1, <3>1 DEF LoopInv, DecisionInv
        <4>2. plans > 0 /\ plans \in Nat /\ Last.plan = plans
          <5>1. Len(history) \in 1..Len(history)
            BY <3>1 DEF LoopInv, LoopTypeOK
          <5>2. Last.plan = plans /\ history[Len(history)].plan \in 1..plans
            BY <4>1, <5>1 DEF LoopInv, PlanInv, OnRecord
          <5> QED
            BY <5>2 DEF LoopInv, LoopTypeOK, Last
        <4>3. \/ m = plans /\ p = plan
              \/ m = plans + 1 /\ decision = "adjust_plan"
          BY <2>4, <4>2
        <4>4. decision \in {"advance_step", "retry_same", "repair_step", "adjust_plan"}
          BY <4>1 DEF Decided, Decisions
        <4>5. Last.step \in Steps /\ Last.step = step
          BY <4>1 DEF OnRecord, LoopInv, LoopTypeOK
        <4>6. ASSUME decision \in {"retry_same", "adjust_plan"}, p = plan
              PROVE  [index |-> p.current, id |-> p.steps[p.current + 1].id,
                      repaired |-> p.steps[p.current + 1].repaired] = Last.step
          BY <4>1, <4>5, <4>6 DEF Decided, CurrentStep, Steps
        <4>7. CASE decision = "advance_step"
          BY <4>1, <4>2, <4>3, <4>5, <4>7 DEF Follows, OnRecord, Decided
        <4>8. CASE decision = "repair_step"
          BY <4>1, <4>2, <4>3, <4>5, <4>8 DEF Follows, OnRecord, Decided, CurrentStep
        <4>9. CASE decision = "retry_same"
          BY <4>1, <4>2, <4>3, <4>6, <4>9 DEF Follows, OnRecord, Decided
        <4>10. CASE decision = "adjust_plan"
          BY <4>1, <4>2, <4>3, <4>6, <4>10 DEF Follows, OnRecord
        <4> QED
          BY <4>4, <4>7, <4>8, <4>9, <4>10
      <3>2. history # <<>> /\ pc' = "execute" => Follows(Last, plans, Here)'
        BY <1>1, <1>6, <2>2, <3>1 DEF Here, CurrentStep, Last, Follows
      <3> QED
        BY <1>1, <1>5, <2>5, <3>2 DEF FollowInv
    <2>10. ProgressInv'
      <3>1. /\ \A k \in DoneIn(history, m) :
                  history[k].step.index = p.start + Cardinality(Before(DoneIn(history, m), k))
            /\ p.current = p.start + Cardinality(DoneIn(history, m))
        <4>1. CASE m = plans /\ p = plan
          BY <1>1, <4>1 DEF LoopInv, ProgressInv
        <4>2. CASE m = plans + 1 /\ p.current = p.start
          <5>1. m > plans
            BY <2>3, <4>2 DEF LoopInv, LoopTypeOK
          <5> QED
            BY <2>3, <4>2, <5>1, NewPlanHasNothingDone DEF Plans
        <4> QED
          BY <2>4, <4>1, <4>2
      <3>2. outcome' = "success" => p.current = Len(p.steps)
        BY <2>3, <2>5, DistinctWords DEF Plans
      <3>3. pc' # "save"
        BY <2>5
      <3> QED
        BY <1>1, <1>6, <2>2, <3>1, <3>2, <3>3 DEF ProgressInv
    <2>11. CountInv'
      BY <1>1, <1>2, <1>6, <2>5 DEF CountInv
    <2>12. EndInv'
      BY <1>1, <1>4, <2>5, DistinctWords DEF EndInv
    <2> QED
      BY <1>3, <2>5, <2>6, <2>7, <2>8, <2>9, <2>10, <2>11, <2>12 DEF LoopInv
  <1>7. ASSUME UNCHANGED <<plan, plans>>, pc' = "idle",
               \/ iteration < MaxIterations /\ iteration' = iteration + 1 /\ outcome' = "raised"
               \/ /\ ~(iteration < MaxIterations) /\ iteration' = iteration
                  /\ outcome' = "max_iterations"
        PROVE  LoopInv'
    <2>1. LoopTypeOK'
      BY <1>1, <1>2, <1>7 DEF LoopInv, LoopTypeOK, Outcomes
    <2>2. PlanInv' /\ DecisionInv'
      BY <1>1, <1>7 DEF LoopInv, PlanInv, DecisionInv, Stepping
    <2>3. FollowInv'
      BY <1>1, <1>5, <1>7 DEF FollowInv
    <2>4. ProgressInv'
      BY <1>1, <1>7 DEF LoopInv, ProgressInv
    <2>5. CountInv'
      BY <1>1, <1>2, <1>7 DEF CountInv
    <2>6. EndInv'
      BY <1>1, <1>2, <1>4, <1>7 DEF EndInv
    <2> QED
      BY <1>3, <1>7, <2>1, <2>2, <2>3, <2>4, <2>5, <2>6 DEF LoopInv
  <1> QED
    BY <1>6, <1>7 DEF Plan, End

LEMMA ExecuteKeepsInv ==
    ASSUME LoopInv, Execute
    PROVE  LoopInv'
  <1>1. /\ pc = "execute" /\ pc' = "decide" /\ outcome = Running /\ pattern' \in Patterns
        /\ UNCHANGED <<iteration, failures, plan, decision, stats, memory, context, history,
                       outcome, runs, plans, unsaved>>
        /\ plan \in Plans /\ stepFailures \in [StepIds -> Nat]
        /\ plan.current < Len(plan.steps) /\ plans > 0
    BY DEF Execute, LoopInv, EndInv, LoopTypeOK, PlanInv, Stepping
  <1>2. CurrentStep \in PlanSteps
    BY <1>1 DEF CurrentStep, Plans
  <1>3. step' = Here /\ Here \in Steps
    BY <1>1, <1>2 DEF Execute, Here, Steps, PlanSteps, Plans
  <1>4. PICK id \in StepIds : id = CurrentStep.id
    BY <1>2 DEF PlanSteps
  <1>5. step'.id = id
    BY <1>3, <1>4 DEF Here
  <1>6. /\ pattern' = "none" => stepFailures' = stepFailures
        /\ pattern' # "none" => stepFailures' = [stepFailures EXCEPT ![id] = @ + 1]
    BY <1>4 DEF Execute, IncrementStepFailure
  <1>7. LoopTypeOK'
    <2>1. stepFailures' \in [StepIds -> Nat]
      BY <1>1, <1>6
    <2> QED
      BY <1>1, <1>3, <2>1 DEF LoopInv, LoopTypeOK
  <1>8. PlanInv'
    BY <1>1 DEF LoopInv, PlanInv, Stepping
  <1>9. DecisionInv'
    BY <1>1, <1>3 DEF DecisionInv, Here, CurrentStep
  <1>10. FollowInv'
    <2>1. history # <<>> => Follows(Last, plans, Here)
      BY <1>1 DEF LoopInv, FollowInv
    <2>2. history # <<>> => Follows(Last, plans, step)'
      BY <1>1, <1>3, <2>1 DEF Follows, Last
    <2> QED
      BY <1>1, <2>2 DEF LoopInv, FollowInv
  <1>11. ProgressInv'
    BY <1>1 DEF LoopInv, ProgressInv
  <1>12. CountInv'
    BY <1>1 DEF LoopInv, CountInv
  <1>13. EndInv'
    BY <1>1 DEF LoopInv, EndInv, Last
  <1>14. StatsInv'
    BY <1>1 DEF LoopInv, StatsInv
  <1>15. RepairInv'
    <2>1. /\ \A k \in 1..Len(history) :
                history[k].decision = "repair_step" <=>
                   RepairDue(history[k].pattern,
                             Cardinality(OfStep(history, history[k].step.id, k)))
          /\ \A i \in StepIds :
                stepFailures[i] = Cardinality(OfStep(history, i, Len(history)))
      BY <1>1 DEF LoopInv, RepairInv
    <2>2. \A i \in StepIds :
             /\ i # id \/ pattern' = "none" => stepFailures'[i] = stepFailures[i]
             /\ i = id /\ pattern' # "none" => stepFailures'[i] = stepFailures[i] + 1
      BY <1>1, <1>6
    <2> QED
      BY <1>1, <1>5, <2>1, <2>2 DEF RepairInv
  <1> QED
    BY <1>7, <1>8, <1>9, <1>10, <1>11, <1>12, <1>13, <1>14, <1>15 DEF LoopInv

\* The scores of the candidates: adjusting the plan is always better than giving up.
LEMMA ScoresAreBounded ==
    ASSUME LoopTypeOK
    PROVE  /\ Score("retry_same") \in Int /\ Score("adjust_plan") \in Int
           /\ Score("abort") \in Int
           /\ Score("abort") <= 20 /\ Score("adjust_plan") >= 35
  <1>1. ASSUME NEW d \in Decisions
        PROVE  stats[<<pattern, d>>] \in Nat
    BY DEF LoopTypeOK, Pairs
  <1>2. ASSUME NEW d \in Decisions, NEW r \in Int, Prior[d] = r
        PROVE  Score(d) \in Int /\ Score(d) <= r /\ r - 20 <= Score(d)
    BY <1>1, <1>2 DEF Score
  <1>3. Prior["retry_same"] = 60 /\ Prior["adjust_plan"] = 55 /\ Prior["abort"] = 20
    BY DEF Prior
  <1>4. "retry_same" \in Decisions /\ "adjust_plan" \in Decisions /\ "abort" \in Decisions
    BY DEF Decisions
  <1>5. Score("retry_same") \in Int
    BY <1>2, <1>3, <1>4
  <1>6. Score("adjust_plan") \in Int /\ 55 - 20 <= Score("adjust_plan")
    BY <1>2, <1>3, <1>4
  <1>7. Score("abort") \in Int /\ Score("abort") <= 20
    BY <1>2, <1>3, <1>4
  <1> QED
    BY <1>5, <1>6, <1>7

\* The best decision is to retry or to adjust the plan, never to abort.
LEMMA NeverAborts ==
    ASSUME LoopTypeOK
    PROVE  /\ BestDecision \in {"retry_same", "adjust_plan"}
           /\ BestDecision = "retry_same" => Retryable
  <1> DEFINE Best(d) == \A e \in Candidates :
                  Score(d) > Score(e) \/ (Score(d) = Score(e) /\ Rank[d] <= Rank[e])
  <1>1. /\ Score("retry_same") \in Int /\ Score("adjust_plan") \in Int
        /\ Score("abort") \in Int
        /\ Score("abort") <= 20 /\ Score("adjust_plan") >= 35
    BY ScoresAreBounded
  <1>2. Rank["adjust_plan"] = 0 /\ Rank["retry_same"] = 1 /\ Rank["abort"] = 2
    BY DEF Rank
  <1>3. Candidates \subseteq {"retry_same", "adjust_plan", "abort"}
        /\ "adjust_plan" \in Candidates /\ "abort" \in Candidates
        /\ ("retry_same" \in Candidates <=> Retryable)
    BY DEF Candidates
  <1>4. \E d \in Candidates : Best(d)
    <2>1. CASE Retryable /\ Score("retry_same") > Score("adjust_plan")
      BY <1>1, <1>2, <1>3, <2>1
    <2>2. CASE ~(Retryable /\ Score("retry_same") > Score("adjust_plan"))
      BY <1>1, <1>2, <1>3, <2>2
    <2> QED
      BY <2>1, <2>2
  <1>5. BestDecision = CHOOSE d \in Candidates : Best(d)
    BY DEF BestDecision
  <1> HIDE DEF Best
  <1>6. BestDecision \in Candidates /\ Best(BestDecision)
    BY <1>4, <1>5
  <1>7. BestDecision # "abort"
    BY <1>1, <1>3, <1>6 DEF Best
  <1> QED
    BY <1>3, <1>6, <1>7

\* What is decided about a result.
LEMMA DecisionFacts ==
    ASSUME LoopTypeOK
    PROVE  /\ Decide \in Decisions \ {"abort"}
           /\ Decide = "advance_step" <=> pattern = "none"
           /\ Decide = "escalate" <=> pattern = "policy_violation"
           /\ Decide = "retry_same" => pattern = "runtime_error"
           /\ Decide = "repair_step" <=> RepairDue(pattern, CurrentStepFailureCount)
  <1>1. CASE pattern = "none" \/ pattern = "policy_violation"
    BY <1>1 DEF Decide, Decisions, RepairDue
  <1>2. CASE pattern # "none" /\ pattern # "policy_violation"
             /\ CurrentStepFailureCount >= StepThreshold
    BY <1>2 DEF Decide, Decisions, RepairDue
  <1>3. CASE pattern # "none" /\ pattern # "policy_violation"
             /\ ~(CurrentStepFailureCount >= StepThreshold)
    <2>1. Decide = BestDecision
      BY <1>3 DEF Decide
    <2> QED
      BY <1>3, <2>1, NeverAborts DEF Decisions, Retryable, RepairDue
  <1> QED
    BY <1>1, <1>2, <1>3

LEMMA MakeDecisionKeepsInv ==
    ASSUME LoopInv, MakeDecision
    PROVE  LoopInv'
  <1>1. /\ pc = "decide" /\ outcome = Running /\ decision' = Decide
        /\ UNCHANGED <<iteration, failures, stepFailures, step, pattern, memory, context,
                       history, runs, plans, unsaved>>
        /\ plan \in Plans /\ plan.current < Len(plan.steps) /\ plan.start <= plan.current
        /\ plans > 0 /\ step = Here /\ step \in Steps /\ pattern \in Patterns
    BY DEF MakeDecision, LoopInv, EndInv, LoopTypeOK, PlanInv, DecisionInv, Stepping
  <1>2. PICK d : d = Decide
    OBVIOUS
  <1>3. /\ d \in Decisions \ {"abort"}
        /\ d = "advance_step" <=> pattern = "none"
        /\ d = "escalate" <=> pattern = "policy_violation"
        /\ d = "retry_same" => pattern = "runtime_error"
    BY <1>2, DecisionFacts DEF LoopInv
  <1>4. CurrentStep \in PlanSteps /\ step.index = plan.current /\ step.id = CurrentStep.id
        /\ step.repaired = CurrentStep.repaired
    BY <1>1 DEF CurrentStep, Plans, Here
  <1>5. d = "repair_step" <=> RepairDue(pattern, stepFailures[step.id])
    BY <1>2, <1>4, DecisionFacts DEF LoopInv, CurrentStepFailureCount
  <1>6. /\ \A k \in 1..(Len(history) - 1) :
              Follows(history[k], history[k + 1].plan, history[k + 1].step)
        /\ history # <<>> => Follows(Last, plans, step)
    BY <1>1 DEF LoopInv, FollowInv
  <1>7. /\ \A k \in DoneIn(history, plans) :
              history[k].step.index = plan.start + Cardinality(Before(DoneIn(history, plans), k))
        /\ plan.current = plan.start + Cardinality(DoneIn(history, plans))
    BY <1>1 DEF LoopInv, ProgressInv
  <1>8. \A k \in 1..Len(history) : history[k].pattern # "policy_violation"
    BY <1>1, DistinctWords DEF LoopInv, EndInv
  <1>9. ASSUME NEW q \in Plans, plan' = q, q.start = plan.start,
               Len(q.steps) = Len(plan.steps),
               d = "advance_step" => q.current = plan.current + 1,
               d # "advance_step" => q.current = plan.current,
               d = "repair_step" => q.steps[plan.current + 1].repaired,
               d \in {"retry_same", "adjust_plan"} => q = plan,
               stats' = UpdateStats(d), pc' = "save", UNCHANGED outcome
        PROVE  LoopInv'
    <2>1. q.current \in Nat /\ plan.current \in Nat /\ plan.start \in Nat
          /\ Len(plan.steps) \in Nat
      BY <1>1 DEF Plans
    <2>2. \A p \in Pairs : /\ stats[p] \in Nat /\ memory[p] \in Nat /\ unsaved[p] \in Nat
                           /\ stats[p] <= memory[p] + unsaved[p]
      BY <1>1 DEF LoopInv, LoopTypeOK, StatsInv
    <2>3. PICK w \in Pairs : w = <<pattern, d>>
      BY <1>1, <1>3 DEF Pairs
    <2>4. /\ stats' \in [Pairs -> Nat]
          /\ stats'[w] = stats[w] + 1
          /\ \A p \in Pairs : p # w => stats'[p] = stats[p]
      <3>1. stats' = [stats EXCEPT ![w] = @ + 1]
        BY <1>9, <2>3 DEF UpdateStats
      <3> QED
        BY <2>2, <3>1 DEF LoopInv, LoopTypeOK
    <2>5. LoopTypeOK'
      BY <1>1, <1>2, <1>3, <1>9, <2>4 DEF LoopInv, LoopTypeOK
    <2>6. PlanInv'
      <3>1. q.start <= q.current /\ q.current <= Len(q.steps)
        BY <1>1, <1>9, <2>1
      <3> QED
        BY <1>1, <1>9, <3>1 DEF LoopInv, PlanInv
    <2>7. DecisionInv'
      <3>1. Decided'
        <4>1. d \in {"retry_same", "adjust_plan"} =>
                 /\ q.steps[q.current + 1].id = step.id
                 /\ q.steps[q.current + 1].repaired = step.repaired
          BY <1>4, <1>9 DEF CurrentStep
        <4>2. d = "repair_step" => q.steps[q.current + 1].repaired
          BY <1>9
        <4>3. /\ d = "advance_step" => q.current = step.index + 1
              /\ d # "advance_step" => q.current = step.index /\ q.current < Len(q.steps)
          BY <1>1, <1>4, <1>9
        <4> QED
          BY <1>1, <1>2, <1>3, <1>9, <4>1, <4>2, <4>3 DEF Decided, CurrentStep
      <3> QED
        BY <1>9, <3>1 DEF DecisionInv
    <2>8. FollowInv'
      <3>1. history # <<>> => Follows(Last, plans, step)'
        BY <1>1, <1>6 DEF Follows, Last
      <3> QED
        BY <1>1, <1>6, <1>9, <3>1 DEF FollowInv
    <2>9. ProgressInv'
      BY <1>1, <1>4, <1>7, <1>9, DistinctWords DEF ProgressInv
    <2>10. CountInv'
      BY <1>1, <1>9 DEF LoopInv, CountInv
    <2>11. EndInv'
      BY <1>1, <1>8, <1>9, DistinctWords DEF EndInv
    <2>12. RepairInv'
      BY <1>1, <1>2, <1>5, <1>9 DEF LoopInv, RepairInv
    <2>13. StatsInv'
      <3> SUFFICES ASSUME NEW p \in Pairs
                   PROVE  /\ p # w => stats'[p] <= memory[p] + unsaved[p]
                          /\ stats'[p] <= memory[p] + unsaved[p] + 1
        BY <1>1, <1>2, <1>9, <2>3 DEF StatsInv
      <3>1. CASE p = w
        BY <2>2, <2>4, <3>1
      <3>2. CASE p # w
        <4>1. stats'[p] = stats[p]
          BY <2>4, <3>2
        <4> QED
          BY <2>2, <4>1
      <3> QED
        BY <3>1, <3>2
    <2> QED
      BY <2>5, <2>6, <2>7, <2>8, <2>9, <2>10, <2>11, <2>12, <2>13 DEF LoopInv
  <1>10. ASSUME End("raised"), UNCHANGED <<plan, stats>>
         PROVE  LoopInv'
    <2>1. pc' = "idle" /\ outcome' = "raised"
      BY <1>10 DEF End
    <2>2. LoopTypeOK'
      BY <1>1, <1>2, <1>3, <1>10, <2>1 DEF LoopInv, LoopTypeOK, Outcomes
    <2>3. PlanInv' /\ DecisionInv'
      BY <1>1, <1>10, <2>1 DEF LoopInv, PlanInv, DecisionInv, Stepping
    <2>4. FollowInv'
      BY <1>1, <1>6, <2>1 DEF FollowInv
    <2>5. ProgressInv'
      BY <1>1, <1>7, <1>10, <2>1 DEF ProgressInv
    <2>6. CountInv'
      BY <1>1, <2>1 DEF LoopInv, CountInv
    <2>7. EndInv'
      BY <1>1, <1>8, <2>1 DEF EndInv
    <2>8. RepairInv'
      BY <1>1, <2>1 DEF LoopInv, RepairInv
    <2>9. StatsInv'
      BY <1>1, <1>10, <2>1 DEF LoopInv, StatsInv
    <2> QED
      BY <2>2, <2>3, <2>4, <2>5, <2>6, <2>7, <2>8, <2>9 DEF LoopInv
  <1>11. CASE /\ CASE d = "advance_step" -> plan' = AdvanceStep
                   [] d = "repair_step"  -> \E id \in StepIds : plan' = Repair(id)
                   [] OTHER              -> plan' = plan
              /\ stats' = UpdateStats(d)
              /\ pc' = "save" /\ UNCHANGED outcome
    <2>1. CASE d = "advance_step"
      <3>1. PICK q : q = [plan EXCEPT !.current = @ + 1]
        OBVIOUS
      <3>2. q \in Plans /\ q.start = plan.start /\ q.steps = plan.steps
            /\ q.current = plan.current + 1
        BY <1>1, <3>1 DEF Plans
      <3> QED
        BY <1>9, <1>11, <2>1, <3>1, <3>2 DEF AdvanceStep
    <2>2. CASE d = "repair_step"
      <3>1. PICK id \in StepIds : plan' = Repair(id)
        BY <1>11, <2>2
      <3>2. PICK s : s = [plan.steps EXCEPT ![plan.current + 1] = [id |-> id, repaired |-> TRUE]]
        OBVIOUS
      <3>3. PICK q : q = [plan EXCEPT !.steps = s]
        OBVIOUS
      <3>4. plan' = q
        BY <3>1, <3>2, <3>3 DEF Repair, ReplaceCurrentStep
      <3>5. /\ plan.steps \in Seq(PlanSteps) /\ plan.current + 1 \in 1..Len(plan.steps)
            /\ [id |-> id, repaired |-> TRUE] \in PlanSteps
        BY <1>1 DEF Plans, PlanSteps
      <3>6. /\ s \in Seq(PlanSteps) /\ Len(s) = Len(plan.steps)
            /\ s[plan.current + 1].repaired
        BY <3>2, <3>5
      <3>7. q \in Plans /\ q.start = plan.start /\ q.steps = s /\ q.current = plan.current
        BY <1>1, <3>3, <3>6 DEF Plans
      <3> QED
        BY <1>9, <1>11, <2>2, <3>4, <3>6, <3>7
    <2>3. CASE d # "advance_step" /\ d # "repair_step"
      <3>1. plan' = plan
        BY <1>11, <2>3
      <3> QED
        BY <1>1, <1>9, <1>11, <2>3, <3>1
    <2> QED
      BY <2>1, <2>2, <2>3
  <1> QED
    BY <1>1, <1>2, <1>10, <1>11 DEF MakeDecision

LEMMA SaveKeepsInv ==
    ASSUME LoopInv, Save
    PROVE  LoopInv'
  <1>1. /\ pc = "save" /\ outcome = Running /\ history \in Seq(Entries)
        /\ UNCHANGED <<iteration, failures, plan, stepFailures, decision, step, pattern, stats,
                       context, runs, plans>>
        /\ plan \in Plans /\ plans \in Nat /\ plans > 0 /\ step \in Steps /\ pattern \in Patterns
        /\ plan.start \in Nat /\ step.index \in Nat
    BY DEF Save, LoopInv, EndInv, LoopTypeOK, PlanInv, Stepping, Plans, Steps
  <1>2. /\ Decided /\ decision \in Decisions \ {"abort"}
        /\ decision = "advance_step" <=> pattern = "none"
        /\ decision = "advance_step" => plan.current = step.index + 1
        /\ decision # "advance_step" => plan.current = step.index
    BY <1>1 DEF LoopInv, DecisionInv, Decided
  <1>3. PICK w \in Pairs : w = <<pattern, decision>>
    BY <1>1, <1>2 DEF Pairs
  <1>4. /\ stats \in [Pairs -> Nat] /\ memory \in [Pairs -> Nat] /\ unsaved \in [Pairs -> Nat]
        /\ \A p \in Pairs : p # w => stats[p] <= memory[p] + unsaved[p]
        /\ stats[w] <= memory[w] + unsaved[w] + 1
    BY <1>1, <1>3 DEF LoopInv, LoopTypeOK, StatsInv
  <1>5. \A k \in 1..Len(history) : history[k].pattern # "policy_violation"
    BY <1>1, DistinctWords DEF LoopInv, EndInv
  <1>6. /\ \A k \in 1..(Len(history) - 1) :
              Follows(history[k], history[k + 1].plan, history[k + 1].step)
        /\ history # <<>> => Follows(Last, plans, step)
    BY <1>1 DEF LoopInv, FollowInv
  <1>7. /\ \A k \in DoneIn(history, plans) :
              history[k].step.index = plan.start + Cardinality(Before(DoneIn(history, plans), k))
        /\ step.index = plan.start + Cardinality(DoneIn(history, plans))
    BY <1>1 DEF LoopInv, ProgressInv
  <1>8. /\ Len(history) + 1 = iteration /\ iteration <= MaxIterations
        /\ failures = Cardinality(FailedIn(history)) /\ failures < FailureThreshold
        /\ iteration \in Nat /\ failures \in Nat
        /\ MaxIterations \in Nat /\ FailureThreshold \in Nat
    BY <1>1, LoopAssumption DEF LoopInv, LoopTypeOK, CountInv
  <1>9. /\ \A k \in 1..Len(history) :
              history[k].decision = "repair_step" <=>
                 RepairDue(history[k].pattern,
                           Cardinality(OfStep(history, history[k].step.id, k)))
        /\ \A id \in StepIds :
              /\ id # step.id \/ pattern = "none"
                 => stepFailures[id] = Cardinality(OfStep(history, id, Len(history)))
              /\ id = step.id /\ pattern # "none"
                 => stepFailures[id] = Cardinality(OfStep(history, id, Len(history))) + 1
        /\ decision = "repair_step" <=> RepairDue(pattern, stepFailures[step.id])
    BY <1>1 DEF LoopInv, RepairInv
  <1>10. PICK f : f = [plan |-> plans, step |-> step, pattern |-> pattern, decision |-> decision]
    OBVIOUS
  <1>11. f \in Entries /\ f.plan = plans /\ f.step = step /\ f.pattern = pattern
         /\ f.decision = decision /\ (Failed(f) <=> pattern # "none")
    BY <1>1, <1>2, <1>10 DEF Entries, Failed
  <1>12. ASSUME NEW g, g = Append(history, f), history' = g,
                memory' = [memory EXCEPT ![w] = @ + 1], pc' = "conclude",
                UNCHANGED <<unsaved, outcome>>
         PROVE  LoopInv'
    <2> PICK n : n = Len(history) + 1
      OBVIOUS
    <2>1. /\ n \in Nat \ {0} /\ g \in Seq(Entries) /\ Len(g) = n /\ g[n] = f
          /\ \A k \in 1..Len(history) : g[k] = history[k]
          /\ \A k : k \in 1..n <=> k \in 1..Len(history) \/ k = n
          /\ n \notin 1..Len(history)
      BY <1>1, <1>11, <1>12, OneMoreEntry
    <2>2. g # <<>> /\ Len(history) \in Nat
      BY <2>1, <1>1
    <2>3. LoopTypeOK'
      <3>1. memory' \in [Pairs -> Nat]
        BY <1>4, <1>12
      <3> QED
        BY <1>1, <1>12, <2>1, <3>1 DEF LoopInv, LoopTypeOK
    <2>4. PlanInv'
      <3>1. \A k \in 1..n : g[k].plan \in 1..plans
        BY <1>1, <1>11, <2>1 DEF LoopInv, PlanInv
      <3> QED
        BY <1>1, <1>12, <2>1, <3>1 DEF LoopInv, PlanInv, Stepping
    <2>5. DecisionInv'
      <3>1. Decided'
        BY <1>1, <1>2 DEF Decided, CurrentStep
      <3>2. OnRecord'
        BY <1>1, <1>11, <1>12, <2>1 DEF OnRecord, Last
      <3> QED
        BY <1>12, <2>2, <3>1, <3>2 DEF DecisionInv
    <2>6. FollowInv'
      <3>1. ASSUME NEW k \in 1..(n - 1)
            PROVE  Follows(g[k], g[k + 1].plan, g[k + 1].step)
        <4>1. k \in 1..Len(history) /\ g[k] = history[k]
          BY <2>1, <2>2
        <4>2. CASE k = Len(history)
          <5>1. history # <<>> /\ Last = g[k] /\ g[k + 1] = f
            BY <2>1, <4>1, <4>2 DEF Last
          <5> QED
            BY <1>6, <1>11, <5>1
        <4>3. CASE k # Len(history)
          <5>1. k \in 1..(Len(history) - 1) /\ k + 1 \in 1..Len(history)
            BY <2>2, <4>1, <4>3
          <5> QED
            BY <1>6, <2>1, <4>1, <5>1
        <4> QED
          BY <4>2, <4>3
      <3> QED
        BY <1>12, <2>1, <3>1 DEF FollowInv
    <2>7. /\ ~Failed(f) => Cardinality(DoneIn(g, plans)) = Cardinality(DoneIn(history, plans)) + 1
          /\ Failed(f) => Cardinality(DoneIn(g, plans)) = Cardinality(DoneIn(history, plans))
          /\ \A k \in 1..Len(history) : k \in DoneIn(g, plans) <=> k \in DoneIn(history, plans)
          /\ \A k \in 1..Len(history) : Cardinality(Before(DoneIn(g, plans), k))
                                          = Cardinality(Before(DoneIn(history, plans), k))
          /\ Cardinality(Before(DoneIn(g, plans), n)) = Cardinality(DoneIn(history, plans))
      <3>1. /\ history \in Seq(Entries) /\ f \in Entries /\ f.plan = plans
            /\ g = Append(history, f) /\ Len(g) = n
        BY <1>1, <1>11, <1>12, <2>1
      <3>2. OneMoreResult(history, f, g, plans)
        BY <3>1, SuccessesCounted
      <3> QED
        BY <3>1, <3>2 DEF OneMoreResult
    <2>8. ProgressInv'
      <3>1. Cardinality(DoneIn(history, plans)) \in Nat
        BY <1>1, CountsAreFinite
      <3>2. plan.current = plan.start + Cardinality(DoneIn(g, plans))
        BY <1>1, <1>2, <1>7, <1>11, <2>7, <3>1
      <3>3. ASSUME NEW k \in DoneIn(g, plans)
            PROVE  g[k].step.index = plan.start + Cardinality(Before(DoneIn(g, plans), k))
        <4>1. k \in 1..n
          BY <2>1 DEF DoneIn
        <4>2. CASE k = n
          BY <1>7, <1>11, <2>1, <2>7, <4>2
        <4>3. CASE k \in 1..Len(history)
          BY <1>7, <2>1, <2>7, <4>3
        <4> QED
          BY <2>1, <4>1, <4>2, <4>3
      <3> QED
        BY <1>1, <1>12, <3>2, <3>3, DistinctWords DEF ProgressInv
    <2>9. /\ pattern # "none" => Cardinality(FailedIn(g)) = Cardinality(FailedIn(history)) + 1
          /\ pattern = "none" => Cardinality(FailedIn(g)) = Cardinality(FailedIn(history))
      BY <1>1, <1>11, <1>12, FailuresCounted
    <2>10. CountInv'
      BY <1>1, <1>8, <1>12, <2>1, <2>9 DEF CountInv
    <2>11. EndInv'
      <3>1. \A k \in 1..n : g[k].pattern = "policy_violation" => k = n
        BY <1>5, <2>1
      <3> QED
        BY <1>1, <1>12, <2>1, <3>1, DistinctWords DEF EndInv
    <2>12. RepairInv'
      <3>1. \A id : /\ \A k \in 1..Len(history) :
                         Cardinality(OfStep(g, id, k)) = Cardinality(OfStep(history, id, k))
                    /\ pattern # "none" /\ step.id = id =>
                         Cardinality(OfStep(g, id, n)) = Cardinality(OfStep(history, id, Len(history))) + 1
                    /\ pattern = "none" \/ step.id # id =>
                         Cardinality(OfStep(g, id, n)) = Cardinality(OfStep(history, id, Len(history)))
        <4>1. /\ history \in Seq(Entries) /\ f \in Entries /\ f.step = step
              /\ g = Append(history, f) /\ Len(g) = n /\ (Failed(f) <=> pattern # "none")
          BY <1>1, <1>11, <1>12, <2>1
        <4>2. \A id : OneMoreOfStep(history, f, g, id)
          BY <4>1, StepFailuresCounted
        <4> QED
          BY <4>1, <4>2 DEF OneMoreOfStep
      <3>2. step.id \in StepIds
        BY <1>1 DEF Steps
      <3>3. \A id \in StepIds : stepFailures[id] = Cardinality(OfStep(g, id, n))
        BY <1>9, <3>1
      <3>4. ASSUME NEW k \in 1..n
            PROVE  g[k].decision = "repair_step" <=>
                      RepairDue(g[k].pattern, Cardinality(OfStep(g, g[k].step.id, k)))
        <4>1. CASE k = n
          BY <1>9, <1>11, <2>1, <3>2, <3>3, <4>1
        <4>2. CASE k \in 1..Len(history)
          <5>1. /\ g[k] = history[k]
                /\ Cardinality(OfStep(g, g[k].step.id, k))
                     = Cardinality(OfStep(history, history[k].step.id, k))
            BY <2>1, <3>1, <4>2
          <5> QED
            BY <1>9, <4>2, <5>1
        <4> QED
          BY <2>1, <4>1, <4>2
      <3> QED
        BY <1>1, <1>12, <2>1, <3>3, <3>4 DEF RepairInv
    <2>13. StatsInv'
      <3>1. \A p \in Pairs : stats[p] <= memory'[p] + unsaved[p]
        <4>1. /\ memory'[w] = memory[w] + 1
              /\ \A p \in Pairs : p # w => memory'[p] = memory[p]
          BY <1>4, <1>12
        <4>2. \A p \in Pairs : stats[p] \in Nat /\ memory[p] \in Nat /\ unsaved[p] \in Nat
          BY <1>4
        <4>3. SUFFICES ASSUME NEW p \in Pairs
                       PROVE  stats[p] <= memory'[p] + unsaved[p]
          OBVIOUS
        <4>4. CASE p = w
          BY <1>4, <4>1, <4>2, <4>4
        <4>5. CASE p # w
          BY <1>4, <4>1, <4>2, <4>5
        <4> QED
          BY <4>4, <4>5
      <3> QED
        BY <1>1, <1>12, <3>1 DEF StatsInv
    <2> QED
      BY <2>3, <2>4, <2>5, <2>6, <2>8, <2>10, <2>11, <2>12, <2>13 DEF LoopInv
  <1>13. ASSUME unsaved' = [unsaved EXCEPT ![w] = @ + 1], pc' = "idle", outcome' = "raised",
                UNCHANGED <<memory, history>>
         PROVE  LoopInv'
    <2>1. LoopTypeOK'
      <3>1. unsaved' \in [Pairs -> Nat]
        BY <1>4, <1>13
      <3> QED
        BY <1>1, <1>13, <3>1 DEF LoopInv, LoopTypeOK, Outcomes
    <2>2. PlanInv' /\ DecisionInv'
      BY <1>1, <1>13 DEF LoopInv, PlanInv, DecisionInv, Stepping
    <2>3. FollowInv'
      BY <1>1, <1>6, <1>13 DEF FollowInv
    <2>4. ProgressInv'
      BY <1>1, <1>7, <1>13 DEF ProgressInv
    <2>5. CountInv'
      BY <1>1, <1>13 DEF LoopInv, CountInv
    <2>6. EndInv'
      BY <1>1, <1>5, <1>13 DEF EndInv
    <2>7. RepairInv'
      BY <1>1, <1>13 DEF LoopInv, RepairInv
    <2>8. StatsInv'
      <3>1. \A p \in Pairs : stats[p] <= memory[p] + unsaved'[p]
        <4>1. /\ unsaved'[w] = unsaved[w] + 1
              /\ \A p \in Pairs : p # w => unsaved'[p] = unsaved[p]
          BY <1>4, <1>13
        <4>2. \A p \in Pairs : stats[p] \in Nat /\ memory[p] \in Nat /\ unsaved[p] \in Nat
          BY <1>4
        <4>3. SUFFICES ASSUME NEW p \in Pairs
                       PROVE  stats[p] <= memory[p] + unsaved'[p]
          OBVIOUS
        <4>4. CASE p = w
          BY <1>4, <4>1, <4>2, <4>4
        <4>5. CASE p # w
          BY <1>4, <4>1, <4>2, <4>5
        <4> QED
          BY <4>4, <4>5
      <3> QED
        BY <1>1, <1>13, <3>1 DEF StatsInv
    <2> QED
      BY <2>1, <2>2, <2>3, <2>4, <2>5, <2>6, <2>7, <2>8 DEF LoopInv
  <1> QED
    BY <1>3, <1>10, <1>12, <1>13 DEF Save, End

LEMMA ConcludeKeepsInv ==
    ASSUME LoopInv, Conclude
    PROVE  LoopInv'
  <1>1. /\ pc = "conclude" /\ outcome = Running /\ history \in Seq(Entries) /\ history # <<>>
        /\ UNCHANGED <<iteration, plan, stepFailures, decision, step, pattern, stats, memory,
                       history, runs, plans, unsaved>>
        /\ Decided /\ OnRecord /\ plan \in Plans
    BY DEF Conclude, LoopInv, EndInv, LoopTypeOK, DecisionInv
  <1>2. /\ decision # "abort"
        /\ decision = "advance_step" <=> pattern = "none"
        /\ decision = "escalate" <=> pattern = "policy_violation"
    BY <1>1 DEF Decided
  <1>3. /\ failures \in Nat /\ FailureThreshold \in Nat /\ failures < FailureThreshold
        /\ pattern = "none" => failures = Cardinality(FailedIn(history))
        /\ pattern # "none" => failures + 1 = Cardinality(FailedIn(history))
        /\ iteration \in Nat /\ MaxIterations \in Nat
        /\ Len(history) = iteration /\ iteration <= MaxIterations
    BY <1>1, LoopAssumption DEF LoopInv, LoopTypeOK, CountInv
  <1>4. /\ \A k \in DoneIn(history, plans) :
              history[k].step.index = plan.start + Cardinality(Before(DoneIn(history, plans), k))
        /\ plan.current = plan.start + Cardinality(DoneIn(history, plans))
        /\ plan.current <= Len(plan.steps) /\ plan.current \in Nat /\ Len(plan.steps) \in Nat
    BY <1>1 DEF LoopInv, ProgressInv, PlanInv, Plans
  <1>5. \A k \in 1..Len(history) :
           history[k].pattern = "policy_violation" => k = Len(history)
    BY <1>1 DEF LoopInv, EndInv
  <1>6. failures' \in Nat /\ context' \in [Pairs -> Nat]
    <2>1. /\ failures' = failures \/ failures' = failures + 1
          /\ context' = context \/ context' = memory \/ context' = Nothing
      BY DEF Conclude, Retrieved, End
    <2>2. context \in [Pairs -> Nat] /\ memory \in [Pairs -> Nat] /\ Nothing \in [Pairs -> Nat]
      BY NothingIsThere DEF LoopInv, LoopTypeOK
    <2>3. failures' \in Nat
      BY <1>3, <2>1
    <2>4. context' \in [Pairs -> Nat]
      BY <2>1, <2>2
    <2> QED
      BY <2>3, <2>4
  <1>7. Last = history[Len(history)] /\ Last.pattern = pattern /\ Last.decision = decision
        /\ Last.plan = plans /\ Last.step = step
    BY <1>1 DEF OnRecord, Last
  <1>8. ASSUME pc' = "idle", outcome' \in Outcomes \ {Running, "abort"},
               outcome' = "success" => AllStepsCompleted(plan),
               outcome' = "escalated" <=> decision = "escalate",
               outcome' = "failure_threshold" =>
                  Cardinality(FailedIn(history)) = FailureThreshold,
               outcome' # "max_iterations"
        PROVE  LoopInv'
    <2>1. LoopTypeOK'
      BY <1>1, <1>6, <1>8 DEF LoopInv, LoopTypeOK
    <2>2. PlanInv' /\ DecisionInv'
      BY <1>1, <1>8 DEF LoopInv, PlanInv, DecisionInv, Stepping
    <2>3. FollowInv'
      BY <1>1, <1>8 DEF LoopInv, FollowInv
    <2>4. ProgressInv'
      <3>1. outcome' = "success" => plan.current = Len(plan.steps)
        BY <1>4, <1>8 DEF AllStepsCompleted
      <3> QED
        BY <1>1, <1>4, <1>8, <3>1 DEF ProgressInv
    <2>5. CountInv'
      BY <1>1, <1>8 DEF LoopInv, CountInv
    <2>6. EndInv'
      <3>1. \A k \in 1..Len(history) :
               history[k].pattern = "policy_violation" =>
                  k = Len(history) /\ outcome' = "escalated"
        BY <1>2, <1>5, <1>7, <1>8
      <3>2. outcome' = "escalated" => history # <<>> /\ Last.pattern = "policy_violation"
        BY <1>1, <1>2, <1>7, <1>8
      <3> QED
        BY <1>1, <1>8, <3>1, <3>2 DEF EndInv, Last
    <2>7. RepairInv'
      BY <1>1, <1>8 DEF LoopInv, RepairInv
    <2>8. StatsInv'
      BY <1>1, <1>8 DEF LoopInv, StatsInv
    <2> QED
      BY <2>1, <2>2, <2>3, <2>4, <2>5, <2>6, <2>7, <2>8 DEF LoopInv
  <1>9. ASSUME pc' = "plan", UNCHANGED outcome, decision # "escalate",
               failures' = Cardinality(FailedIn(history)), failures' < FailureThreshold
        PROVE  LoopInv'
    <2>1. LoopTypeOK'
      BY <1>1, <1>6, <1>9 DEF LoopInv, LoopTypeOK
    <2>2. PlanInv'
      BY <1>1, <1>9 DEF LoopInv, PlanInv, Stepping
    <2>3. DecisionInv'
      <3>1. Decided' /\ OnRecord'
        BY <1>1 DEF Decided, OnRecord, Last, CurrentStep
      <3> QED
        BY <1>1, <1>9, <3>1 DEF DecisionInv
    <2>4. FollowInv'
      BY <1>1, <1>9 DEF LoopInv, FollowInv
    <2>5. ProgressInv'
      BY <1>1, <1>4, <1>9, DistinctWords DEF ProgressInv
    <2>6. CountInv'
      BY <1>1, <1>3, <1>9 DEF LoopInv, CountInv
    <2>7. EndInv'
      <3>1. \A k \in 1..Len(history) : history[k].pattern # "policy_violation"
        BY <1>2, <1>5, <1>7, <1>9
      <3> QED
        BY <1>1, <1>9, <3>1, DistinctWords DEF EndInv
    <2>8. RepairInv'
      BY <1>1, <1>9 DEF LoopInv, RepairInv
    <2>9. StatsInv'
      BY <1>1, <1>9 DEF LoopInv, StatsInv
    <2> QED
      BY <2>1, <2>2, <2>3, <2>4, <2>5, <2>6, <2>7, <2>8, <2>9 DEF LoopInv
  <1>10. CASE pattern = "none"
    <2>1. decision # "escalate" /\ failures' = failures
      BY <1>2, <1>10 DEF Conclude
    <2>2. CASE AllStepsCompleted(plan)
      <3>1. pc' = "idle" /\ outcome' = "success"
        BY <1>10, <2>2 DEF Conclude, End
      <3> QED
        BY <1>8, <2>1, <2>2, <3>1, DistinctWords DEF Outcomes
    <2>3. CASE ~AllStepsCompleted(plan)
      <3>1. pc' = "plan" /\ UNCHANGED outcome
        BY <1>10, <2>3 DEF Conclude
      <3> QED
        BY <1>3, <1>9, <1>10, <2>1, <3>1
    <2> QED
      BY <2>2, <2>3
  <1>11. CASE pattern # "none"
    <2>1. failures' = failures + 1 /\ failures' = Cardinality(FailedIn(history))
          /\ failures' <= FailureThreshold
      BY <1>3, <1>11 DEF Conclude
    <2>2. CASE decision = "escalate"
      <3>1. pc' = "idle" /\ outcome' = "escalated"
        BY <1>11, <2>2 DEF Conclude, End
      <3> QED
        BY <1>8, <2>2, <3>1, DistinctWords DEF Outcomes
    <2>3. CASE decision # "escalate" /\ Stop(failures')
      <3>1. pc' = "idle" /\ outcome' = "failure_threshold"
        BY <1>2, <1>11, <2>3 DEF Conclude, End
      <3>2. Cardinality(FailedIn(history)) = FailureThreshold
        BY <1>3, <2>1, <2>3 DEF Stop
      <3> QED
        BY <1>8, <2>3, <3>1, <3>2, DistinctWords DEF Outcomes
    <2>4. CASE decision # "escalate" /\ ~Stop(failures')
      <3>1. pc' = "plan" /\ UNCHANGED outcome
        BY <1>2, <1>11, <2>4 DEF Conclude
      <3>2. failures' < FailureThreshold
        BY <1>3, <1>6, <2>4 DEF Stop
      <3> QED
        BY <1>9, <2>1, <2>4, <3>1, <3>2
    <2> QED
      BY <2>2, <2>3, <2>4
  <1> QED
    BY <1>10, <1>11

-----------------------------------------------------------------------------
(***************************************************************************)
(* The theorems.                                                           *)
(***************************************************************************)

\* The inductive invariant holds in every state of every run.
THEOREM LoopInvHolds == Spec => []LoopInv
  <1>1. Init => LoopInv
    BY InitLoopInv
  <1>2. LoopInv /\ [Next]_vars => LoopInv'
    <2> SUFFICES ASSUME LoopInv, [Next]_vars
                 PROVE  LoopInv'
      OBVIOUS
    <2>1. CASE StartRun
      BY <2>1, StartRunKeepsInv
    <2>2. CASE Restart
      BY <2>2, RestartKeepsInv
    <2>3. CASE Plan
      BY <2>3, PlanKeepsInv
    <2>4. CASE Execute
      BY <2>4, ExecuteKeepsInv
    <2>5. CASE MakeDecision
      BY <2>5, MakeDecisionKeepsInv
    <2>6. CASE Save
      BY <2>6, SaveKeepsInv
    <2>7. CASE Conclude
      BY <2>7, ConcludeKeepsInv
    <2>8. CASE UNCHANGED vars
      BY <2>8, IdleKeepsLoopInv
    <2> QED
      BY <2>1, <2>2, <2>3, <2>4, <2>5, <2>6, <2>7, <2>8 DEF Next, Quiet
  <1> QED
    BY <1>1, <1>2, PTL DEF Spec

\* The counters, the plan, the statistics and the history are always what the
\* code takes them for: a count, a plan the position lies in, an entry per
\* iteration.
THEOREM LoopTypeCorrect == Spec => []LoopTypeOK
  <1>1. LoopInv => LoopTypeOK
    BY DEF LoopInv
  <1> QED
    BY <1>1, LoopInvHolds, PTL

\* Under every plan the steps that succeeded are those from where it started to
\* where it stands, each once and in order; a run that reports success has come
\* to the end of its plan.
THEOREM ProgressMatchesPlanHolds == Spec => []ProgressMatchesPlan
  <1>1. LoopInv => ProgressMatchesPlan
    <2> SUFFICES ASSUME LoopInv
                 PROVE  ProgressMatchesPlan
      OBVIOUS
    <2>1. Done = DoneIn(history, plans)
      BY DEF Done, DoneIn
    <2>2. \A k : {j \in Done : j < k} = Before(DoneIn(history, plans), k)
      BY <2>1 DEF Before
    <2> QED
      BY <2>1, <2>2 DEF ProgressMatchesPlan, LoopInv, ProgressInv
  <1> QED
    BY <1>1, LoopInvHolds, PTL

\* What an iteration decides is what the next one does, and a step is repaired
\* exactly when, not for a violation of the policy, it has failed as often as the
\* step threshold says.
THEOREM DecisionsAreFollowedHolds == Spec => []DecisionsAreFollowed
  <1>1. LoopInv => DecisionsAreFollowed
    <2> SUFFICES ASSUME LoopInv, NEW k \in 1..Len(history), NEW e, e = history[k],
                        NEW sameId,
                        sameId = {j \in 1..k : Failed(history[j]) /\ history[j].step.id = e.step.id}
                 PROVE  /\ k < Len(history) =>
                            CASE e.decision = "advance_step" ->
                                     history[k + 1].plan = e.plan
                                       /\ history[k + 1].step.index = e.step.index + 1
                              [] e.decision = "retry_same"   ->
                                     /\ e.pattern = "runtime_error"
                                     /\ history[k + 1].plan = e.plan
                                     /\ history[k + 1].step = e.step
                              [] e.decision = "repair_step"  ->
                                     /\ history[k + 1].plan = e.plan
                                     /\ history[k + 1].step.index = e.step.index
                                     /\ history[k + 1].step.repaired
                              [] e.decision = "adjust_plan"  ->
                                     \/ history[k + 1].plan = e.plan + 1
                                     \/ /\ history[k + 1].plan = e.plan
                                        /\ history[k + 1].step = e.step
                              [] OTHER                       -> FALSE
                        /\ e.decision = "repair_step" <=>
                              /\ Failed(e) /\ e.pattern # "policy_violation"
                              /\ Cardinality(sameId) >= StepThreshold
      BY DEF DecisionsAreFollowed
    <2>1. sameId = OfStep(history, e.step.id, k)
      BY DEF OfStep
    <2>2. e.decision = "repair_step" <=>
             /\ Failed(e) /\ e.pattern # "policy_violation"
             /\ Cardinality(sameId) >= StepThreshold
      BY <2>1 DEF LoopInv, RepairInv, RepairDue, Failed
    <2>3. k < Len(history) => Follows(e, history[k + 1].plan, history[k + 1].step)
      <3>1. Len(history) \in Nat
        BY DEF LoopInv, LoopTypeOK
      <3> QED
        BY <3>1 DEF LoopInv, FollowInv
    <2> QED
      BY <2>2, <2>3 DEF Follows
  <1> QED
    BY <1>1, LoopInvHolds, PTL

\* Over restarts, lost saves and contexts that could not be read, the statistics
\* count no iteration twice.
THEOREM NothingCountedTwiceHolds == Spec => []NothingCountedTwice
  <1>1. LoopInv => NothingCountedTwice
    BY DEF LoopInv, StatsInv, NothingCountedTwice
  <1> QED
    BY <1>1, LoopInvHolds, PTL

\* Work is bounded, a policy violation is the last thing a run meets, every other
\* end has its reason, and no run aborts.
THEOREM EndIsExplainedHolds == Spec => []EndIsExplained
  <1>1. LoopInv => EndIsExplained
    <2> SUFFICES ASSUME LoopInv
                 PROVE  EndIsExplained
      OBVIOUS
    <2>1. {k \in 1..Len(history) : Failed(history[k])} = FailedIn(history)
      BY DEF FailedIn
    <2>2. Len(history) \in Nat /\ iteration \in Nat /\ MaxIterations \in Nat
      BY LoopAssumption DEF LoopInv, LoopTypeOK
    <2>3. Len(history) <= MaxIterations
      BY <2>2 DEF LoopInv, CountInv
    <2>4. \A k \in FailedIn(history) : history[k].pattern = "policy_violation" =>
             k = Len(history) /\ outcome \in {Running, "escalated"}
      BY DEF LoopInv, EndInv, FailedIn
    <2> QED
      BY <2>1, <2>3, <2>4 DEF EndIsExplained, LoopInv, CountInv, EndInv, Last
  <1> QED
    BY <1>1, LoopInvHolds, PTL
=============================================================================
