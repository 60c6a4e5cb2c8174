------------------------ MODULE OrchestratorProofs ------------------------
(***************************************************************************)
(* The safety properties of Orchestrator, proved for plans of any length,  *)
(* any number of approved adaptations, the default and injected engines.   *)
(*                                                                         *)
(* The inductive invariant reads the whole state off pc and phase: which   *)
(* transitions and traces the state machine has, which recovery attempts   *)
(* there can be, how far the report is checked and what memory holds.  The *)
(* default engine is module TaskRunner, whose invariant is carried along.  *)
(***************************************************************************)
EXTENDS Orchestrator, TaskRunnerProofs, SequenceTheorems

\* Every state of the state machine.
States ==
    {"initialized", "planning", "executing", "validating", "reflecting", "improving"}
        \cup Terminal

\* OrchestrationResult.error before anything failed.
NoError == ""

\* The traces of a run whose first k phases completed.
Completed ==
    [k \in 0..5 |-> [i \in 1..k |-> [phase |-> Phases[i], status |-> "completed"]]]

\* The state machine after its first k transitions, none of them to a failure.
Reached(k) ==
    /\ sysState = IF k = 0 THEN "initialized" ELSE Phases[k]
    /\ transitions = SubSeq(Phases, 1, k)

Underway ==
    /\ error = NoError
    /\ \/ pc = "enter" /\ phase \in 1..6 /\ Reached(phase - 1)
       \/ pc = "operation" /\ phase \in 1..5 /\ Reached(phase)
       \/ pc = "interrupted" /\ phase = 2 /\ Reached(phase)
    /\ traces = Completed[phase - 1]

NoneReturned ==
    /\ pc = "returned" /\ customEngines /\ phase \in 1..2
    /\ Reached(phase) /\ traces = Completed[phase]
    /\ error = "orchestration_failed"

PhaseFailed ==
    /\ pc = "returned" /\ phase \in 1..5
    /\ sysState = "failed"
    /\ transitions = SubSeq(Phases, 1, phase) \o <<"failed">>
    /\ traces = Append(Completed[phase - 1],
                       [phase |-> Phases[phase], status |-> "failed"])
    /\ error \in {"phase_error", "orchestration_failed"}

Finished ==
    /\ pc = "returned" /\ phase = 6
    /\ sysState = IF execReport.status = "failed" THEN "failed" ELSE "completed"
    /\ transitions = Phases \o <<sysState>>
    /\ traces = Completed[5]
    /\ error = NoError

Position == Underway \/ NoneReturned \/ PhaseFailed \/ Finished

\* The one attempt that is retried.
Retried ==
    [phase |-> "executing", number |-> 1, category |-> "transient", willRetry |-> TRUE]

\* What the recovery attempts can be: a retry in executing, then the attempt
\* that failed the run.
AttemptsShape ==
    \/ /\ sysState # "failed" \/ phase = 6
       /\ attempts \in {<<>>, <<Retried>>}
       /\ pc = "enter" /\ phase <= 2 => attempts = <<>>
       /\ pc = "operation" =>
            \/ attempt = 1 /\ (phase <= 2 => attempts = <<>>)
            \/ attempt = 2 /\ phase = 2 /\ attempts = <<Retried>>
    \/ /\ sysState = "failed" /\ phase <= 5
       /\ \E b \in {<<>>, <<Retried>>}, n \in {1, 2}, c \in Categories :
            /\ attempts = Append(b, [phase |-> Phases[phase], number |-> n,
                                     category |-> c, willRetry |-> FALSE])
            /\ n = 2 <=> phase = 2 /\ b = <<Retried>>

\* How far the report is known, by phase.
ReportShape ==
    /\ phase <= 2 => execReport = NoReport
    /\ phase > 2 => execReport \in ExecutionReports
    /\ phase > 2 /\ ~customEngines => AcceptedReport(execReport)
    /\ phase > 3 => AcceptedReport(execReport)
    /\ phase = 3 /\ ~customEngines => sysState # "failed"

MemRecord ==
    [kind : {"execution", "task", "failure", "decision"}, task : Nat,
     status : Statuses \cup {"reflection_snapshot", "improvement_action"}]

\* What memory and the list of ids hold, by phase.
MemoryShape ==
    LET records == ReflectionRecords(execReport)
    IN  /\ stored \in Seq(MemRecord) /\ saved \in Seq(MemRecord)
        /\ approved \in Int
        /\ phase <= 4 => saved = <<>> /\ listed = stored
        /\ phase <= 3 => stored = <<>>
        /\ phase = 4 =>
              Len(stored) <= Len(records) /\ stored = SubSeq(records, 1, Len(stored))
        /\ phase > 4 => stored = records \o saved
        /\ phase = 5 => listed = records
        /\ phase = 6 => listed = stored

OrchInv ==
    /\ RunnerInv
    /\ customEngines \in BOOLEAN
    /\ Position
    /\ AttemptsShape
    /\ ReportShape
    /\ MemoryShape

-----------------------------------------------------------------------------
(***************************************************************************)
(* The lists the run builds, one entry at a time.                          *)
(***************************************************************************)

\* The five phases as a sequence.
LEMMA PhaseFacts ==
    /\ Phases \in Seq(States)
    /\ Len(Phases) = 5
    /\ Phases[1] = "planning" /\ Phases[2] = "executing" /\ Phases[3] = "validating"
    /\ Phases[4] = "reflecting" /\ Phases[5] = "improving"
    /\ \A i \in 1..5 : Phases[i] \in States
  <1>1. Phases \in Seq(States)
    BY DEF Phases, States
  <1>2. Len(Phases) = 5
    BY DEF Phases
  <1> QED
    BY <1>1, <1>2, ElementOfSeq DEF Phases

\* Entering phase k adds its state to the transitions.
LEMMA TransitionsGrow ==
    ASSUME NEW k \in 1..5
    PROVE  Append(SubSeq(Phases, 1, k - 1), Phases[k]) = SubSeq(Phases, 1, k)
  <1>1. k \in 1..Len(Phases) /\ 1 \in 1..Len(Phases) /\ 1 \in Int /\ k - 1 \in Int
    BY PhaseFacts
  <1>2. SubSeq(Phases, 1, k) = SubSeq(Phases, 1, k - 1) \o <<Phases[k]>>
    BY <1>1, PhaseFacts, SubSeqRecursiveSecond
  <1>3. SubSeq(Phases, 1, k - 1) \in Seq(States) /\ Phases[k] \in States
    <2>1. \A i \in 1..(k - 1) : Phases[i] \in States
      BY PhaseFacts
    <2> QED
      BY <1>1, <2>1, PhaseFacts, SubSeqProperties, ElementOfSeq
  <1> QED
    BY <1>2, <1>3, AppendIsConcat

\* The transitions of a run that entered k phases, and of one that then failed.
LEMMA TransitionsOf ==
    ASSUME NEW k \in 0..5
    PROVE  /\ SubSeq(Phases, 1, k) \in Seq(States)
           /\ Append(SubSeq(Phases, 1, k), "failed") = SubSeq(Phases, 1, k) \o <<"failed">>
  <1>1. \A i \in 1..k : Phases[i] \in States
    BY PhaseFacts
  <1>2. SubSeq(Phases, 1, k) \in Seq(States)
    BY <1>1, SubSeqProperties
  <1> QED
    BY <1>2, AppendIsConcat

\* A completed phase adds its trace, and a list of k traces has length k.
LEMMA TracesGrow ==
    ASSUME NEW k \in 1..5
    PROVE  Append(Completed[k - 1], [phase |-> Phases[k], status |-> "completed"])
             = Completed[k]
  BY DEF Completed

\* Completed[k] is a list of k traces.
LEMMA TracesOf ==
    ASSUME NEW k \in 0..5
    PROVE  /\ Completed[k] \in Seq([phase : States, status : Terminal])
           /\ Len(Completed[k]) = k
           /\ \A i \in 1..k : Completed[k][i] = [phase |-> Phases[i], status |-> "completed"]
  <1>1. \A i \in 1..k : Phases[i] \in States
    BY PhaseFacts
  <1>2. Completed[k] \in [1..k -> [phase : States, status : Terminal]]
    BY <1>1 DEF Completed, Terminal
  <1>3. \A i \in 1..k : Completed[k][i] = [phase |-> Phases[i], status |-> "completed"]
    BY DEF Completed
  <1>4. \A T : \A g \in [1..k -> T] : g \in Seq(T) /\ Len(g) = k
    OBVIOUS
  <1> QED
    BY <1>2, <1>3, <1>4

\* The records of a list of tasks, one for each.
LEMMA TaskRecords ==
    ASSUME NEW r, r.tasks \in Seq(Statuses)
    PROVE  /\ [t \in DOMAIN r.tasks |-> Record("task", t, r.tasks[t])] \in Seq(MemRecord)
           /\ Len([t \in DOMAIN r.tasks |-> Record("task", t, r.tasks[t])]) \in Nat
  <1> DEFINE n == Len(r.tasks)
             f == [t \in DOMAIN r.tasks |-> Record("task", t, r.tasks[t])]
  <1>1. n \in Nat /\ DOMAIN r.tasks = 1..n /\ \A t \in 1..n : r.tasks[t] \in Statuses
    OBVIOUS
  <1> HIDE DEF n
  <1>2. f \in [1..n -> MemRecord]
    <2>1. \A t \in 1..n : Record("task", t, r.tasks[t]) \in MemRecord
      BY <1>1 DEF Record, MemRecord
    <2>2. f = [t \in 1..n |-> Record("task", t, r.tasks[t])]
      BY <1>1
    <2> QED
      BY <2>1, <2>2
  <1>3. \A g \in [1..n -> MemRecord] : g \in Seq(MemRecord) /\ Len(g) = n
    BY <1>1
  <1> QED
    BY <1>1, <1>2, <1>3

\* The records of a reflection are memory records, the first and last always there.
LEMMA ReflectionFacts ==
    ASSUME NEW r \in ExecutionReports
    PROVE  /\ ReflectionRecords(r) \in Seq(MemRecord)
           /\ Len(ReflectionRecords(r)) >= 2
  <1> DEFINE A == <<Record("execution", 0, r.status)>>
             B == [t \in DOMAIN r.tasks |-> Record("task", t, r.tasks[t])]
             C == IF r.status = "failed" THEN <<Record("failure", 0, "failed")>> ELSE <<>>
             D == <<Record("decision", 0, "reflection_snapshot")>>
  <1>1. r.tasks \in Seq(Statuses) /\ r.status \in Statuses
    BY DEF ExecutionReports
  <1>2. A \in Seq(MemRecord) /\ Len(A) = 1
    BY <1>1 DEF MemRecord, Record, Statuses, Settled
  <1>3. B \in Seq(MemRecord) /\ Len(B) \in Nat
    BY <1>1, TaskRecords
  <1>4. C \in Seq(MemRecord) /\ Len(C) \in Nat
    <2>1. Record("failure", 0, "failed") \in MemRecord
      BY DEF MemRecord, Record, Statuses, Settled
    <2> QED
      BY <2>1
  <1>5. D \in Seq(MemRecord) /\ Len(D) = 1
    BY DEF MemRecord, Record
  <1> HIDE DEF A, B, C, D
  <1>6. (A \o B) \in Seq(MemRecord) /\ Len(A \o B) = 1 + Len(B)
    BY <1>2, <1>3, ConcatProperties
  <1>7. ((A \o B) \o C) \in Seq(MemRecord) /\ Len((A \o B) \o C) = 1 + Len(B) + Len(C)
    BY <1>4, <1>6, ConcatProperties
  <1>8. /\ (((A \o B) \o C) \o D) \in Seq(MemRecord)
        /\ Len(((A \o B) \o C) \o D) = Len((A \o B) \o C) + Len(D)
    BY <1>5, <1>7, ConcatProperties
  <1> QED
    BY <1>3, <1>4, <1>5, <1>7, <1>8 DEF ReflectionRecords, A, B, C, D

\* Appending the next element of a sequence to a prefix of it gives a longer prefix.
LEMMA PrefixGrows ==
    ASSUME NEW S, NEW s \in Seq(S), NEW k \in 0..Len(s), k < Len(s)
    PROVE  Append(SubSeq(s, 1, k), s[k + 1]) = SubSeq(s, 1, k + 1)
  <1>1. /\ Len(s) \in Nat /\ 1 \in 1..Len(s) /\ k + 1 \in 1..Len(s) /\ k \in Int
        /\ (k + 1) - 1 = k
    OBVIOUS
  <1>2. SubSeq(s, 1, k + 1) = SubSeq(s, 1, k) \o <<s[k + 1]>>
    BY <1>1, SubSeqRecursiveSecond
  <1>3. SubSeq(s, 1, k) \in Seq(S) /\ s[k + 1] \in S
    <2>1. \A i \in 1..k : s[i] \in S
      BY <1>1, ElementOfSeq
    <2> QED
      BY <1>1, <2>1, SubSeqProperties, ElementOfSeq
  <1> QED
    BY <1>2, <1>3, AppendIsConcat

-----------------------------------------------------------------------------
(***************************************************************************)
(* The three ways the state machine and the traces move: a phase is        *)
(* entered, its operation returns, its operation raises.                   *)
(***************************************************************************)

\* While an operation runs the state machine is in its phase.
LEMMA AtOperation ==
    ASSUME OrchInv, pc = "operation"
    PROVE  /\ phase \in 1..5 /\ Reached(phase) /\ sysState = Phases[phase]
           /\ traces = Completed[phase - 1] /\ error = NoError
           /\ "failed" \in Allowed(sysState) /\ sysState # "failed"
  <1>1. phase \in 1..5 /\ Reached(phase) /\ traces = Completed[phase - 1] /\ error = NoError
    BY DEF OrchInv, Position, Underway, NoneReturned, PhaseFailed, Finished
  <1>2. sysState = Phases[phase]
    BY <1>1 DEF Reached
  <1>3. sysState \in {"planning", "executing", "validating", "reflecting", "improving"}
    BY <1>1, <1>2, PhaseFacts
  <1> QED
    BY <1>1, <1>2, <1>3 DEF Allowed

\* Entering a phase keeps the positions and the shape of the attempts.
LEMMA EnterKeepsPosition ==
    ASSUME OrchInv, EnterPhase
    PROVE  Position' /\ AttemptsShape' /\ sysState' # "failed"
  <1>1. /\ phase \in 1..5 /\ Reached(phase - 1) /\ traces = Completed[phase - 1]
        /\ error = NoError /\ phase' = phase /\ pc = "enter"
    BY DEF EnterPhase, OrchInv, Position, Underway, NoneReturned, PhaseFailed, Finished
  <1>2. Phases[phase] \in Allowed(sysState) /\ sysState # "failed" /\ Phases[phase] # "failed"
    <2>1. phase = 1 \/ phase = 2 \/ phase = 3 \/ phase = 4 \/ phase = 5
      BY <1>1
    <2> QED
      BY <1>1, <2>1, PhaseFacts DEF Reached, Allowed
  <1>3. /\ sysState' = Phases[phase] /\ pc' = "operation"
        /\ transitions' = Append(transitions, Phases[phase])
        /\ UNCHANGED <<attempts, traces, error>> /\ attempt' = 1
    BY <1>2 DEF EnterPhase, TransitionTo
  <1>4. transitions' = SubSeq(Phases, 1, phase)
    BY <1>1, <1>3, TransitionsGrow DEF Reached
  <1>5. Position'
    BY <1>1, <1>3, <1>4 DEF Position, Underway, Reached
  <1>6. AttemptsShape'
    BY <1>1, <1>2, <1>3 DEF OrchInv, AttemptsShape
  <1> QED
    BY <1>2, <1>3, <1>5, <1>6

\* So does the return of an operation; only an injected engine returns None.
LEMMA SuccessKeepsPosition ==
    ASSUME OrchInv, pc = "operation", NEW isNone \in BOOLEAN, Succeeds(isNone),
           isNone => customEngines /\ phase <= 2
    PROVE  /\ Position' /\ AttemptsShape'
           /\ customEngines' = customEngines /\ sysState' = sysState
           /\ ~isNone => phase' = phase + 1 /\ pc' = "enter"
           /\ isNone => phase' = phase /\ pc' = "returned"
  <1>1. /\ phase \in 1..5 /\ Reached(phase) /\ sysState = Phases[phase]
        /\ traces = Completed[phase - 1] /\ error = NoError /\ sysState # "failed"
    BY AtOperation
  <1>2. /\ traces' = Completed[phase]
        /\ UNCHANGED <<customEngines, sysState, transitions, attempt, attempts>>
    BY <1>1, TracesGrow DEF Succeeds, Trace
  <1>3. CASE isNone
    <2>1. pc' = "returned" /\ error' = "orchestration_failed" /\ phase' = phase
      BY <1>3 DEF Succeeds
    <2>2. Position'
      BY <1>1, <1>2, <1>3, <2>1 DEF Position, NoneReturned, Reached
    <2>3. AttemptsShape'
      BY <1>1, <1>2, <2>1 DEF OrchInv, AttemptsShape
    <2> QED
      BY <1>2, <1>3, <2>1, <2>2, <2>3
  <1>4. CASE ~isNone
    <2>1. pc' = "enter" /\ phase' = phase + 1 /\ error' = error
      BY <1>4 DEF Succeeds
    <2>2. Position'
      BY <1>1, <1>2, <2>1 DEF Position, Underway, Reached
    <2>3. AttemptsShape'
      BY <1>1, <1>2, <2>1 DEF OrchInv, AttemptsShape
    <2> QED
      BY <1>2, <1>4, <2>1, <2>2, <2>3
  <1> QED
    BY <1>3, <1>4

\* The return of a value moves the run to the next phase.
LEMMA CompletionKeepsPosition ==
    ASSUME OrchInv, pc = "operation", Succeeds(FALSE)
    PROVE  /\ Position' /\ AttemptsShape' /\ phase' = phase + 1
           /\ customEngines' = customEngines /\ sysState' = sysState /\ sysState # "failed"
  <1>1. FALSE \in BOOLEAN
    OBVIOUS
  <1>2. sysState # "failed"
    BY AtOperation
  <1>3. /\ Position' /\ AttemptsShape'
        /\ customEngines' = customEngines /\ sysState' = sysState
    BY <1>1, SuccessKeepsPosition
  <1>4. phase' = phase + 1
    BY DEF Succeeds
  <1> QED
    BY <1>2, <1>3, <1>4

\* So does a failure: a transient one in executing is retried once, and any
\* other ends the run in FAILED.
LEMMA FailureKeepsPosition ==
    ASSUME OrchInv, pc = "operation", NEW c \in Categories, Fails(c)
    PROVE  /\ Position' /\ AttemptsShape'
           /\ phase' = phase /\ customEngines' = customEngines
           /\ sysState' \in {sysState, "failed"}
  <1> USE DEF Categories
  <1>1. /\ phase \in 1..5 /\ Reached(phase) /\ sysState = Phases[phase]
        /\ traces = Completed[phase - 1] /\ error = NoError
        /\ "failed" \in Allowed(sysState) /\ sysState # "failed"
    BY AtOperation
  <1>2. /\ phase' = phase /\ customEngines' = customEngines
        /\ attempts' = Append(attempts, [phase |-> Phases[phase], number |-> attempt,
                                         category |-> c, willRetry |-> WillRetry(c)])
    BY DEF Fails
  <1>3. /\ attempts \in {<<>>, <<Retried>>}
        /\ \/ attempt = 1 /\ (phase <= 2 => attempts = <<>>)
           \/ attempt = 2 /\ phase = 2 /\ attempts = <<Retried>>
    BY <1>1 DEF OrchInv, AttemptsShape
  <1>4. CASE WillRetry(c)
    <2>1. /\ attempt' = attempt + 1
          /\ UNCHANGED <<pc, sysState, transitions, traces, error>>
      BY <1>4 DEF Fails
    <2>2. c = "transient" /\ phase = 2 /\ attempt = 1 /\ attempts = <<>>
      BY <1>1, <1>3, <1>4, PhaseFacts DEF WillRetry, MaxRetries
    <2>3. attempts' = <<Retried>>
      BY <1>2, <1>4, <2>2, PhaseFacts DEF Retried
    <2>4. Position'
      BY <1>1, <1>2, <2>1 DEF Position, Underway, Reached
    <2>5. AttemptsShape'
      BY <1>1, <1>2, <2>1, <2>2, <2>3 DEF AttemptsShape
    <2> QED
      BY <1>2, <2>1, <2>4, <2>5
  <1>5. CASE ~WillRetry(c)
    <2>1. /\ pc' = "returned" /\ sysState' = "failed"
          /\ transitions' = Append(transitions, "failed")
          /\ traces' = Append(traces, [phase |-> Phases[phase], status |-> "failed"])
          /\ error' \in {"phase_error", "orchestration_failed"}
      BY <1>1, <1>5 DEF Fails, TransitionTo, Trace
    <2>2. transitions' = SubSeq(Phases, 1, phase) \o <<"failed">>
      BY <1>1, <2>1, TransitionsOf DEF Reached
    <2>3. Position'
      BY <1>1, <1>2, <2>1, <2>2 DEF Position, PhaseFailed
    <2>4. attempts' = Append(attempts, [phase |-> Phases[phase], number |-> attempt,
                                        category |-> c, willRetry |-> FALSE])
      BY <1>2, <1>5 DEF WillRetry
    <2>5. \E b \in {<<>>, <<Retried>>}, n \in {1, 2}, d \in Categories :
            /\ attempts' = Append(b, [phase |-> Phases[phase], number |-> n,
                                      category |-> d, willRetry |-> FALSE])
            /\ n = 2 <=> phase' = 2 /\ b = <<Retried>>
      <3>1. attempts \in {<<>>, <<Retried>>} /\ attempt \in {1, 2}
        BY <1>3
      <3>2. attempt = 2 <=> phase' = 2 /\ attempts = <<Retried>>
        <4>1. Retried # <<>> /\ <<>> # <<Retried>>
          BY DEF Retried
        <4> QED
          BY <1>2, <1>3, <4>1
      <3> QED
        BY <2>4, <3>1, <3>2
    <2>6. AttemptsShape'
      <3>1. sysState' = "failed" /\ phase' = phase /\ phase' <= 5
        BY <1>1, <1>2, <2>1
      <3> QED
        BY <2>5, <3>1 DEF AttemptsShape
    <2> QED
      BY <1>2, <2>1, <2>3, <2>6
  <1> QED
    BY <1>4, <1>5

-----------------------------------------------------------------------------
(***************************************************************************)
(* One lemma per phase: its actions keep the invariant.                    *)
(***************************************************************************)

\* A phase's name gives its number, and back.
LEMMA PhaseNumber ==
    ASSUME OrchInv, NEW name, InPhase(name)
    PROVE  /\ pc = "operation" /\ phase \in 1..5
           /\ name = "planning" => phase = 1
           /\ name = "executing" => phase = 2
           /\ name = "validating" => phase = 3
           /\ name = "reflecting" => phase = 4
           /\ name = "improving" => phase = 5
  <1>1. pc = "operation" /\ Phases[phase] = name
    BY DEF InPhase
  <1>2. phase \in 1..5
    BY <1>1, AtOperation
  <1>3. phase = 1 \/ phase = 2 \/ phase = 3 \/ phase = 4 \/ phase = 5
    BY <1>2
  <1> QED
    BY <1>1, <1>2, <1>3, PhaseFacts

\* The default engine's state moves with its module, or not at all.
LEMMA RunnerKept ==
    ASSUME OrchInv, UNCHANGED runnerVars
    PROVE  RunnerInv'
  BY NextKeepsInv DEF OrchInv

\* A failure changes neither the report nor memory, in any phase where it can occur.
LEMMA FailureKeepsInv ==
    ASSUME OrchInv, pc = "operation", NEW c \in Categories, Fails(c),
           UNCHANGED <<runnerVars, execReport, memory>>,
           phase = 3 => customEngines
    PROVE  OrchInv'
  <1>1. /\ Position' /\ AttemptsShape'
        /\ phase' = phase /\ customEngines' = customEngines
    BY FailureKeepsPosition
  <1>2. ReportShape'
    BY <1>1 DEF OrchInv, ReportShape, AcceptedReport
  <1>3. MemoryShape'
    BY <1>1 DEF OrchInv, MemoryShape, memory
  <1> QED
    BY <1>1, <1>2, <1>3, RunnerKept DEF OrchInv

\* Memory is untouched up to the reflecting phase.
LEMMA EarlyMemory ==
    ASSUME OrchInv, phase \in 1..3, phase' \in 1..4, UNCHANGED memory,
           phase' = 4 => execReport' \in ExecutionReports
    PROVE  MemoryShape'
  <1>1. /\ stored' = <<>> /\ saved' = <<>> /\ listed' = <<>> /\ approved' \in Int
    BY DEF OrchInv, MemoryShape, memory
  <1>2. <<>> \in Seq(MemRecord) /\ Len(<<>>) = 0
    BY EmptySeq
  <1>3. phase' = 4 => /\ 0 <= Len(ReflectionRecords(execReport'))
                      /\ SubSeq(ReflectionRecords(execReport'), 1, 0) = <<>>
    <2>1. phase' = 4 => Len(ReflectionRecords(execReport')) >= 2
                        /\ ReflectionRecords(execReport') \in Seq(MemRecord)
      BY ReflectionFacts
    <2> QED
      BY <2>1, LenProperties, SubSeqEmpty
  <1> QED
    BY <1>1, <1>2, <1>3 DEF MemoryShape

\* Entering a phase.
LEMMA EnterKeepsInv == OrchInv /\ EnterPhase => OrchInv'
  <1> SUFFICES ASSUME OrchInv, EnterPhase
               PROVE  OrchInv'
    OBVIOUS
  <1>1. Position' /\ AttemptsShape' /\ sysState' # "failed"
    BY EnterKeepsPosition
  <1>2. UNCHANGED <<runnerVars, customEngines, phase, execReport, memory>>
    BY DEF EnterPhase
  <1>4. ReportShape'
    BY <1>1, <1>2 DEF OrchInv, ReportShape
  <1>5. MemoryShape'
    BY <1>2 DEF OrchInv, MemoryShape, memory
  <1> QED
    BY <1>1, <1>2, <1>4, <1>5, RunnerKept DEF OrchInv

\* The planning phase.
LEMMA PlanKeepsInv == OrchInv /\ Plan => OrchInv'
  <1> SUFFICES ASSUME OrchInv, Plan
               PROVE  OrchInv'
    OBVIOUS
  <1>1. pc = "operation" /\ phase = 1
    BY PhaseNumber DEF Plan
  <1>2. UNCHANGED <<runnerVars, execReport, memory>>
    BY DEF Plan
  <1>3. ASSUME NEW isNone \in BOOLEAN, isNone => customEngines, Succeeds(isNone)
        PROVE  OrchInv'
    <2>1. /\ Position' /\ AttemptsShape' /\ customEngines' = customEngines
          /\ phase' \in 1..2
      BY <1>1, <1>3, SuccessKeepsPosition
    <2>2. ReportShape'
      BY <1>1, <1>2, <2>1 DEF OrchInv, ReportShape
    <2>3. MemoryShape'
      BY <1>1, <1>2, <2>1, EarlyMemory
    <2> QED
      BY <1>2, <2>1, <2>2, <2>3, RunnerKept DEF OrchInv
  <1>4. ASSUME NEW c \in Categories, Fails(c)
        PROVE  OrchInv'
    BY <1>1, <1>2, <1>4, FailureKeepsInv
  <1>5. "deterministic" \in Categories
    BY DEF Categories
  <1> QED
    BY <1>3, <1>4, <1>5 DEF Plan, OrchInv

\* What an injected engine reports is a report.
LEMMA CustomReportFacts == \A r \in CustomReports : r \in ExecutionReports /\ r # NoReport
  <1> SUFFICES ASSUME NEW r \in CustomReports
               PROVE  r \in ExecutionReports /\ r # NoReport
    OBVIOUS
  <1>1. r \in ExecutionReports
    BY CustomReportsAssumption
  <1>2. r.status # "none" /\ NoReport.status = "none"
    BY <1>1 DEF ExecutionReports, Statuses, Settled, NoReport
  <1> QED
    BY <1>1, <1>2

\* The report run_plan returns passes the orchestrator's validation.
LEMMA ReturnedReportFacts ==
    ASSUME RunnerInv, runState = "returned"
    PROVE  report \in ExecutionReports /\ AcceptedReport(report)
  <1>1. report \in Reports /\ report = ReportOf(status)
    BY DEF RunnerInv, RunnerTypeOK, ReportIsOfStatus
  <1>2. report # NoReport
    BY <1>1 DEF ReportOf, NoReport
  <1>3. ReportIsTruthful
    BY InvIsTruthful
  <1>4. \A f \in [Tasks -> Statuses] : f \in Seq(Statuses)
    BY NAssumption DEF Tasks
  <1>5. report \in ExecutionReports
    BY <1>1, <1>2, <1>4 DEF Reports, ExecutionReports, Statuses, Settled
  <1> QED
    BY <1>2, <1>3, <1>5 DEF ReportIsTruthful

\* The executing phase under the default engine.
LEMMA RunPlanKeepsInv ==
    OrchInv /\ (RunPlanStep \/ RunPlanReturns \/ RunPlanRaises \/ RunPlanInterrupted)
      => OrchInv'
  <1> SUFFICES ASSUME OrchInv,
                      RunPlanStep \/ RunPlanReturns \/ RunPlanRaises \/ RunPlanInterrupted
               PROVE  OrchInv'
    OBVIOUS
  <1>1. InPhase("executing") /\ ~customEngines
    BY DEF RunPlanStep, RunPlanReturns, RunPlanRaises, RunPlanInterrupted
  <1>2. pc = "operation" /\ phase = 2
    BY <1>1, PhaseNumber
  <1>3. CASE RunPlanStep
    <2>1. RunnerInv'
      BY <1>3, NextKeepsInv DEF RunPlanStep, RunnerNext, OrchInv
    <2>2. UNCHANGED orchVars
      BY <1>3 DEF RunPlanStep
    <2>3. Position'
      BY <2>2 DEF orchVars, OrchInv, Position, Underway, NoneReturned, PhaseFailed,
                  Finished, Reached
    <2>4. AttemptsShape' /\ ReportShape'
      BY <2>2 DEF orchVars, OrchInv, AttemptsShape, ReportShape
    <2>5. MemoryShape'
      BY <2>2 DEF orchVars, OrchInv, MemoryShape
    <2> QED
      BY <2>1, <2>2, <2>3, <2>4, <2>5 DEF orchVars, OrchInv
  <1>4. CASE RunPlanReturns
    <2>1. /\ Succeeds(FALSE) /\ execReport' = report /\ runState = "returned"
          /\ UNCHANGED <<runnerVars, memory>>
      BY <1>4 DEF RunPlanReturns
    <2>2. Position' /\ AttemptsShape' /\ phase' = 3 /\ customEngines' = customEngines
          /\ sysState' = sysState /\ sysState # "failed"
      BY <1>2, <2>1, CompletionKeepsPosition
    <2>3. report \in ExecutionReports /\ AcceptedReport(report)
      BY <2>1, ReturnedReportFacts DEF OrchInv
    <2>4. ReportShape'
      BY <2>1, <2>2, <2>3 DEF ReportShape, AcceptedReport
    <2>5. MemoryShape'
      BY <1>2, <2>1, <2>2, EarlyMemory
    <2> QED
      BY <2>1, <2>2, <2>4, <2>5, RunnerKept DEF OrchInv
  <1>5. CASE RunPlanRaises
    <2>1. "deterministic" \in Categories
      BY DEF Categories
    <2> QED
      BY <1>2, <1>5, <2>1, FailureKeepsInv DEF RunPlanRaises
  <1>6. CASE RunPlanInterrupted
    <2>1. /\ pc' = "interrupted"
          /\ UNCHANGED <<runnerVars, customEngines, phase, sysState, transitions, attempt,
                         attempts, traces, execReport, memory, error>>
      BY <1>6 DEF RunPlanInterrupted
    <2>2. Reached(2) /\ traces = Completed[phase - 1] /\ error = NoError
          /\ sysState # "failed"
      BY <1>2, AtOperation
    <2>3. Position'
      BY <1>2, <2>1, <2>2 DEF Position, Underway, Reached
    <2>4. AttemptsShape'
      BY <1>2, <2>1, <2>2 DEF OrchInv, AttemptsShape
    <2>5. ReportShape'
      BY <2>1 DEF OrchInv, ReportShape
    <2>6. MemoryShape'
      BY <2>1 DEF OrchInv, MemoryShape, memory
    <2> QED
      BY <2>1, <2>3, <2>4, <2>5, <2>6, RunnerKept DEF OrchInv
  <1> QED
    BY <1>3, <1>4, <1>5, <1>6

\* The executing phase under an injected engine.
LEMMA CustomEngineKeepsInv == OrchInv /\ CustomEngine => OrchInv'
  <1> SUFFICES ASSUME OrchInv, CustomEngine
               PROVE  OrchInv'
    OBVIOUS
  <1>1. pc = "operation" /\ phase = 2 /\ customEngines
    BY PhaseNumber DEF CustomEngine
  <1>2. UNCHANGED <<runnerVars, memory>> /\ execReport = NoReport
    BY <1>1 DEF CustomEngine, OrchInv, ReportShape
  <1>3. ASSUME NEW isNone \in BOOLEAN, Succeeds(isNone),
               execReport' = NoReport \/ execReport' \in CustomReports,
               isNone <=> execReport' = NoReport
        PROVE  OrchInv'
    <2>1. /\ Position' /\ AttemptsShape' /\ customEngines' = customEngines
          /\ isNone => phase' = phase
          /\ ~isNone => phase' = phase + 1
      <3>1. customEngines /\ phase <= 2
        BY <1>1
      <3> QED
        BY <1>1, <1>3, <3>1, SuccessKeepsPosition
    <2>2. /\ phase' = 2 \/ phase' = 3
          /\ phase' = 2 => execReport' = NoReport
          /\ phase' = 3 => execReport' \in CustomReports
      <3>1. CASE isNone
        BY <1>1, <1>3, <2>1, <3>1
      <3>2. CASE ~isNone
        BY <1>1, <1>3, <2>1, <3>2
      <3> QED
        BY <3>1, <3>2
    <2>3. ReportShape'
      BY <1>1, <2>1, <2>2, CustomReportFacts DEF ReportShape
    <2>4. MemoryShape'
      BY <1>1, <1>2, <2>2, EarlyMemory
    <2> QED
      BY <1>1, <1>2, <2>1, <2>3, <2>4, RunnerKept DEF OrchInv
  <1>4. CASE \E r \in CustomReports : Succeeds(FALSE) /\ execReport' = r
    BY <1>3, <1>4, CustomReportFacts
  <1>5. CASE Succeeds(TRUE) /\ UNCHANGED execReport
    BY <1>2, <1>3, <1>5
  <1>6. CASE \E c \in Categories : Fails(c) /\ UNCHANGED execReport
    BY <1>1, <1>2, <1>6, FailureKeepsInv
  <1> QED
    BY <1>4, <1>5, <1>6 DEF CustomEngine

\* The validating phase: the report that passes is an accepted one, and the
\* default engine's never fails.
LEMMA ValidateKeepsInv == OrchInv /\ Validate => OrchInv'
  <1> SUFFICES ASSUME OrchInv, Validate
               PROVE  OrchInv'
    OBVIOUS
  <1>1. pc = "operation" /\ phase = 3
    BY PhaseNumber DEF Validate
  <1>2. UNCHANGED <<runnerVars, execReport, memory>>
    BY DEF Validate
  <1>3. CASE AcceptedReport(execReport)
    <2>1. Succeeds(FALSE)
      BY <1>3 DEF Validate
    <2>2. Position' /\ AttemptsShape' /\ phase' = 4 /\ customEngines' = customEngines
      BY <1>1, <2>1, CompletionKeepsPosition
    <2>3. execReport' \in ExecutionReports /\ AcceptedReport(execReport')
      BY <1>1, <1>2, <1>3 DEF OrchInv, ReportShape, AcceptedReport
    <2>4. ReportShape'
      BY <2>2, <2>3 DEF ReportShape, AcceptedReport
    <2>5. MemoryShape'
      BY <1>1, <1>2, <2>2, <2>3, EarlyMemory
    <2> QED
      BY <1>2, <2>2, <2>4, <2>5, RunnerKept DEF OrchInv
  <1>4. CASE ~AcceptedReport(execReport)
    <2>1. Fails("deterministic") /\ customEngines /\ "deterministic" \in Categories
      BY <1>1, <1>4 DEF Validate, OrchInv, ReportShape, Categories
    <2> QED
      BY <1>1, <1>2, <2>1, FailureKeepsInv
  <1> QED
    BY <1>3, <1>4

\* The reflecting phase writes the reflection's records in their order.
LEMMA ReflectKeepsInv ==
    OrchInv /\ (ReflectWrite \/ ReflectFails \/ ReflectReturns) => OrchInv'
  <1> SUFFICES ASSUME OrchInv, ReflectWrite \/ ReflectFails \/ ReflectReturns
               PROVE  OrchInv'
    OBVIOUS
  <1> DEFINE records == ReflectionRecords(execReport)
  <1>1. InPhase("reflecting")
    BY DEF ReflectWrite, ReflectFails, ReflectReturns
  <1>2. pc = "operation" /\ phase = 4
    BY <1>1, PhaseNumber
  <1>3. /\ records \in Seq(MemRecord) /\ Len(records) >= 2
        /\ execReport \in ExecutionReports /\ AcceptedReport(execReport)
    BY <1>2, ReflectionFacts DEF OrchInv, ReportShape
  <1>4. /\ stored \in Seq(MemRecord) /\ saved = <<>> /\ listed = stored
        /\ Len(stored) <= Len(records) /\ stored = SubSeq(records, 1, Len(stored))
        /\ approved \in Int
    BY <1>2 DEF OrchInv, MemoryShape
  <1> HIDE DEF records
  <1>5. CASE ReflectWrite
    <2>1. /\ Len(listed) + 1 <= Len(records)
          /\ stored' = Append(stored, records[Len(listed) + 1])
          /\ listed' = Append(listed, records[Len(listed) + 1])
          /\ UNCHANGED <<runnerVars, customEngines, phase, pc, sysState, transitions,
                         attempt, attempts, traces, execReport, approved, saved, error>>
      BY <1>5 DEF ReflectWrite, records
    <2>2. Position'
      BY <2>1 DEF OrchInv, Position, Underway, NoneReturned, PhaseFailed, Finished, Reached
    <2>3. AttemptsShape' /\ ReportShape'
      BY <2>1 DEF OrchInv, AttemptsShape, ReportShape
    <2>4. stored' = SubSeq(records, 1, Len(stored) + 1)
      BY <1>3, <1>4, <2>1, PrefixGrows
    <2>5. /\ stored' \in Seq(MemRecord) /\ Len(stored') = Len(stored) + 1
          /\ listed' = stored' /\ saved' = <<>> /\ approved' \in Int
          /\ saved' \in Seq(MemRecord)
      BY <1>3, <1>4, <2>1
    <2>6. MemoryShape'
      BY <1>2, <1>4, <2>1, <2>4, <2>5 DEF MemoryShape, records
    <2> QED
      BY <2>1, <2>2, <2>3, <2>6, RunnerKept DEF OrchInv
  <1>6. CASE ReflectFails
    <2>1. "deterministic" \in Categories
      BY DEF Categories
    <2> QED
      BY <1>2, <1>6, <2>1, FailureKeepsInv DEF ReflectFails
  <1>7. CASE ReflectReturns
    <2>1. /\ Len(listed) = Len(records) /\ Succeeds(FALSE)
          /\ UNCHANGED <<runnerVars, execReport, memory>>
      BY <1>7 DEF ReflectReturns, records
    <2>2. Position' /\ AttemptsShape' /\ phase' = 5 /\ customEngines' = customEngines
      BY <1>2, <2>1, CompletionKeepsPosition
    <2>3. ReportShape'
      BY <1>3, <2>1, <2>2 DEF ReportShape, AcceptedReport
    <2>4. stored = records
      BY <1>3, <1>4, <2>1, SubSeqFull
    <2>5. stored = records \o saved
      BY <1>3, <1>4, <2>4, ConcatEmptySeq
    <2>6. MemoryShape'
      BY <1>4, <2>1, <2>2, <2>4, <2>5 DEF MemoryShape, memory, records, OrchInv
    <2> QED
      BY <2>1, <2>2, <2>3, <2>6, RunnerKept DEF OrchInv
  <1> QED
    BY <1>5, <1>6, <1>7

\* The improving phase appends behind the reflection's records, and lists what
\* it saved when it returns.
LEMMA ImproveKeepsInv ==
    OrchInv /\ (ImprovementRunner \/ StoreImprovement \/ ImproveFails \/ ImproveReturns)
      => OrchInv'
  <1> SUFFICES ASSUME OrchInv,
                      ImprovementRunner \/ StoreImprovement \/ ImproveFails \/ ImproveReturns
               PROVE  OrchInv'
    OBVIOUS
  <1> DEFINE records == ReflectionRecords(execReport)
  <1>1. InPhase("improving")
    BY DEF ImprovementRunner, StoreImprovement, ImproveFails, ImproveReturns
  <1>2. pc = "operation" /\ phase = 5
    BY <1>1, PhaseNumber
  <1>3. /\ records \in Seq(MemRecord) /\ Len(records) >= 2
        /\ execReport \in ExecutionReports /\ AcceptedReport(execReport)
    BY <1>2, ReflectionFacts DEF OrchInv, ReportShape
  <1>4. /\ stored \in Seq(MemRecord) /\ saved \in Seq(MemRecord) /\ listed = records
        /\ stored = records \o saved /\ approved \in Int
    BY <1>2 DEF OrchInv, MemoryShape
  <1> HIDE DEF records
  <1>5. CASE ImprovementRunner \/ StoreImprovement
    <2>1. UNCHANGED <<runnerVars, customEngines, phase, pc, sysState, transitions,
                      attempt, attempts, traces, execReport, listed, error>>
      BY <1>5 DEF ImprovementRunner, StoreImprovement
    <2>2. Position'
      BY <2>1 DEF OrchInv, Position, Underway, NoneReturned, PhaseFailed, Finished, Reached
    <2>3. AttemptsShape' /\ ReportShape'
      BY <2>1 DEF OrchInv, AttemptsShape, ReportShape
    <2>4. approved' \in Int
      BY <1>4, <1>5, MaxApprovedAssumption DEF ImprovementRunner, StoreImprovement
    <2>5. /\ stored' \in Seq(MemRecord) /\ saved' \in Seq(MemRecord)
          /\ stored' = records \o saved'
      <3>1. CASE ImprovementRunner
        BY <1>4, <3>1 DEF ImprovementRunner
      <3>2. CASE StoreImprovement
        <4> DEFINE r == Record("decision", 0, "improvement_action")
        <4>1. r \in MemRecord
          BY DEF Record, MemRecord
        <4>2. stored' = Append(stored, r) /\ saved' = Append(saved, r)
          BY <3>2 DEF StoreImprovement
        <4> HIDE DEF r
        <4>3. stored' = (records \o saved) \o <<r>> /\ saved' = saved \o <<r>>
          BY <1>4, <4>1, <4>2, AppendIsConcat
        <4>4. <<r>> \in Seq(MemRecord)
          BY <4>1
        <4> QED
          BY <1>3, <1>4, <4>1, <4>2, <4>3, <4>4, AppendProperties, ConcatAssociative
      <3> QED
        BY <1>5, <3>1, <3>2
    <2>6. MemoryShape'
      BY <1>2, <1>4, <2>1, <2>4, <2>5 DEF MemoryShape, records
    <2> QED
      BY <2>1, <2>2, <2>3, <2>6, RunnerKept DEF OrchInv
  <1>6. CASE ImproveFails
    <2>1. "deterministic" \in Categories
      BY DEF Categories
    <2> QED
      BY <1>2, <1>6, <2>1, FailureKeepsInv DEF ImproveFails
  <1>7. CASE ImproveReturns
    <2>1. /\ listed' = listed \o saved /\ Succeeds(FALSE)
          /\ UNCHANGED <<runnerVars, execReport, approved, saved, stored>>
      BY <1>7 DEF ImproveReturns
    <2>2. Position' /\ AttemptsShape' /\ phase' = 6 /\ customEngines' = customEngines
      BY <1>2, <2>1, CompletionKeepsPosition
    <2>3. ReportShape'
      BY <1>3, <2>1, <2>2 DEF ReportShape, AcceptedReport
    <2>4. MemoryShape'
      BY <1>4, <2>1, <2>2 DEF MemoryShape, records
    <2> QED
      BY <2>1, <2>2, <2>3, <2>4, RunnerKept DEF OrchInv
  <1> QED
    BY <1>5, <1>6, <1>7

\* The end of run takes the state machine where the report says.
LEMMA RunEndKeepsInv == OrchInv /\ Finish => OrchInv'
  <1> SUFFICES ASSUME OrchInv, Finish,
                      NEW end, end = IF execReport.status = "failed" THEN "failed" ELSE "completed"
               PROVE  OrchInv'
    OBVIOUS
  <1>1. /\ pc = "enter" /\ phase = 6 /\ TransitionTo(end, "returned")
        /\ UNCHANGED <<runnerVars, customEngines, phase, attempt, attempts, traces,
                       execReport, memory, error>>
    BY DEF Finish
  <1>2. Reached(5) /\ traces = Completed[5] /\ error = NoError
    BY <1>1 DEF OrchInv, Position, Underway, NoneReturned, PhaseFailed, Finished
  <1>3. sysState = "improving" /\ transitions = SubSeq(Phases, 1, 5)
    BY <1>2, PhaseFacts DEF Reached
  <1>4. SubSeq(Phases, 1, 5) = Phases /\ Phases \in Seq(States)
    BY PhaseFacts, SubSeqFull
  <1>5. end \in {"completed", "failed"} /\ end \in States
    BY DEF States, Terminal
  <1>6. end \in Allowed(sysState)
    BY <1>3, <1>5 DEF Allowed
  <1>7. sysState' = end /\ transitions' = Append(transitions, end) /\ pc' = "returned"
    BY <1>1, <1>6 DEF TransitionTo
  <1>8. transitions' = Phases \o <<end>>
    BY <1>3, <1>4, <1>5, <1>7, AppendIsConcat
  <1>9. Position'
    BY <1>1, <1>2, <1>7, <1>8 DEF Position, Finished
  <1>10. AttemptsShape'
    <2>1. attempts \in {<<>>, <<Retried>>}
      BY <1>1, <1>3 DEF OrchInv, AttemptsShape
    <2> QED
      BY <1>1, <1>7, <2>1 DEF AttemptsShape
  <1>11. ReportShape'
    BY <1>1 DEF OrchInv, ReportShape
  <1>12. MemoryShape'
    BY <1>1 DEF OrchInv, MemoryShape, memory
  <1> QED
    BY <1>1, <1>9, <1>10, <1>11, <1>12, RunnerKept DEF OrchInv

-----------------------------------------------------------------------------
(***************************************************************************)
(* The invariant of the whole run.                                         *)
(***************************************************************************)

\* A run starts in the invariant.
LEMMA OrchInitInv == Init => OrchInv
  <1> SUFFICES ASSUME Init
               PROVE  OrchInv
    OBVIOUS
  <1>1. RunnerInv
    BY InitInv DEF Init
  <1>2. /\ customEngines \in BOOLEAN /\ phase = 1 /\ pc = "enter"
        /\ sysState = "initialized" /\ transitions = <<>> /\ attempts = <<>>
        /\ traces = <<>> /\ execReport = NoReport
        /\ approved = -1 /\ saved = <<>> /\ stored = <<>> /\ listed = <<>>
    BY Zenon DEF Init
  <1>3. error = NoError
    BY Zenon DEF Init, NoError
  <1>4. SubSeq(Phases, 1, 0) = <<>> /\ Completed[0] = <<>>
    BY SubSeqEmpty, TracesOf
  <1>5. Position
    BY <1>2, <1>3, <1>4 DEF Position, Underway, Reached
  <1>6. AttemptsShape /\ ReportShape
    BY <1>2 DEF AttemptsShape, ReportShape
  <1>7. MemoryShape
    BY <1>2, EmptySeq DEF MemoryShape
  <1> QED
    BY <1>1, <1>2, <1>5, <1>6, <1>7 DEF OrchInv

\* Every step keeps the invariant, one case per phase.
LEMMA OrchNextKeepsInv == OrchInv /\ [Next]_vars => OrchInv'
  <1> SUFFICES ASSUME OrchInv, [Next]_vars
               PROVE  OrchInv'
    OBVIOUS
  <1>1. CASE EnterPhase
    BY <1>1, EnterKeepsInv
  <1>2. CASE Plan
    BY <1>2, PlanKeepsInv
  <1>3. CASE RunPlanStep \/ RunPlanReturns \/ RunPlanRaises \/ RunPlanInterrupted
    BY <1>3, RunPlanKeepsInv
  <1>4. CASE CustomEngine
    BY <1>4, CustomEngineKeepsInv
  <1>5. CASE Validate
    BY <1>5, ValidateKeepsInv
  <1>6. CASE ReflectWrite \/ ReflectFails \/ ReflectReturns
    BY <1>6, ReflectKeepsInv
  <1>7. CASE ImprovementRunner \/ StoreImprovement \/ ImproveFails \/ ImproveReturns
    BY <1>7, ImproveKeepsInv
  <1>8. CASE Finish
    BY <1>8, RunEndKeepsInv
  <1>9. CASE UNCHANGED vars
    <2>1. UNCHANGED runnerVars /\ UNCHANGED orchVars
      BY <1>9 DEF vars
    <2>2. RunnerInv'
      BY <2>1, RunnerKept
    <2>3. Position'
      BY <2>1 DEF orchVars, OrchInv, Position, Underway, NoneReturned, PhaseFailed,
                  Finished, Reached
    <2>4. AttemptsShape' /\ ReportShape'
      BY <2>1 DEF orchVars, OrchInv, AttemptsShape, ReportShape
    <2>5. MemoryShape'
      BY <2>1 DEF orchVars, OrchInv, MemoryShape
    <2> QED
      BY <2>1, <2>2, <2>3, <2>4, <2>5 DEF orchVars, OrchInv
  <1> QED
    BY <1>1, <1>2, <1>3, <1>4, <1>5, <1>6, <1>7, <1>8, <1>9 DEF Next, Step, Done

\* The invariant holds in every state of every run.
THEOREM OrchInvHolds == Spec => []OrchInv
  <1> QED
    BY OrchInitInv, OrchNextKeepsInv, PTL DEF Spec

-----------------------------------------------------------------------------
(***************************************************************************)
(* What the invariant gives.                                               *)
(***************************************************************************)

\* Which state the state machine is in, by the way the run stands.
LEMMA StateByPosition ==
    ASSUME OrchInv
    PROVE  /\ sysState = "completed" => Finished
           /\ sysState = "failed" => PhaseFailed \/ Finished
           /\ phase \in 1..6
  <1>1. CASE Underway
    <2>1. phase \in 1..6 /\ (Reached(phase - 1) \/ (phase <= 5 /\ Reached(phase)))
      BY <1>1 DEF Underway
    <2>2. sysState = "initialized" \/ \E k \in 1..5 : sysState = Phases[k]
      BY <2>1 DEF Reached
    <2>3. sysState \notin Terminal
      BY <2>2 DEF Phases, Terminal
    <2> QED
      BY <2>1, <2>3 DEF Terminal
  <1>2. CASE NoneReturned
    <2>1. phase \in 1..2 /\ sysState = Phases[phase]
      BY <1>2 DEF NoneReturned, Reached
    <2> QED
      BY <2>1, PhaseFacts
  <1>3. CASE PhaseFailed
    BY <1>3 DEF PhaseFailed
  <1>4. CASE Finished
    BY <1>4 DEF Finished
  <1> QED
    BY <1>1, <1>2, <1>3, <1>4 DEF OrchInv, Position

\* Under the default engine the report the run goes on with is run_plan's.
DefaultReport == phase > 2 /\ ~customEngines => execReport = report

\* Every step keeps it: after the executing phase neither of the two changes.
LEMMA NextKeepsDefaultReport ==
    OrchInv /\ DefaultReport /\ [Next]_vars => DefaultReport'
  <1> SUFFICES ASSUME OrchInv, DefaultReport, [Next]_vars
               PROVE  DefaultReport'
    OBVIOUS
  <1>1. CASE EnterPhase \/ Validate \/ Finish \/ UNCHANGED vars
    <2>1. CASE Validate
      <3>1. phase = 3
        BY <2>1, PhaseNumber DEF Validate
      <3> QED
        BY <2>1, <3>1 DEF Validate, DefaultReport, runnerVars, Succeeds, Fails
    <2>2. CASE EnterPhase \/ Finish \/ UNCHANGED vars
      BY <2>2 DEF EnterPhase, Finish, vars, orchVars, DefaultReport, runnerVars
    <2> QED
      BY <1>1, <2>1, <2>2
  <1>2. CASE Plan
    <2>1. phase = 1
      BY <1>2, PhaseNumber DEF Plan
    <2>2. phase' = 1 \/ phase' = 2
      <3>1. CASE \E c \in Categories \cup {"deterministic"} : Fails(c)
        BY <2>1, <3>1 DEF Fails
      <3>2. CASE \E isNone \in BOOLEAN : Succeeds(isNone)
        <4>1. PICK isNone \in BOOLEAN : Succeeds(isNone)
          BY <3>2
        <4>2. isNone => phase' = phase
          BY <4>1 DEF Succeeds
        <4>3. ~isNone => phase' = phase + 1
          BY <4>1 DEF Succeeds
        <4> QED
          BY <2>1, <4>2, <4>3
      <3> QED
        BY <1>2, <3>1, <3>2 DEF Plan
    <2> QED
      BY <2>2 DEF DefaultReport
  <1>3. CASE RunPlanStep \/ RunPlanReturns \/ RunPlanRaises \/ RunPlanInterrupted
    <2>1. phase = 2
      BY <1>3, PhaseNumber DEF RunPlanStep, RunPlanReturns, RunPlanRaises, RunPlanInterrupted
    <2>2. CASE RunPlanReturns
      BY <2>2 DEF RunPlanReturns, runnerVars, DefaultReport
    <2>3. CASE RunPlanStep \/ RunPlanRaises \/ RunPlanInterrupted
      <3>1. phase' = phase
        BY <2>3 DEF RunPlanStep, RunPlanRaises, RunPlanInterrupted, orchVars, Fails
      <3> QED
        BY <2>1, <3>1 DEF DefaultReport
    <2> QED
      BY <1>3, <2>2, <2>3
  <1>4. CASE CustomEngine
    BY <1>4 DEF CustomEngine, Succeeds, Fails, DefaultReport
  <1>5. CASE ReflectWrite \/ ReflectFails \/ ReflectReturns
    <2>1. phase = 4
      BY <1>5, PhaseNumber DEF ReflectWrite, ReflectFails, ReflectReturns
    <2> QED
      BY <1>5, <2>1
         DEF ReflectWrite, ReflectFails, ReflectReturns, Succeeds, Fails, DefaultReport,
             runnerVars
  <1>6. CASE ImprovementRunner \/ StoreImprovement \/ ImproveFails \/ ImproveReturns
    <2>1. phase = 5
      BY <1>6, PhaseNumber
         DEF ImprovementRunner, StoreImprovement, ImproveFails, ImproveReturns
    <2> QED
      BY <1>6, <2>1
         DEF ImprovementRunner, StoreImprovement, ImproveFails, ImproveReturns, Succeeds,
             Fails, DefaultReport, runnerVars
  <1> QED
    BY <1>1, <1>2, <1>3, <1>4, <1>5, <1>6 DEF Next, Step, Done

\* In every state of every run.
LEMMA DefaultReportHolds == Spec => [](OrchInv /\ DefaultReport)
  <1>1. Init => DefaultReport
    <2> SUFFICES ASSUME Init
                 PROVE  DefaultReport
      OBVIOUS
    <2>1. phase = 1
      BY Zenon DEF Init
    <2> QED
      BY <2>1 DEF DefaultReport
  <1> QED
    BY <1>1, OrchInitInv, OrchNextKeepsInv, NextKeepsDefaultReport, PTL DEF Spec

\* COMPLETED is earned by five completed phases, an accepted report without a
\* failure, and a list of ids that names everything stored; under the default
\* engine by the completion of every task of the plan.
THEOREM CompletedRunIsWholeHolds == Spec => []CompletedRunIsWhole
  <1>1. OrchInv /\ DefaultReport => CompletedRunIsWhole
    <2> SUFFICES ASSUME OrchInv, DefaultReport, sysState = "completed"
                 PROVE  /\ transitions = Phases \o <<"completed">>
                        /\ traces = [i \in 1..5 |-> [phase |-> Phases[i], status |-> "completed"]]
                        /\ AcceptedReport(execReport)
                        /\ execReport.failed = 0 /\ execReport.status # "failed"
                        /\ \/ execReport.status = "completed"
                           \/ customEngines /\ execReport.skipped > 0
                        /\ ~customEngines => \A t \in Tasks : status[t] = "completed"
                        /\ listed = stored
                        /\ error = ""
      BY Zenon DEF CompletedRunIsWhole
    <2>1. Finished
      BY StateByPosition
    <2>2. phase = 6 /\ transitions = Phases \o <<"completed">> /\ error = NoError
          /\ execReport.status # "failed" /\ traces = Completed[5]
      BY <2>1 DEF Finished
    <2>3. traces = [i \in 1..5 |-> [phase |-> Phases[i], status |-> "completed"]]
      BY <2>2 DEF Completed
    <2>4. execReport \in ExecutionReports /\ AcceptedReport(execReport)
      BY <2>2 DEF OrchInv, ReportShape
    <2>5. /\ execReport.failed = 0
          /\ execReport.status = "completed" \/ execReport.skipped > 0
      BY <2>2, <2>4 DEF ExecutionReports, AcceptedReport
    <2>6. ASSUME ~customEngines
          PROVE  /\ execReport.status = "completed"
                 /\ \A t \in Tasks : status[t] = "completed"
      <3>1. execReport = report /\ ReportIsTruthful /\ report \in Reports
        BY <2>2, <2>6, InvIsTruthful DEF OrchInv, DefaultReport, RunnerInv, RunnerTypeOK
      <3>2. report # NoReport
        <4>1. "none" \notin Statuses
          BY DEF Statuses, Settled
        <4> QED
          BY <2>4, <3>1, <4>1 DEF ExecutionReports, NoReport
      <3>3. report.status = "completed"
        BY <2>2, <3>1, <3>2 DEF Reports
      <3> QED
        BY <3>1, <3>2, <3>3 DEF ReportIsTruthful
    <2>7. listed = stored
      BY <2>2 DEF OrchInv, MemoryShape
    <2>8. error = ""
      BY <2>2, Zenon DEF NoError
    <2>9. \/ execReport.status = "completed"
          \/ customEngines /\ execReport.skipped > 0
      BY <2>5, <2>6
    <2> QED
      BY <2>2, <2>3, <2>4, <2>5, <2>6, <2>7, <2>8, <2>9, Zenon
  <1> QED
    BY <1>1, DefaultReportHolds, PTL

\* At most one retry, of a first and transient failure of executing; whatever
\* fails after it, or without it, is the last failure of the run.
THEOREM RetriesAreBoundedHolds == Spec => []RetriesAreBounded
  <1>1. OrchInv => RetriesAreBounded
    <2> DEFINE Entry(i) ==
                 /\ attempts[i].willRetry =>
                      /\ i = 1 /\ attempts[i].phase = "executing"
                      /\ attempts[i].category = "transient"
                 /\ ~attempts[i].willRetry => i = Len(attempts) /\ sysState = "failed"
                 /\ attempts[i].number =
                      IF i = 2 /\ attempts[i].phase = "executing" THEN 2 ELSE 1
    <2> SUFFICES ASSUME OrchInv
                 PROVE  /\ Len(attempts) <= 2
                        /\ pc = "operation" =>
                              /\ attempt <= 2
                              /\ attempt = 2 => Len(attempts) = 1 /\ attempts[1].willRetry
                        /\ \A i \in 1..Len(attempts) : Entry(i)
      BY Zenon DEF RetriesAreBounded
    <2>1. ASSUME pc = "operation"
          PROVE  /\ attempt <= 2
                 /\ attempt = 2 => Len(attempts) = 1 /\ attempts[1].willRetry
      <3>1. sysState # "failed"
        BY <2>1, AtOperation
      <3>2. attempt = 1 \/ (attempt = 2 /\ attempts = <<Retried>>)
        BY <2>1, <3>1 DEF OrchInv, AttemptsShape
      <3> QED
        BY <3>2 DEF Retried
    <2>2. CASE attempts \in {<<>>, <<Retried>>}
      <3>1. Len(attempts) <= 2
        <4>1. CASE attempts = <<>>
          BY <4>1
        <4>2. CASE attempts = <<Retried>>
          BY <4>2
        <4> QED
          BY <2>2, <4>1, <4>2
      <3>2. ASSUME NEW i \in 1..Len(attempts)
            PROVE  Entry(i)
        <4>1. i = 1 /\ attempts[1] = Retried
          BY <2>2, <3>2
        <4> QED
          BY <4>1 DEF Retried
      <3> QED
        BY <2>1, <3>1, <3>2
    <2>3. CASE /\ sysState = "failed" /\ phase <= 5
               /\ \E b \in {<<>>, <<Retried>>}, n \in {1, 2}, c \in Categories :
                    /\ attempts = Append(b, [phase |-> Phases[phase], number |-> n,
                                             category |-> c, willRetry |-> FALSE])
                    /\ n = 2 <=> phase = 2 /\ b = <<Retried>>
      <3>1. PICK b \in {<<>>, <<Retried>>}, n \in {1, 2}, c \in Categories :
                    /\ attempts = Append(b, [phase |-> Phases[phase], number |-> n,
                                             category |-> c, willRetry |-> FALSE])
                    /\ n = 2 <=> phase = 2 /\ b = <<Retried>>
        BY <2>3
      <3> DEFINE F == [phase |-> Phases[phase], number |-> n, category |-> c,
                       willRetry |-> FALSE]
      <3>2. F.willRetry = FALSE /\ F.number = n /\ F.phase = Phases[phase]
        OBVIOUS
      <3>3. Phases[phase] = "executing" <=> phase = 2
        <4>1. phase \in 1..5
          BY <2>3, StateByPosition
        <4>2. phase = 1 \/ phase = 2 \/ phase = 3 \/ phase = 4 \/ phase = 5
          BY <4>1
        <4> QED
          BY <4>2, PhaseFacts
      <3> HIDE DEF F
      <3>4. CASE b = <<>>
        <4>1. Len(attempts) = 1 /\ attempts[1] = F /\ n = 1
          BY <3>1, <3>4 DEF F
        <4>2. ASSUME NEW i \in 1..Len(attempts)
              PROVE  Entry(i)
          <5>1. i = 1
            BY <4>1
          <5> QED
            BY <2>3, <3>2, <4>1, <5>1
        <4> QED
          BY <2>1, <4>1, <4>2
      <3>5. CASE b = <<Retried>>
        <4>1. Len(attempts) = 2 /\ attempts[1] = Retried /\ attempts[2] = F
          BY <3>1, <3>5 DEF F
        <4>2. /\ Retried.willRetry = TRUE /\ Retried.number = 1
              /\ Retried.phase = "executing" /\ Retried.category = "transient"
          BY DEF Retried
        <4>3. n = IF phase = 2 THEN 2 ELSE 1
          BY <3>1, <3>5
        <4>4. ASSUME NEW i \in 1..Len(attempts)
              PROVE  Entry(i)
          <5>1. CASE i = 1
            BY <4>1, <4>2, <5>1
          <5>2. CASE i = 2
            BY <2>3, <3>2, <3>3, <4>1, <4>3, <5>2
          <5> QED
            BY <4>1, <5>1, <5>2
        <4> QED
          BY <2>1, <4>1, <4>4
      <3> QED
        BY <3>4, <3>5
    <2> QED
      BY <2>2, <2>3 DEF OrchInv, AttemptsShape
  <1> QED
    BY <1>1, OrchInvHolds, PTL

\* How many traces there are, and what the last one says.
LEMMA TracesByPosition ==
    ASSUME OrchInv
    PROVE  /\ Underway => /\ Len(traces) = phase - 1
                          /\ \A i \in 1..Len(traces) : traces[i].status = "completed"
           /\ NoneReturned => /\ Len(traces) = phase
                              /\ \A i \in 1..Len(traces) : traces[i].status = "completed"
           /\ PhaseFailed =>
                /\ Len(traces) = phase
                /\ traces[phase] = [phase |-> Phases[phase], status |-> "failed"]
                /\ \A i \in 1..(phase - 1) : traces[i].status = "completed"
           /\ Finished => /\ Len(traces) = 5
                          /\ \A i \in 1..Len(traces) : traces[i].status = "completed"
  <1>1. phase \in 1..6
    BY StateByPosition
  <1>2. \A k \in 0..5 : /\ Completed[k] \in Seq([phase : States, status : Terminal])
                        /\ Len(Completed[k]) = k
                        /\ \A i \in 1..k : Completed[k][i].status = "completed"
    <2> TAKE k \in 0..5
    <2>1. /\ Completed[k] \in Seq([phase : States, status : Terminal])
          /\ Len(Completed[k]) = k
          /\ \A i \in 1..k : Completed[k][i] = [phase |-> Phases[i], status |-> "completed"]
      BY TracesOf
    <2>2. ASSUME NEW i \in 1..k
          PROVE  Completed[k][i].status = "completed"
      <3>1. Completed[k][i] = [phase |-> Phases[i], status |-> "completed"]
        BY <2>1
      <3> QED
        BY <3>1
    <2> QED
      BY <2>1, <2>2
  <1>3. CASE Underway
    <2>1. traces = Completed[phase - 1] /\ pc # "returned"
      BY <1>3 DEF Underway
    <2>2. phase - 1 \in 0..5
      BY <1>1
    <2>3. ~NoneReturned /\ ~PhaseFailed /\ ~Finished
      BY <2>1 DEF NoneReturned, PhaseFailed, Finished
    <2> QED
      BY <1>2, <2>1, <2>2, <2>3
  <1>4. CASE NoneReturned
    <2>1. traces = Completed[phase] /\ phase \in 0..5
      BY <1>4 DEF NoneReturned
    <2>2. ~Underway /\ ~PhaseFailed /\ ~Finished
      <3>1. phase \in 1..2 /\ pc = "returned" /\ sysState = Phases[phase]
        BY <1>4 DEF NoneReturned, Reached
      <3>2. sysState # "failed"
        BY <3>1, PhaseFacts
      <3> QED
        BY <3>1, <3>2 DEF Underway, PhaseFailed, Finished
    <2> QED
      BY <1>2, <2>1, <2>2
  <1>5. CASE PhaseFailed
    <2> DEFINE f == [phase |-> Phases[phase], status |-> "failed"]
    <2>1. /\ traces = Append(Completed[phase - 1], f) /\ phase \in 1..5
          /\ pc = "returned" /\ sysState = "failed"
      BY <1>5 DEF PhaseFailed
    <2>2. ~Underway /\ ~NoneReturned /\ ~Finished
      <3>1. NoneReturned => sysState = Phases[phase] /\ phase \in 1..2
        BY DEF NoneReturned, Reached
      <3>2. ~NoneReturned
        BY <2>1, <3>1, PhaseFacts
      <3> QED
        BY <2>1, <3>2 DEF Underway, Finished
    <2>3. f \in [phase : States, status : Terminal]
      BY <2>1, PhaseFacts DEF Terminal
    <2> HIDE DEF f
    <2>4. /\ Completed[phase - 1] \in Seq([phase : States, status : Terminal])
          /\ Len(Completed[phase - 1]) = phase - 1
          /\ \A i \in 1..(phase - 1) : Completed[phase - 1][i].status = "completed"
      <3>1. phase - 1 \in 0..5
        BY <2>1
      <3> QED
        BY <1>2, <3>1
    <2>5. /\ Len(traces) = phase /\ traces[phase] = f
          /\ \A i \in 1..(phase - 1) : traces[i] = Completed[phase - 1][i]
      BY <2>1, <2>3, <2>4, AppendProperties
    <2> QED
      BY <2>2, <2>4, <2>5 DEF f
  <1>6. CASE Finished
    <2>1. traces = Completed[5] /\ pc = "returned" /\ phase = 6
      BY <1>6 DEF Finished
    <2>2. ~NoneReturned /\ ~PhaseFailed /\ ~Underway
      BY <2>1 DEF NoneReturned, PhaseFailed, Underway
    <2>3. Len(traces) = 5 /\ \A i \in 1..5 : traces[i].status = "completed"
      BY <1>2, <2>1, 5 \in 0..5
    <2> QED
      BY <2>2, <2>3
  <1> QED
    BY <1>3, <1>4, <1>5, <1>6 DEF OrchInv, Position

\* The default engine's reports always pass validation.
THEOREM DefaultReportsValidateHolds == Spec => []DefaultReportsValidate
  <1>1. OrchInv => DefaultReportsValidate
    <2> SUFFICES ASSUME OrchInv, ~customEngines, NEW i \in 1..Len(traces),
                        traces[i].phase = "validating"
                 PROVE  traces[i].status = "completed"
      BY DEF DefaultReportsValidate
    <2>1. CASE Underway \/ NoneReturned \/ Finished
      BY <2>1, TracesByPosition
    <2>2. CASE PhaseFailed
      <3>1. /\ Len(traces) = phase /\ phase \in 1..5 /\ sysState = "failed"
            /\ traces[phase] = [phase |-> Phases[phase], status |-> "failed"]
            /\ \A j \in 1..(phase - 1) : traces[j].status = "completed"
        BY <2>2, TracesByPosition DEF PhaseFailed
      <3>2. phase # 3
        BY <3>1 DEF OrchInv, ReportShape
      <3>3. Phases[phase] # "validating"
        BY <3>1, <3>2, PhaseFacts
      <3>4. i # phase
        BY <3>1, <3>3
      <3> QED
        BY <3>1, <3>4
    <2> QED
      BY <2>1, <2>2 DEF OrchInv, Position
  <1> QED
    BY <1>1, OrchInvHolds, PTL

\* Every way a run ends is explained by its traces, and none is a crash.
THEOREM EveryEndIsExplainedHolds == Spec => []EveryEndIsExplained
  <1>1. OrchInv => EveryEndIsExplained
    <2> SUFFICES ASSUME OrchInv
                 PROVE  EveryEndIsExplained
      OBVIOUS
    <2> DEFINE n == Len(traces)
               failedAt == n > 0 /\ traces[n].status = "failed"
    <2>1. pc # "crashed"
      BY DEF OrchInv, Position, Underway, NoneReturned, PhaseFailed, Finished
    <2>2. ASSUME sysState = "failed"
          PROVE  IF failedAt
                 THEN transitions = SubSeq(Phases, 1, n) \o <<"failed">> /\ error # ""
                 ELSE /\ transitions = Phases \o <<"failed">> /\ n = 5
                      /\ execReport.status = "failed"
      <3>1. CASE PhaseFailed
        <4>1. /\ n = phase /\ phase \in 1..5 /\ traces[phase].status = "failed"
              /\ transitions = SubSeq(Phases, 1, phase) \o <<"failed">>
          BY <3>1, TracesByPosition DEF PhaseFailed
        <4>2. error # ""
          BY <3>1, Zenon DEF PhaseFailed
        <4>3. failedAt /\ transitions = SubSeq(Phases, 1, n) \o <<"failed">>
          BY <4>1
        <4> QED
          BY <4>2, <4>3, Zenon
      <3>2. CASE Finished
        <4>1. /\ n = 5 /\ \A i \in 1..n : traces[i].status = "completed"
              /\ transitions = Phases \o <<"failed">> /\ execReport.status = "failed"
          BY <2>2, <3>2, TracesByPosition DEF Finished
        <4>2. ~failedAt
          BY <4>1
        <4> QED
          BY <4>1, <4>2, Zenon
      <3> QED
        BY <2>2, <3>1, <3>2, StateByPosition
    <2>3. ASSUME pc = "returned", sysState \notin Terminal
          PROVE  /\ customEngines /\ n \in 1..2 /\ ~failedAt /\ sysState = Phases[n]
                 /\ execReport = NoReport /\ error = "orchestration_failed"
      <3>1. NoneReturned
        <4>1. ~Underway /\ ~PhaseFailed
          BY <2>3 DEF Underway, PhaseFailed, Terminal
        <4>2. ~Finished
          BY <2>3 DEF Finished, Terminal
        <4> QED
          BY <4>1, <4>2 DEF OrchInv, Position
      <3>2. /\ customEngines /\ phase \in 1..2 /\ sysState = Phases[phase]
            /\ error = "orchestration_failed" /\ n = phase
            /\ \A i \in 1..n : traces[i].status = "completed"
        BY <3>1, TracesByPosition DEF NoneReturned, Reached
      <3>3. execReport = NoReport
        BY <3>2 DEF OrchInv, ReportShape
      <3> QED
        BY <3>2, <3>3
    <2> QED
      BY <2>1, <2>2, <2>3, Zenon DEF EveryEndIsExplained
  <1> QED
    BY <1>1, OrchInvHolds, PTL

\* Memory tells the truth about the run, whatever its report.
THEOREM MemoryMatchesReportHolds == Spec => []MemoryMatchesReport
  <1>1. OrchInv => MemoryMatchesReport
    <2> SUFFICES ASSUME OrchInv
                 PROVE  MemoryMatchesReport
      OBVIOUS
    <2> DEFINE records == ReflectionRecords(execReport)
               written == IF Len(stored) < Len(records) THEN Len(stored) ELSE Len(records)
    <2>1. phase \in 1..6 /\ stored \in Seq(MemRecord) /\ saved \in Seq(MemRecord)
      BY StateByPosition DEF OrchInv, MemoryShape
    <2>2. phase > 2 => records \in Seq(MemRecord) /\ Len(records) >= 2
      BY ReflectionFacts DEF OrchInv, ReportShape
    <2>3. CASE phase <= 3
      <3>1. stored = <<>> /\ listed = <<>>
        BY <2>1, <2>3 DEF OrchInv, MemoryShape
      <3>2. SubSeq(stored, 1, 0) = <<>> /\ SubSeq(records, 1, 0) = <<>> /\ Len(stored) = 0
        BY <3>1, SubSeqEmpty, EmptySeq
      <3>3. execReport # NoReport => written = 0
        BY <2>1, <2>2, <2>3, <3>2 DEF OrchInv, ReportShape
      <3>4. sysState \notin {"improving", "completed"}
        <4>1. CASE Underway
          BY <2>3, <4>1, PhaseFacts DEF Underway, Reached
        <4>2. CASE NoneReturned
          BY <4>2, PhaseFacts DEF NoneReturned, Reached
        <4> QED
          BY <2>3, <4>1, <4>2 DEF OrchInv, Position, PhaseFailed, Finished
      <3> QED
        BY <3>1, <3>2, <3>3, <3>4 DEF MemoryMatchesReport
    <2>4. CASE phase > 3
      <3>1. AcceptedReport(execReport) /\ records \in Seq(MemRecord) /\ Len(records) >= 2
        BY <2>1, <2>2, <2>4 DEF OrchInv, ReportShape
      <3> HIDE DEF records
      <3>2. CASE phase = 4
        <4>1. /\ listed = stored /\ Len(stored) <= Len(records)
              /\ stored = SubSeq(records, 1, Len(stored))
          BY <3>2 DEF OrchInv, MemoryShape, records
        <4>2. SubSeq(stored, 1, Len(stored)) = stored
          BY <2>1, SubSeqFull
        <4>3. sysState \notin {"improving", "completed"}
          <5>1. CASE Underway
            BY <3>2, <5>1, PhaseFacts DEF Underway, Reached
          <5> QED
            BY <3>2, <5>1 DEF OrchInv, Position, NoneReturned, PhaseFailed, Finished
        <4>4. written = Len(stored)
          BY <2>1, <3>1, <4>1
        <4> QED
          BY <3>1, <4>1, <4>2, <4>3, <4>4 DEF MemoryMatchesReport, records
      <3>3. CASE phase > 4
        <4>1. stored = records \o saved /\ (listed = records \/ listed = stored)
          BY <2>1, <3>3 DEF OrchInv, MemoryShape, records
        <4>2. /\ Len(records) \in 1..Len(stored)
              /\ SubSeq(stored, 1, Len(records)) = records
          <5>1. Len(stored) = Len(records) + Len(saved) /\ Len(saved) \in Nat
            BY <2>1, <3>1, <4>1, ConcatProperties
          <5>2. 1 \in 1..Len(records) /\ Len(records) \in 1..Len(records)
            BY <3>1
          <5>3. SubSeq(stored, 1, Len(records)) = SubSeq(records, 1, Len(records))
            BY <2>1, <3>1, <4>1, <5>2, SubSeqOfConcat1
          <5> QED
            BY <3>1, <5>1, <5>2, <5>3, SubSeqFull
        <4>3. SubSeq(stored, 1, Len(stored)) = stored /\ SubSeq(records, 1, Len(records)) = records
          BY <2>1, <3>1, SubSeqFull
        <4>4. written = Len(records)
          BY <3>1, <4>2
        <4>5. listed = SubSeq(stored, 1, Len(listed))
          BY <4>1, <4>2, <4>3
        <4> QED
          BY <3>1, <4>2, <4>3, <4>4, <4>5 DEF MemoryMatchesReport, records
      <3> QED
        BY <2>1, <2>4, <3>2, <3>3
    <2> QED
      BY <2>1, <2>3, <2>4
  <1> QED
    BY <1>1, OrchInvHolds, PTL

\* The orchestrator drives run_plan and never reaches into it: what a run does
\* to the tasks is a behaviour of module TaskRunner, so all that is proved of
\* that module holds inside the executing phase.
THEOREM OrchestratorRunsTheRunner == Spec => RunnerInit /\ [][RunnerNext]_runnerVars
  <1>1. Init => RunnerInit
    BY DEF Init
  <1>2. [Next]_vars => [RunnerNext]_runnerVars
    <2> SUFFICES ASSUME [Next]_vars
                 PROVE  RunnerNext \/ UNCHANGED runnerVars
      BY DEF RunnerNext
    <2>1. CASE RunPlanStep
      BY <2>1 DEF RunPlanStep, RunnerNext
    <2>2. CASE EnterPhase \/ Plan \/ CustomEngine \/ Validate \/ Finish
      BY <2>2 DEF EnterPhase, Plan, CustomEngine, Validate, Finish
    <2>3. CASE RunPlanReturns \/ RunPlanRaises \/ RunPlanInterrupted
      BY <2>3 DEF RunPlanReturns, RunPlanRaises, RunPlanInterrupted
    <2>4. CASE ReflectWrite \/ ReflectFails \/ ReflectReturns
      BY <2>4 DEF ReflectWrite, ReflectFails, ReflectReturns
    <2>5. CASE ImprovementRunner \/ StoreImprovement \/ ImproveFails \/ ImproveReturns
      BY <2>5 DEF ImprovementRunner, StoreImprovement, ImproveFails, ImproveReturns
    <2>6. CASE UNCHANGED vars
      BY <2>6 DEF vars
    <2> QED
      BY <2>1, <2>2, <2>3, <2>4, <2>5, <2>6 DEF Next, Step, Done
  <1> QED
    BY <1>1, <1>2, PTL DEF Spec
=============================================================================
