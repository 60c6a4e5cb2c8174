------------------------- MODULE ImprovementEngine -------------------------
(***************************************************************************)
(* ImprovementEngine.run (app/improvement/engine.py), called by            *)
(* LoopController._run_self_improvement, on a memory that others write at  *)
(* the same time.  Every access to the memory is a step of its own; one    *)
(* that raises is swallowed, and the engine goes on with a default.        *)
(*                                                                         *)
(* The memory is a MemoryStore ("store"), whose decision stream holds the  *)
(* events and whose execution stream is the history, or the FileMemoryStore*)
(* that build_default_loop_controller gives ("file").  That one has        *)
(* neither read_all nor append: events are saved into the execution        *)
(* stream, and retrieve("*") finds only records whose goal is "*".         *)
(***************************************************************************)
EXTENDS Integers, Sequences, FiniteSets, FiniteSetsExt

CONSTANTS
    Engines,        \* threads that run an engine over the one memory
    Services,       \* threads that call MemoryService on the same stream
    Observed,       \* the execution records others may write
    UnsafeSteps,    \* step ids that contain a forbidden token
    CooldownCycles, \* COOLDOWN_CYCLES
    Bounds          \* how far a behaviour goes: how many calls of run, how many at
                    \* once, how many execution records of others, records of
                    \* MemoryService, and memory accesses that raise

\* An execution record as the engine reads it.  latency is in tenths of a
\* second, 0 where there is none; a record of MemoryService has no status it knows.
ASSUME EngineAssumption ==
    /\ \A x \in Observed :
          /\ x.status \in {"success", "failure", "unknown"} /\ x.retry \in BOOLEAN
          /\ x.latency \in Nat
    /\ IsFiniteSet(Observed)
    /\ Services \cap {"applied", "rejected", "cooldown", "record", "loop"} = {}
    /\ CooldownCycles \in Nat
    /\ Bounds \subseteq [runs : Nat, atOnce : Nat, observed : Nat, serviced : Nat, faults : Nat]

VARIABLES
    bound,          \* the bounds of this behaviour
    protocol,       \* the kind of memory
    history,        \* how many records of each kind the execution stream holds
    log,            \* the stream the engine's events go to
    run,            \* the local variables of the run of each engine
    runs,           \* calls of run so far
    service,        \* of each caller of MemoryService: has it read, and is to save
    handed,         \* what the applier was given, by which run
    faults

vars == <<bound, protocol, history, log, run, runs, service, handed, faults>>

NoHistory == [x \in Observed |-> 0]

\* from is the length of the log at the cooldown check; grew, unread and lost say
\* whether the history changed under the run, and whether a read or a write of it
\* raised.  They serve the properties only.
Idle == [pc |-> "idle", id |-> 0, blocked |-> FALSE, before |-> NoHistory,
         approved |-> {}, left |-> <<>>, impact |-> 0, accepted |-> FALSE,
         rollbackVersion |-> 0, version |-> 0,
         from |-> 0, grew |-> FALSE, unread |-> FALSE, lost |-> FALSE]

\* In the file protocol the engine finds no history, whatever there is.
Init ==
    /\ bound \in Bounds
    /\ protocol \in {"store", "file"}
    /\ \/ history = NoHistory
       \/ /\ protocol = "store"
          /\ \E x \in Observed : history = [NoHistory EXCEPT ![x] = 1]
    /\ log = <<>> /\ handed = {} /\ runs = 0 /\ faults = 0
    /\ run = [e \in Engines |-> Idle] /\ service = [s \in Services |-> "idle"]

-----------------------------------------------------------------------------
(***************************************************************************)
(* What a run makes of a history.                                          *)
(***************************************************************************)
\* The records of the kinds in S, one by one, and how many they are.
RecordsIn(h, S) == UNION {{x} \X (1..h[x]) : x \in S}

Number(h, S) == Cardinality(RecordsIn(h, S))

Total(h) == Number(h, Observed)

With(status) == {x \in Observed : x.status = status}

Timed == {x \in Observed : x.latency > 0}

\* The latencies of the records of the kinds in S, added up tenth by tenth.
Tenths(h, S) == UNION {({x} \X (1..h[x])) \X (1..x.latency) : x \in S}

Latency(h, S) == Cardinality(Tenths(h, S))

\* round(n / d)
Rounded(n, d) == (2 * n + d) \div (2 * d)

\* _compute_metrics: what is not a success counts as a failure.  Rates are in
\* ten-thousandths; the average latency is kept as a sum and a count.
Metrics(h) ==
    LET rate(n) == IF Total(h) = 0 THEN 0 ELSE Rounded(10000 * n, Total(h))
        good == Number(h, With("success"))
    IN  [success |-> rate(good), failure |-> rate(Total(h) - good),
         latency |-> Latency(h, Timed), timed |-> Number(h, Timed)]

\* _compute_impact_score, in ten-thousandths: 0.6 for the success rate, 0.3 for the
\* failure rate and 0.1 for the latency, which is 0 after a read that gave nothing.
Impact(b, a) ==
    LET rates == 6 * (a.success - b.success) + 3 * (b.failure - a.failure)
        d == b.latency * a.timed
        score == IF b.latency = 0 THEN Rounded(rates, 10)
                 ELSE IF d = 0 THEN Rounded(rates + 10000, 10)
                 ELSE Rounded(rates * d + 10000 * (d - a.latency * b.timed), 10 * d)
    IN  Max({Min({score, 10000}), -10000})

Misuses == {"policy_violation", "invalid_operation", "tool_misuse"}

At(S, s) == {x \in S : x.step = s}

\* That many percent of all records, and at least one.
Often(h, S, percent) == Number(h, S) > 0 /\ 100 * Number(h, S) >= percent * Total(h)

\* A second or more on the average.
Slow(h, S) == Number(h, S) > 0 /\ Latency(h, S) >= 10 * Number(h, S)

\* ExecutionAnalyzer.analyze and PatternDetector.detect: a pattern is a type and
\* the step or the error it is about.
Patterns(h) ==
    LET steps == {x.step : x \in Observed}
        retried == {x \in Observed : x.retry}
        misused(err) == {x \in Observed : x.error = err}
    IN     {<<"repeated_failure", s>> : s \in {s \in steps : Often(h, At(With("failure"), s), 25)}}
      \cup {<<"redundant_retries", s>> : s \in {s \in steps : Often(h, At(retried, s), 30)}}
      \cup {<<"tool_misuse", err>> : err \in {err \in Misuses : Often(h, misused(err), 0)}}
      \cup {<<"inefficient_plan", s>> : s \in {s \in steps : Slow(h, At(Timed, s))}}

\* Optimizer.generate makes one action of every pattern, with a target and a
\* change that ImprovementValidator allows; the reason names the place, and is
\* refused when that holds a forbidden token.
Actions(h) == Patterns(h)

Approved(h) == {a \in Actions(h) : a[2] \notin UnsafeSteps}

Rejected(h) == Actions(h) \ Approved(h)

\* actions_to_apply
Applied(r) == IF r.blocked THEN {} ELSE r.approved

RolledBack(r) == r.impact < 0 /\ Applied(r) # {}

-----------------------------------------------------------------------------
(***************************************************************************)
(* What a run reads of the decision stream.                                *)
(***************************************************************************)
Entry(event, r) == [event |-> event, id |-> r.id, of |-> r]

Recorded == {i \in 1..Len(log) : log[i].event = "record"}

AcceptedAt == {i \in Recorded : log[i].of.accepted}

OnCooldown_OffByOne ==
    AcceptedAt # {} /\ Len(log) - Max(AcceptedAt) + 1 < CooldownCycles

\* _is_on_cooldown counts the records behind the last accepted one, of any kind.
OnCooldown == AcceptedAt # {} /\ Len(log) - Max(AcceptedAt) < CooldownCycles

\* _should_accept_improvement_with_memory, behind its first condition
Acceptable(impact) == AcceptedAt # {} => impact > log[Max(AcceptedAt)].of.impact

\* _next_improvement_version
NextVersion_Accepted ==
    IF AcceptedAt = {} THEN 1 ELSE Max({log[i].of.version : i \in AcceptedAt}) + 1

NextVersion == IF Recorded = {} THEN 1 ELSE Max({log[i].of.version : i \in Recorded}) + 1

\* A read of the stream gives what holds there or, when it raises or the memory
\* has no read_all, the default.
MayRaise(raised) ==
    /\ raised \in BOOLEAN
    /\ raised => faults < bound.faults
    /\ faults' = IF raised THEN faults + 1 ELSE faults

ReadOr(default, value, raised) == IF raised \/ protocol = "file" THEN default ELSE value

Active == {e \in Engines : run[e].pc # "idle"}

Advance(e, changes) == run' = [run EXCEPT ![e] = changes]

-----------------------------------------------------------------------------
(***************************************************************************)
(* ImprovementEngine.run.                                                  *)
(***************************************************************************)
CheckCooldown(e) ==
    /\ run[e].pc = "idle" /\ runs < bound.runs /\ Cardinality(Active) < bound.atOnce
    /\ runs' = runs + 1
    /\ \E raised \in BOOLEAN :
          /\ MayRaise(raised)
          /\ Advance(e, [Idle EXCEPT !.pc = "history", !.id = runs + 1, !.from = Len(log),
                                     !.blocked = ReadOr(FALSE, OnCooldown, raised),
                                     !.unread = raised])
    /\ UNCHANGED <<bound, protocol, history, log, service, handed>>

\* The history, and everything that is computed from it: the actions and the
\* events the run will write.
ReadBefore(e) ==
    /\ run[e].pc = "history"
    /\ \E raised \in BOOLEAN :
          /\ MayRaise(raised)
          /\ LET h == ReadOr(NoHistory, history, raised)
                 applied == IF run[e].blocked THEN {} ELSE Approved(h)
             IN  Advance(e, [run[e] EXCEPT !.pc = "events", !.before = h,
                     !.approved = Approved(h), !.unread = @ \/ raised,
                     !.left = [i \in 1..Cardinality(applied) |-> "applied"]
                              \o [i \in 1..Cardinality(Rejected(h)) |-> "rejected"]
                              \o IF run[e].blocked THEN <<"cooldown">> ELSE <<>>])
    /\ UNCHANGED <<bound, protocol, history, log, runs, service, handed>>

\* _write_memory_event: an event that cannot be written is forgotten.
Writes(e, entry, changes) ==
    \E raised \in BOOLEAN :
       /\ MayRaise(raised)
       /\ log' = IF raised THEN log ELSE Append(log, entry)
       /\ Advance(e, [changes EXCEPT !.lost = @ \/ raised])

WriteEvent(e) ==
    /\ run[e].pc = "events" /\ run[e].left # <<>>
    /\ Writes(e, Entry(Head(run[e].left), [Idle EXCEPT !.id = run[e].id]),
              [run[e] EXCEPT !.left = Tail(@)])
    /\ UNCHANGED <<bound, protocol, history, runs, service, handed>>

\* The history again, and the impact.  Only one of 0.05 is looked at further.
ReadAfter(e) ==
    /\ run[e].pc = "events" /\ run[e].left = <<>>
    /\ \E raised \in BOOLEAN :
          /\ MayRaise(raised)
          /\ LET h == ReadOr(NoHistory, history, raised)
                 impact == Impact(Metrics(run[e].before), Metrics(h))
             IN  Advance(e, [run[e] EXCEPT !.before = NoHistory, !.impact = impact,
                                           !.pc = IF impact >= 500 THEN "gate" ELSE "rollback",
                                           !.unread = @ \/ raised])
    /\ UNCHANGED <<bound, protocol, history, log, runs, service, handed>>

Gate_IgnoresActions(e) ==
    /\ run[e].pc = "gate"
    /\ \E raised \in BOOLEAN :
          /\ MayRaise(raised)
          /\ Advance(e, [run[e] EXCEPT !.pc = "rollback", !.unread = @ \/ raised,
                            !.accepted = ReadOr(TRUE, Acceptable(run[e].impact), raised)])
    /\ UNCHANGED <<bound, protocol, history, log, runs, service, handed>>

\* The trend, which holds by default, and whether there was anything to apply.
Gate(e) ==
    /\ run[e].pc = "gate"
    /\ \E raised \in BOOLEAN :
          /\ MayRaise(raised)
          /\ Advance(e, [run[e] EXCEPT !.pc = "rollback", !.unread = @ \/ raised,
                            !.accepted = /\ Applied(run[e]) # {}
                                         /\ ReadOr(TRUE, Acceptable(run[e].impact), raised)])
    /\ UNCHANGED <<bound, protocol, history, log, runs, service, handed>>

\* The version is read twice, for the rollback actions and for the record.
ReadRollbackVersion(e) ==
    /\ run[e].pc = "rollback"
    /\ \E raised \in BOOLEAN :
          /\ MayRaise(raised)
          /\ Advance(e, [run[e] EXCEPT !.pc = "version", !.unread = @ \/ raised,
                            !.rollbackVersion = ReadOr(1, NextVersion, raised)])
    /\ UNCHANGED <<bound, protocol, history, log, runs, service, handed>>

ReadVersion(e) ==
    /\ run[e].pc = "version"
    /\ \E raised \in BOOLEAN :
          /\ MayRaise(raised)
          /\ Advance(e, [run[e] EXCEPT !.pc = "record", !.unread = @ \/ raised,
                            !.version = ReadOr(1, NextVersion, raised)])
    /\ UNCHANGED <<bound, protocol, history, log, runs, service, handed>>

\* A rollback restores nothing; it is logged and named in the record.
WriteRecord(e) ==
    /\ run[e].pc = "record"
    /\ Writes(e, Entry("record", run[e]), [run[e] EXCEPT !.pc = "apply"])
    /\ UNCHANGED <<bound, protocol, history, runs, service, handed>>

Apply_Validated(e) ==
    /\ run[e].pc = "apply"
    /\ \/ handed' = handed \cup {[of |-> run[e], actions |-> run[e].approved]}
       \/ UNCHANGED handed
    /\ Advance(e, Idle)
    /\ UNCHANGED <<bound, protocol, history, log, runs, service, faults>>

\* LoopController._run_self_improvement hands what the run returned to the applier,
\* if there is one; what that raises is swallowed.
Apply(e) ==
    /\ run[e].pc = "apply"
    /\ \/ handed' = handed \cup {[of |-> run[e], actions |-> Applied(run[e])]}
       \/ UNCHANGED handed
    /\ Advance(e, Idle)
    /\ UNCHANGED <<bound, protocol, history, log, runs, service, faults>>

-----------------------------------------------------------------------------
(***************************************************************************)
(* The others that use the memory.                                         *)
(***************************************************************************)
Loops == {i \in 1..Len(log) : log[i].event = "loop"}

\* A controller saves the record of an iteration.  FileMemoryStore saves it without
\* a type, into the stream that holds the engine's events too.
Observe ==
    /\ Total(history) + Cardinality(Loops) < bound.observed
    /\ IF protocol = "file"
       THEN log' = Append(log, Entry("loop", Idle)) /\ UNCHANGED <<history, run>>
       ELSE /\ \E x \in Observed : history' = [history EXCEPT ![x] = @ + 1]
            /\ run' = [e \in Engines |->
                          IF run[e].pc = "events" THEN [run[e] EXCEPT !.grew = TRUE] ELSE run[e]]
            /\ UNCHANGED log
    /\ UNCHANGED <<bound, protocol, runs, service, handed, faults>>

\* A record that MemoryService saves is marked with its caller.
Untyped == {i \in 1..Len(log) : log[i].event \notin Services}

Serviced == 1..Len(log) \ Untyped

\* _next_id of MemoryService reads the whole stream, and raises at the first
\* record that has no type.  The call ends there.
ServiceReads(s) ==
    /\ service[s] = "idle" /\ Cardinality(Serviced) < bound.serviced
    /\ Untyped = {}
    /\ service' = [service EXCEPT ![s] = "save"]
    /\ UNCHANGED <<bound, protocol, history, log, run, runs, handed, faults>>

ServiceSaves_ReadOnce(s) ==
    /\ service[s] = "save" /\ Cardinality(Serviced) < bound.serviced
    /\ log' = Append(log, Entry(s, Idle))
    /\ UNCHANGED <<bound, protocol, history, run, runs, service, handed, faults>>

\* The save, or an exception of the store.
ServiceSaves(s) ==
    /\ service[s] = "save"
    /\ \E raised \in BOOLEAN :
          /\ MayRaise(raised)
          /\ log' = IF raised THEN log ELSE Append(log, Entry(s, Idle))
    /\ service' = [service EXCEPT ![s] = "idle"]
    /\ UNCHANGED <<bound, protocol, history, run, runs, handed>>

\* No run is left to start.
Rest ==
    /\ runs = bound.runs /\ Active = {}
    /\ UNCHANGED vars

EngineStep(e) ==
    \/ CheckCooldown(e) \/ ReadBefore(e) \/ WriteEvent(e) \/ ReadAfter(e) \/ Gate(e)
    \/ ReadRollbackVersion(e) \/ ReadVersion(e) \/ WriteRecord(e) \/ Apply(e)

ServiceStep(s) == ServiceReads(s) \/ ServiceSaves(s)

Next ==
    \/ \E e \in Engines : EngineStep(e)
    \/ Observe
    \/ \E s \in Services : ServiceStep(s)
    \/ Rest

Spec == Init /\ [][Next]_vars

-----------------------------------------------------------------------------
(***************************************************************************)
(* Properties.                                                             *)
(***************************************************************************)
Records == {log[i].of : i \in Recorded}

\* What was handed over, and the run that did it, tell of the run; so does its
\* record.  They are the runs that got that far.
Runs == Records \cup {h.of : h \in handed}

\* No other run wrote between the cooldown check of the one recorded at i and its
\* record, and none of its reads raised.
Undisturbed(i) ==
    /\ ~log[i].of.unread
    /\ \A j \in (log[i].of.from + 1)..i : log[j].id \in {0, log[i].id}

\* An improvement counts as accepted, or is rolled back, only on account of actions
\* that were applied, and only when others wrote to the history while it ran or when a
\* read of it failed: the engine measures before and after within one call.  With
\* FileMemoryStore, which it cannot read, it never applies anything.
AcceptedIsEarned ==
    \A r \in Runs :
       /\ r.accepted \/ RolledBack(r) =>
             protocol = "store" /\ Applied(r) # {} /\ (r.grew \/ r.unread)
       /\ r.accepted => r.impact >= 500

\* Undisturbed runs number their records upwards, accept only what betters the
\* acceptance before, and name their own version in the rollback actions,
\* whatever the runs before them met with.
RunsBuildOnEachOther ==
    \A i, j \in Recorded :
       i < j /\ Undisturbed(j) /\ protocol = "store" =>
          /\ log[i].of.version < log[j].of.version
          /\ log[j].of.rollbackVersion = log[j].of.version
          /\ i \in AcceptedAt /\ j \in AcceptedAt
             /\ (\A k \in AcceptedAt : ~(i < k /\ k < j))
             => log[i].of.impact < log[j].of.impact

\* After an acceptance undisturbed runs apply nothing until CooldownCycles records
\* stand behind it, of whatever kind: that is what the code keeps.  What a blocked
\* run itself writes takes two off, so that, written in full, at most half of the
\* cycles, rounded up, block a run: less than what is said of them, see
\* CooldownLastsCycles.
CooldownIsKept ==
    /\ \A i \in AcceptedAt, j \in Recorded :
          i < j /\ Undisturbed(j) /\ Applied(log[j].of) # {}
          => log[j].of.from - i >= CooldownCycles
    /\ \A i \in AcceptedAt :
          LET blocked == {j \in Recorded : log[j].of.blocked /\ log[j].of.from >= i
                             /\ \A k \in AcceptedAt : k > i => log[j].of.from < k}
          IN  (\A j \in blocked : Undisturbed(j) /\ ~log[j].of.lost)
              => 2 * Cardinality(blocked) <= CooldownCycles + 1

\* "Cooldown: enforce minimum 3 improvement cycles between applications": that many
\* runs have written their record between an acceptance and the next run that
\* applies anything, when all of them are by themselves and read what they ask for.
CooldownLastsCycles ==
    \A i \in AcceptedAt, j \in Recorded :
       LET between == {k \in Recorded : i < k /\ k < j}
       IN  /\ i < j /\ Applied(log[j].of) # {}
           /\ \A k \in between \cup {j} : Undisturbed(k)
           => Cardinality(between) >= CooldownCycles

\* What the applier is given has been announced action by action, and its run has its
\* record, unless a write was lost: a run under cooldown hands over nothing.
HandedIsOnRecord ==
    \A h \in handed :
       LET announced == {i \in 1..Len(log) : log[i].id = h.of.id /\ log[i].event = "applied"}
       IN  /\ h.of.blocked \/ protocol = "file" => h.actions = {}
           /\ ~h.of.lost => /\ Cardinality(announced) = Cardinality(h.actions)
                            /\ \E r \in Records : r.id = h.of.id /\ Applied(r) = h.actions

\* Once an event of the engine, or a record of a controller, stands in a stream, no
\* call of MemoryService on it succeeds any more but those that have read it before:
\* of each caller the one that was under way.
ServiceIsLockedOut ==
    Untyped # {} =>
       \A s \in Services :
          Cardinality({i \in Serviced : i > Min(Untyped) /\ log[i].event = s}) <= 1
=============================================================================
