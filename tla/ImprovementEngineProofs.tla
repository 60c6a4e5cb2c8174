----------------------- MODULE ImprovementEngineProofs -----------------------
(***************************************************************************)
(* The safety properties of ImprovementEngine, proved for any number of    *)
(* engines, callers of MemoryService and runs, any kinds of execution      *)
(* records, any cooldown and any bounds.                                   *)
(*                                                                         *)
(* The inductive invariant says what a run under way has read and written  *)
(* so far, in terms of the log as it was when the run started: entries are *)
(* only ever appended, so what held of the first run.from of them still    *)
(* holds when the record is written and ever after.                        *)
(***************************************************************************)
EXTENDS ImprovementEngine, FiniteSetTheorems, SequenceTheorems, WellFoundedInduction, TLAPS

Kinds == {"repeated_failure", "redundant_retries", "tool_misuse", "inefficient_plan"}

AllPatterns == Kinds \X ({x.step : x \in Observed} \cup Misuses)

Histories == [Observed -> Nat]

Places == {"idle", "history", "events", "gate", "rollback", "version", "record", "apply"}

Announcements == {"applied", "rejected", "cooldown"}

\* What controllers and callers of MemoryService write.
Outside == {"loop"} \cup Services

Events == Announcements \cup {"record"} \cup Outside

RunStates ==
    [pc : Places, id : Nat, blocked : BOOLEAN, before : Histories,
     approved : SUBSET AllPatterns, left : Seq(Announcements), impact : Int,
     accepted : BOOLEAN, rollbackVersion : Nat, version : Nat,
     from : Nat, grew : BOOLEAN, unread : BOOLEAN, lost : BOOLEAN]

Entries == [event : Events, id : Nat, of : RunStates]

EngineTypeOK ==
    /\ bound \in Bounds /\ protocol \in {"store", "file"} /\ service \in [Services -> {"idle", "save"}]
    /\ history \in Histories /\ log \in Seq(Entries)
    /\ run \in [Engines -> RunStates] /\ runs \in Nat /\ faults \in Nat
    /\ handed \in SUBSET [of : RunStates, actions : SUBSET AllPatterns]

-----------------------------------------------------------------------------
(***************************************************************************)
(* What holds of the local variables r of an engine.                       *)
(***************************************************************************)
\* A run has an id, and no record before it has written it.
IdOK(r) ==
    /\ r.pc = "idle" => r = Idle
    /\ r.pc # "idle" => r.id \in 1..runs /\ r.from <= Len(log)
    /\ r.pc \notin {"idle", "apply"} => \A i \in Recorded : log[i].id # r.id

\* The announcements of a run that are written, and those that are not.
Announced(id) == {i \in 1..Len(log) : log[i].id = id /\ log[i].event = "applied"}

Unannounced(left) == {k \in 1..Len(left) : left[k] = "applied"}

OnRecord(r) ==
    \E i \in Recorded :
       log[i].of.id = r.id /\ log[i].of.blocked = r.blocked /\ log[i].of.approved = r.approved

\* A run announces what it applies, one by one, and then writes its record.
AnnounceOK(r) ==
    /\ r.pc # "events" => r.left = <<>>
    /\ r.pc = "history" => r.approved = {}
    /\ r.pc # "idle" /\ ~r.lost =>
          Cardinality(Announced(r.id)) + Cardinality(Unannounced(r.left)) = Cardinality(Applied(r))
    /\ r.pc = "apply" /\ ~r.lost => OnRecord(r)

\* A blocked run that loses nothing writes its cooldown before its record.
CooldownAt(r, c) == c > r.from /\ log[c].id = r.id /\ log[c].event = "cooldown"

BlockedOK(r) ==
    r.blocked /\ ~r.lost /\ r.pc \notin {"idle", "history"} =>
       \/ \E k \in 1..Len(r.left) : r.left[k] = "cooldown"
       \/ \E c \in 1..Len(log) : CooldownAt(r, c)

\* What a run makes of its two readings of the history.
Sound(r) ==
    /\ protocol = "file" => r.approved = {}
    /\ r.accepted => r.impact >= 500 /\ Applied(r) # {}
    /\ protocol = "store" /\ ~r.grew /\ ~r.unread => r.impact = 0

EarnedOK(r) ==
    /\ r.pc \in {"gate", "rollback", "version", "record", "apply"} => Sound(r)
    /\ r.pc = "gate" => r.impact >= 500
    /\ r.pc \in {"history", "events", "gate"} => ~r.accepted
    /\ r.pc = "events" =>
          /\ protocol = "file" => r.approved = {}
          /\ protocol = "store" /\ ~r.grew /\ ~r.unread => r.before = history

\* The last acceptance among the first n entries of the log.
LastAccepted(i, n) == i \in AcceptedAt /\ i <= n /\ \A k \in AcceptedAt : k <= n => k <= i

\* A run is blocked when it was soon after an acceptance, and only then.
CooldownRead(r) ==
    /\ r.blocked => \E i \in 1..Len(log) : LastAccepted(i, r.from) /\ r.from - i < CooldownCycles
    /\ ~r.blocked /\ ~r.unread /\ protocol = "store" =>
          \A k \in AcceptedAt : k <= r.from => r.from - k >= CooldownCycles

\* v is the next version after the first n entries of the log.
Numbered(v, n) ==
    /\ v >= 1
    /\ \A i \in Recorded : i <= n => log[i].of.version < v
    /\ v = 1 \/ \E i \in Recorded : i <= n /\ v = log[i].of.version + 1

Betters(r) ==
    \A i \in AcceptedAt : LastAccepted(i, r.from) => log[i].of.impact < r.impact

\* No other run has written since this one started, and none of its reads raised.
Alone(r) ==
    /\ ~r.unread
    /\ \A j \in 1..Len(log) : j > r.from => log[j].id \in {0, r.id}

BuildOK(r) ==
    /\ r.pc # "idle" => CooldownRead(r)
    /\ r.pc = "record" => r.version >= 1
    /\ protocol = "store" /\ Alone(r) /\ r.pc \notin {"idle", "apply"} =>
          /\ r.pc \in {"version", "record"} => Numbered(r.rollbackVersion, r.from)
          /\ r.pc = "record" => Numbered(r.version, r.from)
          /\ r.accepted => Betters(r)

RunOK(r) == IdOK(r) /\ AnnounceOK(r) /\ BlockedOK(r) /\ EarnedOK(r) /\ BuildOK(r)

-----------------------------------------------------------------------------
(***************************************************************************)
(* What holds of the log and of what was handed over.                      *)
(***************************************************************************)
EntryOK(i) ==
    /\ log[i].id <= runs
    /\ log[i].id = 0 <=> log[i].event \in Outside

RecordOK(j) ==
    LET r == log[j].of
    IN  /\ r.id = log[j].id /\ r.from < j /\ r.version >= 1
        /\ Sound(r) /\ CooldownRead(r)
        /\ r.blocked /\ ~r.lost => \E c \in 1..Len(log) : c < j /\ CooldownAt(r, c)
        /\ protocol = "store" /\ Undisturbed(j) =>
              /\ Numbered(r.rollbackVersion, r.from) /\ Numbered(r.version, r.from)
              /\ r.accepted => Betters(r)

HandedOK(h) ==
    /\ h.of.id \in 1..runs /\ h.actions = Applied(h.of) /\ Sound(h.of)
    /\ ~h.of.lost => Cardinality(Announced(h.of.id)) = Cardinality(h.actions) /\ OnRecord(h.of)

\* There is a last acceptance, and a highest version.
MaxInv ==
    /\ AcceptedAt # {} => \E i \in AcceptedAt : \A k \in AcceptedAt : k <= i
    /\ Recorded # {} =>
          \E i \in Recorded : \A k \in Recorded : log[k].of.version <= log[i].of.version

\* What a caller of MemoryService has saved behind the first record that has no type.
Late(u, s) == {i \in Serviced : i > u /\ log[i].event = s}

ServiceInv ==
    Untyped # {} =>
       \E u \in Untyped :
          /\ \A v \in Untyped : u <= v
          /\ \A s \in Services :
                /\ service[s] = "save" => Late(u, s) = {}
                /\ Late(u, s) = {} \/ \E i \in Late(u, s) : Late(u, s) = {i}

LogInv ==
    /\ \A i \in 1..Len(log) : EntryOK(i)
    /\ \A j \in Recorded : RecordOK(j)
    /\ \A i, j \in Recorded : log[i].id = log[j].id => i = j
    /\ MaxInv /\ ServiceInv

RunsInv ==
    /\ \A r \in {run[e] : e \in Engines} : RunOK(r)
    /\ \A e, f \in Engines :
          run[e].pc # "idle" /\ run[f].pc # "idle" /\ run[e].id = run[f].id => e = f

HandedInv ==
    \A h \in handed :
       /\ HandedOK(h)
       /\ \A e \in Engines : run[e].pc # "idle" => run[e].id # h.of.id

EngineInv == EngineTypeOK /\ RunsInv /\ LogInv /\ HandedInv

\* No event of the engine bears the name of a caller of MemoryService.
LEMMA OutsideEvents ==
    /\ "record" \notin Outside /\ "record" \notin Services /\ "loop" \notin Services
    /\ "loop" \in Outside /\ Services \subseteq Outside
    /\ \A h \in Announcements : h \notin Outside /\ h \notin Services
  BY EngineAssumption DEF Outside, Announcements

-----------------------------------------------------------------------------
(***************************************************************************)
(* What a run makes of a history.                                          *)
(***************************************************************************)
LEMMA ImageIsFinite ==
    ASSUME NEW S, IsFiniteSet(S), NEW T, NEW f \in [S -> T], \A y \in T : \E x \in S : y = f[x]
    PROVE  IsFiniteSet(T)
  <1>1. f \in Surjection(S, T)
    BY DEF Surjection
  <1> QED
    BY <1>1, FS_Surjection

\* Records are finitely many, and there are some where there is one of a kind.
LEMMA NumbersAreCounts ==
    ASSUME NEW h \in Histories, NEW S \in SUBSET Observed
    PROVE  /\ Number(h, S) \in Nat /\ Latency(h, S) \in Nat
           /\ (\E x \in S : h[x] > 0) => Number(h, S) # 0
           /\ (\A x \in S : h[x] = 0) => Number(h, S) = 0
           /\ Latency(h, S) # 0 => Number(h, S) # 0
  <1>1. IsFiniteSet(S)
    BY EngineAssumption, FS_Subset
  <1>2. \A x \in S : h[x] \in Nat /\ x.latency \in Nat
    BY EngineAssumption DEF Histories
  <1>3. IsFiniteSet(RecordsIn(h, S))
    <2> DEFINE T == {{x} \X (1..h[x]) : x \in S}
               f == [x \in S |-> {x} \X (1..h[x])]
    <2>1. f \in [S -> T] /\ \A y \in T : \E x \in S : y = f[x]
      OBVIOUS
    <2>2. IsFiniteSet(T)
      <3> HIDE DEF T, f
      <3> QED
        BY <1>1, <2>1, ImageIsFinite
    <2>3. \A x \in S : IsFiniteSet({x} \X (1..h[x]))
      <3> SUFFICES ASSUME NEW x \in S
                   PROVE  IsFiniteSet({x} \X (1..h[x]))
        OBVIOUS
      <3>1. IsFiniteSet({x}) /\ IsFiniteSet(1..h[x])
        <4>1. IsFiniteSet({x})
          BY FS_Singleton
        <4>2. 1 \in Int /\ h[x] \in Int /\ x.latency \in Int
          BY <1>2
        <4> QED
          BY <4>1, <4>2, FS_Interval
      <3> QED
        BY <3>1, FS_Product
    <2>4. \A y \in T : IsFiniteSet(y)
      BY <2>3
    <2> HIDE DEF T
    <2>5. IsFiniteSet(UNION T)
      BY <2>2, <2>4, FS_UNION
    <2> QED
      BY <2>5 DEF T, RecordsIn
  <1>4. IsFiniteSet(Tenths(h, S))
    <2> DEFINE T == {({x} \X (1..h[x])) \X (1..x.latency) : x \in S}
               f == [x \in S |-> ({x} \X (1..h[x])) \X (1..x.latency)]
    <2>1. f \in [S -> T] /\ \A y \in T : \E x \in S : y = f[x]
      OBVIOUS
    <2>2. IsFiniteSet(T)
      <3> HIDE DEF T, f
      <3> QED
        BY <1>1, <2>1, ImageIsFinite
    <2>3. \A x \in S : IsFiniteSet(({x} \X (1..h[x])) \X (1..x.latency))
      <3> SUFFICES ASSUME NEW x \in S
                   PROVE  IsFiniteSet(({x} \X (1..h[x])) \X (1..x.latency))
        OBVIOUS
      <3>1. IsFiniteSet({x}) /\ IsFiniteSet(1..h[x]) /\ IsFiniteSet(1..x.latency)
        <4>1. IsFiniteSet({x})
          BY FS_Singleton
        <4>2. 1 \in Int /\ h[x] \in Int /\ x.latency \in Int
          BY <1>2
        <4> QED
          BY <4>1, <4>2, FS_Interval
      <3>2. IsFiniteSet({x} \X (1..h[x]))
        BY <3>1, FS_Product
      <3> QED
        BY <3>1, <3>2, FS_Product
    <2>4. \A y \in T : IsFiniteSet(y)
      BY <2>3
    <2> HIDE DEF T
    <2>5. IsFiniteSet(UNION T)
      BY <2>2, <2>4, FS_UNION
    <2> QED
      BY <2>5 DEF T, Tenths
  <1>5. Number(h, S) \in Nat /\ Latency(h, S) \in Nat
    BY <1>3, <1>4, FS_CardinalityType DEF Number, Latency
  <1>6. Number(h, S) = 0 <=> RecordsIn(h, S) = {}
    BY <1>3, FS_EmptySet DEF Number
  <1>7. Latency(h, S) = 0 <=> Tenths(h, S) = {}
    BY <1>4, FS_EmptySet DEF Latency
  <1>8. \A x \in S : h[x] > 0 => <<x, 1>> \in RecordsIn(h, S)
    BY <1>2 DEF RecordsIn
  <1>9. (\A x \in S : h[x] = 0) => RecordsIn(h, S) = {}
    BY <1>2 DEF RecordsIn
  <1>10. RecordsIn(h, S) = {} => Tenths(h, S) = {}
    <2>1. \A x \in S : {x} \X (1..h[x]) \subseteq RecordsIn(h, S)
      BY DEF RecordsIn
    <2> QED
      BY <2>1 DEF Tenths
  <1> QED
    BY <1>5, <1>6, <1>7, <1>8, <1>9, <1>10

LEMMA PatternsAreKnown ==
    ASSUME NEW h
    PROVE  Patterns(h) \subseteq AllPatterns
  <1>1. ASSUME NEW p \in Patterns(h)
        PROVE  \E k \in Kinds : \E s \in {x.step : x \in Observed} \cup Misuses : p = <<k, s>>
    BY DEF Patterns, Kinds
  <1> QED
    BY <1>1 DEF AllPatterns

LEMMA PatternsAreFinite == IsFiniteSet(AllPatterns)
  <1>1. IsFiniteSet(Kinds) /\ IsFiniteSet(Misuses)
    <2>1. IsFiniteSet({} \cup {"repeated_failure"})
      BY FS_EmptySet, FS_AddElement
    <2>2. IsFiniteSet(({} \cup {"repeated_failure"}) \cup {"redundant_retries"})
      BY <2>1, FS_AddElement
    <2>3. IsFiniteSet((({} \cup {"repeated_failure"}) \cup {"redundant_retries"}) \cup {"tool_misuse"})
      BY <2>2, FS_AddElement
    <2>4. IsFiniteSet(((({} \cup {"repeated_failure"}) \cup {"redundant_retries"})
                          \cup {"tool_misuse"}) \cup {"inefficient_plan"})
      BY <2>3, FS_AddElement
    <2>5. ((({} \cup {"repeated_failure"}) \cup {"redundant_retries"})
              \cup {"tool_misuse"}) \cup {"inefficient_plan"} = Kinds
      BY DEF Kinds
    <2>6. IsFiniteSet({} \cup {"policy_violation"})
      BY FS_EmptySet, FS_AddElement
    <2>7. IsFiniteSet(({} \cup {"policy_violation"}) \cup {"invalid_operation"})
      BY <2>6, FS_AddElement
    <2>8. IsFiniteSet((({} \cup {"policy_violation"}) \cup {"invalid_operation"}) \cup {"tool_misuse"})
      BY <2>7, FS_AddElement
    <2>9. (({} \cup {"policy_violation"}) \cup {"invalid_operation"}) \cup {"tool_misuse"} = Misuses
      BY DEF Misuses
    <2> QED
      BY <2>4, <2>5, <2>8, <2>9
  <1>2. IsFiniteSet({x.step : x \in Observed})
    <2> DEFINE T == {x.step : x \in Observed}
               f == [x \in Observed |-> x.step]
    <2>1. f \in [Observed -> T] /\ \A y \in T : \E x \in Observed : y = f[x]
      OBVIOUS
    <2> HIDE DEF T, f
    <2>2. IsFiniteSet(T)
      BY <2>1, EngineAssumption, ImageIsFinite
    <2> QED
      BY <2>2 DEF T
  <1>3. IsFiniteSet({x.step : x \in Observed} \cup Misuses)
    BY <1>1, <1>2, FS_Union
  <1> QED
    BY <1>1, <1>3, FS_Product DEF AllPatterns

LEMMA CountsOfPatterns ==
    ASSUME NEW S \in SUBSET AllPatterns
    PROVE  IsFiniteSet(S) /\ Cardinality(S) \in Nat
  BY PatternsAreFinite, FS_Subset, FS_CardinalityType

\* An engine that reads no history finds nothing in it.
LEMMA NothingToImprove ==
    /\ NoHistory \in Histories /\ Patterns(NoHistory) = {} /\ Approved(NoHistory) = {}
  <1>1. NoHistory \in Histories /\ \A x \in Observed : NoHistory[x] = 0
    BY DEF NoHistory, Histories
  <1>2. ASSUME NEW S \in SUBSET Observed
        PROVE  (\A percent : ~Often(NoHistory, S, percent)) /\ ~Slow(NoHistory, S)
    <2>1. Number(NoHistory, S) = 0
      BY <1>1, NumbersAreCounts
    <2> QED
      BY <2>1 DEF Often, Slow
  <1>3. \A s :
           /\ At(With("failure"), s) \in SUBSET Observed
           /\ At({x \in Observed : x.retry}, s) \in SUBSET Observed
           /\ {x \in Observed : x.error = s} \in SUBSET Observed
           /\ At(Timed, s) \in SUBSET Observed
    BY DEF With, Timed, At
  <1>4. \A s :
           /\ ~Often(NoHistory, At(With("failure"), s), 25)
           /\ ~Often(NoHistory, At({x \in Observed : x.retry}, s), 30)
           /\ ~Often(NoHistory, {x \in Observed : x.error = s}, 0)
           /\ ~Slow(NoHistory, At(Timed, s))
    BY <1>2, <1>3
  <1>5. Patterns(NoHistory) = {}
    BY <1>4 DEF Patterns
  <1> QED
    BY <1>1, <1>5 DEF Approved, Actions

LEMMA RoundingGivesIntegers ==
    ASSUME NEW n \in Int, NEW d \in Nat \ {0}
    PROVE  Rounded(n, d) \in Int
  BY DEF Rounded

LEMMA NothingRoundsToNothing ==
    ASSUME NEW d \in Nat \ {0}
    PROVE  Rounded(0, d) = 0
  <1>1. 2 * 0 + d = d /\ 2 * d \in Nat \ {0} /\ 0 <= d /\ d < 2 * d
    OBVIOUS
  <1>2. d \div (2 * d) = 0
    BY <1>1
  <1> QED
    BY <1>1, <1>2 DEF Rounded

\* The metrics of a history; a latency comes from records that have one.
MetricsOK(m) ==
    /\ m.success \in Int /\ m.failure \in Int /\ m.latency \in Nat /\ m.timed \in Nat
    /\ m.latency # 0 => m.timed # 0

LEMMA MetricsAreNumbers ==
    ASSUME NEW h \in Histories
    PROVE  MetricsOK(Metrics(h))
  <1>1. Timed \in SUBSET Observed /\ With("success") \in SUBSET Observed
        /\ Observed \in SUBSET Observed
    BY DEF Timed, With
  <1>2. /\ Number(h, Observed) \in Nat /\ Number(h, With("success")) \in Nat
        /\ Number(h, Timed) \in Nat /\ Latency(h, Timed) \in Nat
        /\ Latency(h, Timed) # 0 => Number(h, Timed) # 0
    BY <1>1, NumbersAreCounts
  <1>3. PICK t, g : t = Total(h) /\ g = Number(h, With("success"))
    OBVIOUS
  <1>4. t \in Nat /\ g \in Nat
    BY <1>2, <1>3 DEF Total
  <1>5. 10000 * g \in Int /\ 10000 * (t - g) \in Int /\ (t # 0 => t \in Nat \ {0})
    BY <1>4
  <1>6. /\ (IF t = 0 THEN 0 ELSE Rounded(10000 * g, t)) \in Int
        /\ (IF t = 0 THEN 0 ELSE Rounded(10000 * (t - g), t)) \in Int
    BY <1>5, RoundingGivesIntegers
  <1>7. Metrics(h) = [success |-> IF t = 0 THEN 0 ELSE Rounded(10000 * g, t),
                      failure |-> IF t = 0 THEN 0 ELSE Rounded(10000 * (t - g), t),
                      latency |-> Latency(h, Timed), timed |-> Number(h, Timed)]
    BY <1>3 DEF Metrics
  <1> QED
    BY <1>2, <1>6, <1>7 DEF MetricsOK

\* Cutting a number off at both ends leaves a number, and leaves zero alone.
LEMMA CutOff ==
    ASSUME NEW s \in Int
    PROVE  /\ Max({Min({s, 10000}), -10000}) \in Int
           /\ s = 0 => Max({Min({s, 10000}), -10000}) = 0
  <1> DEFINE least(x) == \A y \in {s, 10000} : x =< y
  <1>1. \E x \in {s, 10000} : least(x)
    OBVIOUS
  <1>2. Min({s, 10000}) = CHOOSE x \in {s, 10000} : least(x)
    BY DEF Min
  <1> HIDE DEF least
  <1>3. Min({s, 10000}) \in {s, 10000} /\ least(Min({s, 10000}))
    BY <1>1, <1>2
  <1> PICK m : m = Min({s, 10000})
    OBVIOUS
  <1>4. m \in Int /\ (s = 0 => m = 0)
    BY <1>3 DEF least
  <1> DEFINE most(x) == \A y \in {m, -10000} : x >= y
  <1>5. \E x \in {m, -10000} : most(x)
    BY <1>4
  <1>6. Max({m, -10000}) = CHOOSE x \in {m, -10000} : most(x)
    BY DEF Max
  <1> HIDE DEF most
  <1>7. Max({m, -10000}) \in {m, -10000} /\ most(Max({m, -10000}))
    BY <1>5, <1>6
  <1>8. Max({m, -10000}) \in Int /\ (m = 0 => Max({m, -10000}) = 0)
    BY <1>4, <1>7 DEF most
  <1> QED
    BY <1>4, <1>8

\* The impact is a number, and of what has not changed it is zero.
LEMMA ImpactOfNothing ==
    ASSUME NEW b, MetricsOK(b), NEW a, MetricsOK(a)
    PROVE  /\ Impact(b, a) \in Int
           /\ a = b => Impact(b, a) = 0
  <1> DEFINE rates == 6 * (a.success - b.success) + 3 * (b.failure - a.failure)
             d == b.latency * a.timed
             score == IF b.latency = 0 THEN Rounded(rates, 10)
                      ELSE IF d = 0 THEN Rounded(rates + 10000, 10)
                      ELSE Rounded(rates * d + 10000 * (d - a.latency * b.timed), 10 * d)
  <1>1. rates \in Int /\ d \in Nat
    BY DEF MetricsOK
  <1>2. a.latency * b.timed \in Nat
    BY DEF MetricsOK
  <1>3. a = b => rates = 0 /\ a.latency * b.timed = d
    BY DEF MetricsOK
  <1>4. a = b /\ b.latency # 0 => d # 0
    BY DEF MetricsOK
  <1>5. Impact(b, a) = Max({Min({score, 10000}), -10000})
    BY DEF Impact
  <1> PICK r, x, y : r = rates /\ x = d /\ y = a.latency * b.timed
    OBVIOUS
  <1>6. r \in Int /\ x \in Nat /\ y \in Nat /\ (a = b => r = 0 /\ x = y)
    BY <1>1, <1>2, <1>3
  <1>7. score = IF b.latency = 0 THEN Rounded(r, 10)
                ELSE IF x = 0 THEN Rounded(r + 10000, 10)
                ELSE Rounded(r * x + 10000 * (x - y), 10 * x)
    OBVIOUS
  <1> HIDE DEF rates, d, score
  <1>8. CASE b.latency = 0
    <2>1. score = Rounded(r, 10) /\ Rounded(r, 10) \in Int /\ Rounded(0, 10) = 0
      BY <1>6, <1>7, <1>8, RoundingGivesIntegers, NothingRoundsToNothing
    <2> QED
      BY <1>5, <1>6, <2>1, CutOff
  <1>9. CASE b.latency # 0 /\ x = 0
    <2>1. score = Rounded(r + 10000, 10) /\ r + 10000 \in Int /\ a # b
      BY <1>4, <1>6, <1>7, <1>9 DEF d
    <2>2. score \in Int
      BY <2>1, RoundingGivesIntegers
    <2> QED
      BY <1>5, <2>1, <2>2, CutOff
  <1>10. CASE b.latency # 0 /\ x # 0
    <2>1. PICK n, m : n = r * x + 10000 * (x - y) /\ m = 10 * x
      OBVIOUS
    <2>2. r * x \in Int
      BY <1>6
    <2>3. n \in Int /\ m \in Nat \ {0} /\ score = Rounded(n, m)
      BY <1>6, <1>7, <1>10, <2>1, <2>2
    <2>4. a = b => n = 0
      BY <1>6, <2>1
    <2>5. score \in Int /\ (n = 0 => score = 0)
      BY <2>3, RoundingGivesIntegers, NothingRoundsToNothing
    <2> QED
      BY <1>5, <2>4, <2>5, CutOff
  <1> QED
    BY <1>8, <1>9, <1>10

-----------------------------------------------------------------------------
(***************************************************************************)
(* Steps that leave the log alone.                                         *)
(***************************************************************************)
LEMMA IdleIsOK ==
    ASSUME EngineTypeOK
    PROVE  Idle \in RunStates /\ RunOK(Idle)
  <1>1. Idle \in RunStates
    BY NothingToImprove DEF Idle, RunStates, Places
  <1>2. /\ Idle.pc = "idle" /\ Idle.left = <<>> /\ Idle.blocked = FALSE
        /\ Idle.accepted = FALSE
    BY DEF Idle
  <1>3. IdOK(Idle) /\ AnnounceOK(Idle) /\ BlockedOK(Idle) /\ EarnedOK(Idle) /\ BuildOK(Idle)
    BY <1>2 DEF IdOK, AnnounceOK, BlockedOK, EarnedOK, BuildOK
  <1> QED
    BY <1>1, <1>3 DEF RunOK

LEMMA InitEngineInv == Init => EngineInv
  <1> SUFFICES ASSUME Init
               PROVE  EngineInv
    OBVIOUS
  <1>1. log = <<>> /\ Len(log) = 0 /\ handed = {}
    BY DEF Init
  <1>2. \A e \in Engines : run[e] = Idle
    BY DEF Init
  <1>3. EngineTypeOK
    <2>1. history \in Histories
      <3>1. NoHistory \in Histories
        BY NothingToImprove
      <3> QED
        BY <3>1 DEF Init, Histories
    <2>2. Idle \in RunStates
      BY NothingToImprove DEF Idle, RunStates, Places
    <2>3. run \in [Engines -> RunStates]
      BY <2>2 DEF Init
    <2> QED
      BY <2>1, <2>3 DEF Init, EngineTypeOK
  <1>4. RunsInv
    <2>1. RunOK(Idle) /\ Idle.pc = "idle"
      BY <1>3, IdleIsOK DEF Idle
    <2> QED
      BY <1>2, <2>1 DEF RunsInv
  <1>5. LogInv
    <2>1. Recorded = {} /\ AcceptedAt = {} /\ Untyped = {}
      BY <1>1 DEF Recorded, AcceptedAt, Untyped
    <2> QED
      BY <1>1, <2>1 DEF LogInv, MaxInv, ServiceInv
  <1>6. HandedInv
    BY <1>1 DEF HandedInv
  <1> QED
    BY <1>3, <1>4, <1>5, <1>6 DEF EngineInv

\* What is said of a run, a record and what was handed over depends on the log and the
\* protocol, and what is said of a run on the history, too.
LEMMA NothingChanges ==
    ASSUME UNCHANGED <<protocol, log>>, runs \in Nat, runs' \in Nat, runs <= runs'
    PROVE  /\ Recorded' = Recorded /\ AcceptedAt' = AcceptedAt /\ Untyped' = Untyped
           /\ Serviced' = Serviced
           /\ \A r : IdOK(r) => IdOK(r)'
           /\ \A r : AnnounceOK(r) => AnnounceOK(r)'
           /\ \A r : BlockedOK(r) => BlockedOK(r)'
           /\ \A r : BuildOK(r) => BuildOK(r)'
           /\ history' = history => \A r : RunOK(r) => RunOK(r)'
           /\ \A i : (log[i].id \in Nat /\ EntryOK(i)) => EntryOK(i)'
           /\ \A j : RecordOK(j) => RecordOK(j)'
           /\ \A h : HandedOK(h) => HandedOK(h)'
           /\ MaxInv => MaxInv'
  <1>1. Recorded' = Recorded
    BY DEF Recorded
  <1>2. AcceptedAt' = AcceptedAt /\ Untyped' = Untyped
    BY <1>1 DEF AcceptedAt, Untyped
  <1>3. Serviced' = Serviced
    BY <1>2 DEF Serviced
  <1>4. ASSUME NEW r
        PROVE  /\ Announced(r)' = Announced(r) /\ OnRecord(r)' = OnRecord(r)
               /\ Sound(r)' = Sound(r) /\ CooldownRead(r)' = CooldownRead(r)
               /\ Betters(r)' = Betters(r) /\ Alone(r)' = Alone(r)
               /\ \A c : CooldownAt(r, c)' = CooldownAt(r, c)
               /\ \A n : Numbered(r, n)' = Numbered(r, n)
               /\ Undisturbed(r)' = Undisturbed(r)
    <2>1. Announced(r)' = Announced(r) /\ OnRecord(r)' = OnRecord(r)
      BY <1>1 DEF Announced, OnRecord
    <2>2. Sound(r)' = Sound(r) /\ Alone(r)' = Alone(r) /\ Undisturbed(r)' = Undisturbed(r)
      BY DEF Sound, Alone, Undisturbed
    <2>3. CooldownRead(r)' = CooldownRead(r) /\ Betters(r)' = Betters(r)
      BY <1>2 DEF CooldownRead, Betters, LastAccepted
    <2>4. /\ \A c : CooldownAt(r, c)' = CooldownAt(r, c)
          /\ \A n : Numbered(r, n)' = Numbered(r, n)
      BY <1>1 DEF CooldownAt, Numbered
    <2> QED
      BY <2>1, <2>2, <2>3, <2>4
  <1>5. \A r : IdOK(r) => IdOK(r)'
    <2>1. ASSUME NEW r
          PROVE  r.id \in 1..runs => r.id \in 1..runs'
      OBVIOUS
    <2> QED
      BY <1>1, <2>1 DEF IdOK
  <1>10. \A r : AnnounceOK(r) => AnnounceOK(r)'
    BY <1>4 DEF AnnounceOK
  <1>11. \A r : BlockedOK(r) => BlockedOK(r)'
    BY <1>4 DEF BlockedOK
  <1>12. \A r : BuildOK(r) => BuildOK(r)'
    BY <1>4 DEF BuildOK
  <1>13. ASSUME history' = history, NEW r, RunOK(r)
         PROVE  RunOK(r)'
    <2>1. EarnedOK(r)'
      BY <1>4, <1>13 DEF RunOK, EarnedOK
    <2> QED
      BY <1>5, <1>10, <1>11, <1>12, <1>13, <2>1 DEF RunOK
  <1>6. \A i : (log[i].id \in Nat /\ EntryOK(i)) => EntryOK(i)'
    BY DEF EntryOK
  <1>7. \A j : RecordOK(j) => RecordOK(j)'
    BY <1>4 DEF RecordOK
  <1>8. ASSUME NEW h, HandedOK(h)
        PROVE  HandedOK(h)'
    <2>1. h.of.id \in 1..runs'
      BY <1>8 DEF HandedOK
    <2> QED
      BY <1>4, <1>8, <2>1 DEF HandedOK
  <1>9. MaxInv => MaxInv'
    BY <1>1, <1>2 DEF MaxInv
  <1> QED
    BY <1>1, <1>2, <1>3, <1>5, <1>6, <1>7, <1>8, <1>9, <1>10, <1>11, <1>12, <1>13

\* A run goes on, or begins.
LEMMA RunGoesOn ==
    ASSUME EngineInv, NEW e \in Engines, NEW r \in RunStates, run' = [run EXCEPT ![e] = r],
           RunOK(r)', r.pc # "idle",
           \/ run[e].pc # "idle" /\ r.id = run[e].id /\ runs' = runs
           \/ r.id = runs + 1 /\ runs' = runs + 1,
           UNCHANGED <<bound, protocol, history, log, service, handed>>, faults' \in Nat
    PROVE  EngineInv'
  <1>1. /\ runs \in Nat /\ runs' \in Nat /\ runs <= runs'
        /\ run \in [Engines -> RunStates] /\ run'[e] = r
        /\ \A f \in Engines : f # e => run'[f] = run[f]
        /\ \A i \in 1..Len(log) : log[i].id \in Nat
    <2>1. log \in Seq(Entries) /\ run \in [Engines -> RunStates] /\ runs \in Nat
      BY DEF EngineInv, EngineTypeOK
    <2>2. runs' \in Nat /\ runs <= runs'
      BY <2>1
    <2>3. run'[e] = r /\ \A f \in Engines : f # e => run'[f] = run[f]
      BY <2>1
    <2>4. \A i \in 1..Len(log) : log[i].id \in Nat
      <3>1. \A i \in 1..Len(log) : log[i] \in Entries
        BY <2>1
      <3>2. \A x \in Entries : x.id \in Nat
        BY DEF Entries
      <3> QED
        BY <3>1, <3>2
    <2> QED
      BY <2>1, <2>2, <2>3, <2>4
  <1>2. EngineTypeOK'
    BY <1>1 DEF EngineInv, EngineTypeOK
  <1>3. RunsInv'
    <2>1. \A f \in Engines : RunOK(run[f])
      BY DEF EngineInv, RunsInv
    <2>2. ASSUME NEW f \in Engines, NEW s, s = run'[f]
          PROVE  RunOK(s)'
      <3>1. CASE f = e
        BY <1>1, <2>2, <3>1
      <3>2. CASE f # e
        <4>1. RunOK(s)
          BY <1>1, <2>1, <2>2, <3>2
        <4> QED
          BY <1>1, <4>1, NothingChanges
      <3> QED
        BY <3>1, <3>2
    <2>3. \A f, g \in Engines :
             run'[f].pc # "idle" /\ run'[g].pc # "idle" /\ run'[f].id = run'[g].id => f = g
      <3>1. \A f \in Engines : run[f].pc # "idle" => run[f].id \in 1..runs
        BY <2>1 DEF RunOK, IdOK
      <3>2. \A f \in Engines : f # e /\ run[f].pc # "idle" => run[f].id # r.id
        BY <1>1, <3>1 DEF EngineInv, RunsInv
      <3> QED
        BY <1>1, <3>2 DEF EngineInv, RunsInv
    <2> QED
      BY <2>2, <2>3 DEF RunsInv
  <1>4. LogInv'
    <2>1. ServiceInv'
      BY <1>1, NothingChanges DEF EngineInv, LogInv, ServiceInv, Late
    <2> QED
      BY <1>1, <2>1, NothingChanges DEF EngineInv, LogInv
  <1>5. HandedInv'
    <2> SUFFICES ASSUME NEW h \in handed
                 PROVE  HandedOK(h)' /\ \A f \in Engines : run'[f].pc # "idle" => run'[f].id # h.of.id
      BY DEF HandedInv
    <2>1. HandedOK(h) /\ h.of.id \in 1..runs
          /\ \A f \in Engines : run[f].pc # "idle" => run[f].id # h.of.id
      BY DEF EngineInv, HandedInv, HandedOK
    <2>2. r.id # h.of.id
      BY <1>1, <2>1
    <2> QED
      BY <1>1, <2>1, <2>2, NothingChanges
  <1> QED
    BY <1>2, <1>3, <1>4, <1>5 DEF EngineInv

-----------------------------------------------------------------------------
(***************************************************************************)
(* What a run reads of the log.                                            *)
(***************************************************************************)
LEMMA RecordsHaveIds ==
    ASSUME EngineInv
    PROVE  /\ \A i \in 1..Len(log) : log[i] \in Entries /\ EntryOK(i)
           /\ AcceptedAt \subseteq Recorded /\ Recorded \subseteq 1..Len(log)
           /\ \A i \in Recorded : log[i].id # 0 /\ RecordOK(i) /\ log[i].of \in RunStates
           /\ runs \in Nat /\ Len(log) \in Nat
  <1>1. log \in Seq(Entries) /\ runs \in Nat
    BY DEF EngineInv, EngineTypeOK
  <1>2. \A i \in 1..Len(log) : log[i] \in Entries
    BY <1>1
  <1>3. AcceptedAt \subseteq Recorded /\ Recorded \subseteq 1..Len(log)
    BY DEF AcceptedAt, Recorded
  <1>4. \A i \in 1..Len(log) : EntryOK(i)
    BY DEF EngineInv, LogInv
  <1>5. \A i \in Recorded : log[i].event = "record"
    BY DEF Recorded
  <1>6. \A i \in Recorded : log[i].id # 0
    BY <1>3, <1>4, <1>5, OutsideEvents DEF EntryOK
  <1>7. \A x \in Entries : x.of \in RunStates
    BY DEF Entries
  <1>8. \A i \in Recorded : RecordOK(i)
    BY DEF EngineInv, LogInv
  <1>9. \A i \in Recorded : log[i].of \in RunStates
    BY <1>2, <1>3, <1>7
  <1>10. Len(log) \in Nat
    BY <1>1
  <1> QED
    BY <1>1, <1>2, <1>3, <1>4, <1>6, <1>8, <1>9, <1>10

LEMMA LastAcceptance ==
    ASSUME EngineInv, AcceptedAt # {}
    PROVE  /\ Max(AcceptedAt) \in AcceptedAt
           /\ \A k \in AcceptedAt : k <= Max(AcceptedAt)
  <1> DEFINE last(x) == \A y \in AcceptedAt : x >= y
  <1>1. \E x \in AcceptedAt : last(x)
    <2>1. AcceptedAt \subseteq Nat
      BY RecordsHaveIds
    <2> QED
      BY <2>1 DEF EngineInv, LogInv, MaxInv
  <1>2. Max(AcceptedAt) = CHOOSE x \in AcceptedAt : last(x)
    BY DEF Max
  <1> HIDE DEF last
  <1>3. Max(AcceptedAt) \in AcceptedAt /\ last(Max(AcceptedAt))
    BY <1>1, <1>2
  <1>4. AcceptedAt \subseteq Nat
    BY RecordsHaveIds
  <1> QED
    BY <1>3, <1>4 DEF last

LEMMA NextVersionIsNext ==
    ASSUME EngineInv
    PROVE  NextVersion \in Nat /\ Numbered(NextVersion, Len(log))
  <1>1. \A i \in Recorded : log[i].of.version \in Nat /\ log[i].of.version >= 1
                            /\ i <= Len(log)
    <2>1. \A r \in RunStates : r.version \in Nat
      BY DEF RunStates
    <2> QED
      BY <2>1, RecordsHaveIds DEF RecordOK
  <1>2. CASE Recorded = {}
    BY <1>2 DEF NextVersion, Numbered
  <1>3. CASE Recorded # {}
    <2> DEFINE V == {log[i].of.version : i \in Recorded}
               most(x) == \A y \in V : x >= y
    <2>1. \E x \in V : most(x)
      <3>1. PICK i \in Recorded : \A k \in Recorded : log[k].of.version <= log[i].of.version
        BY <1>3 DEF EngineInv, LogInv, MaxInv
      <3> PICK x : x = log[i].of.version
        OBVIOUS
      <3>2. x \in V /\ x \in Nat
        BY <1>1
      <3>3. ASSUME NEW y \in V
            PROVE  x >= y
        <4>1. PICK k \in Recorded : y = log[k].of.version
          OBVIOUS
        <4> HIDE DEF V
        <4>2. y \in Nat /\ y <= x
          BY <1>1, <3>1, <4>1
        <4> QED
          BY <3>2, <4>2
      <3> QED
        BY <3>2, <3>3
    <2>2. Max(V) = CHOOSE x \in V : most(x)
      BY DEF Max
    <2>3. NextVersion = Max(V) + 1
      BY <1>3 DEF NextVersion
    <2> HIDE DEF most
    <2>4. Max(V) \in V /\ most(Max(V))
      BY <2>1, <2>2
    <2> PICK m : m = Max(V)
      OBVIOUS
    <2>5. PICK i \in Recorded : m = log[i].of.version
      BY <2>4
    <2>6. \A k \in Recorded : log[k].of.version <= m
      BY <1>1, <2>4, <2>5 DEF most
    <2> HIDE DEF V
    <2>7. NextVersion = m + 1 /\ m \in Nat /\ i <= Len(log)
      BY <1>1, <2>3, <2>5
    <2>8. \A k \in Recorded : log[k].of.version < m + 1
      BY <1>1, <2>6, <2>7
    <2> QED
      BY <2>5, <2>7, <2>8 DEF Numbered
  <1> QED
    BY <1>2, <1>3

\* A run that is alone has had the log to itself: every record is older.
LEMMA AloneSeesAll ==
    ASSUME EngineInv, NEW r \in RunStates, IdOK(r), Alone(r), r.pc \notin {"idle", "apply"}
    PROVE  \A k \in Recorded : k <= r.from
  <1> SUFFICES ASSUME NEW k \in Recorded, ~(k <= r.from)
               PROVE  FALSE
    OBVIOUS
  <1>1. k \in 1..Len(log) /\ log[k].id # 0 /\ log[k].id # r.id
    BY RecordsHaveIds DEF IdOK
  <1>2. r.from \in Nat
    BY DEF RunStates
  <1>3. k > r.from
    BY <1>1, <1>2
  <1> QED
    BY <1>1, <1>3 DEF Alone

LEMMA NumberedAlone ==
    ASSUME EngineInv, NEW r \in RunStates, IdOK(r), Alone(r), r.pc \notin {"idle", "apply"},
           NEW v, Numbered(v, Len(log))
    PROVE  Numbered(v, r.from)
  BY AloneSeesAll, RecordsHaveIds DEF Numbered

-----------------------------------------------------------------------------
(***************************************************************************)
(* The steps of a run that only read.                                      *)
(***************************************************************************)
LEMMA NoneAnnounced ==
    ASSUME NEW id, \A i \in 1..Len(log) : log[i].id # id
    PROVE  Cardinality(Announced(id)) = 0
  <1>1. Announced(id) = {}
    BY DEF Announced
  <1> QED
    BY <1>1, FS_EmptySet

LEMMA NothingLeft == Cardinality(Unannounced(<<>>)) = 0
  <1>1. Unannounced(<<>>) = {}
    BY DEF Unannounced
  <1> QED
    BY <1>1, FS_EmptySet

LEMMA CheckCooldownKeepsInv ==
    ASSUME EngineInv, NEW e \in Engines, CheckCooldown(e)
    PROVE  EngineInv'
  <1>1. /\ runs' = runs + 1 /\ runs \in Nat /\ Len(log) \in Nat
        /\ UNCHANGED <<bound, protocol, history, log, service, handed>>
    BY RecordsHaveIds DEF CheckCooldown
  <1>2. PICK raised \in BOOLEAN :
           /\ MayRaise(raised)
           /\ Advance(e, [Idle EXCEPT !.pc = "history", !.id = runs + 1, !.from = Len(log),
                                      !.blocked = ReadOr(FALSE, OnCooldown, raised),
                                      !.unread = raised])
    BY DEF CheckCooldown
  <1>3. PICK b : b = ReadOr(FALSE, OnCooldown, raised)
    OBVIOUS
  <1>4. b \in BOOLEAN /\ (b => protocol # "file" /\ ~raised /\ OnCooldown)
        /\ (~b /\ ~raised /\ protocol = "store" => ~OnCooldown)
    BY <1>3 DEF ReadOr, OnCooldown
  <1>5. PICK r : r = [Idle EXCEPT !.pc = "history", !.id = runs + 1, !.from = Len(log),
                                  !.blocked = b, !.unread = raised]
    OBVIOUS
  <1>6. /\ r.pc = "history" /\ r.id = runs + 1 /\ r.from = Len(log) /\ r.blocked = b
        /\ r.unread = raised /\ r.approved = {} /\ r.left = <<>> /\ r.accepted = FALSE
        /\ r.lost = FALSE
    BY <1>5 DEF Idle
  <1>7. r \in RunStates
    <2>1. NoHistory \in Histories /\ {} \in SUBSET AllPatterns /\ <<>> \in Seq(Announcements)
      BY NothingToImprove
    <2>2. r = [pc |-> "history", id |-> runs + 1, blocked |-> b, before |-> NoHistory,
               approved |-> {}, left |-> <<>>, impact |-> 0, accepted |-> FALSE,
               rollbackVersion |-> 0, version |-> 0,
               from |-> Len(log), grew |-> FALSE, unread |-> raised, lost |-> FALSE]
      BY <1>5 DEF Idle
    <2> QED
      BY <1>1, <1>4, <2>1, <2>2 DEF RunStates, Places
  <1>8. run' = [run EXCEPT ![e] = r] /\ faults' \in Nat
    BY <1>2, <1>3, <1>5 DEF Advance, MayRaise, EngineInv, EngineTypeOK
  <1>9. \A i \in 1..Len(log) : log[i].id # r.id
    <2>1. \A x \in Entries : x.id \in Nat
      BY DEF Entries
    <2> QED
      BY <1>1, <1>6, <2>1, RecordsHaveIds DEF EntryOK
  <1>10. RunOK(r)'
    <2>1. IdOK(r)'
      <3>1. r.id \in 1..runs'
        BY <1>1, <1>6
      <3> QED
        BY <1>1, <1>6, <1>9, <3>1 DEF IdOK, Recorded
    <2>2. AnnounceOK(r)'
      <3>1. Applied(r) = {} /\ Cardinality(Applied(r)) = 0
        BY <1>6, FS_EmptySet DEF Applied
      <3>2. Cardinality(Announced(r.id)) = 0 /\ Cardinality(Unannounced(r.left)) = 0
        BY <1>6, <1>9, NoneAnnounced, NothingLeft
      <3>3. Announced(r.id)' = Announced(r.id)
        BY <1>1 DEF Announced
      <3> QED
        BY <1>6, <3>1, <3>2, <3>3 DEF AnnounceOK
    <2>3. BlockedOK(r)' /\ EarnedOK(r)'
      BY <1>6 DEF BlockedOK, EarnedOK
    <2>4. CooldownRead(r)
      <3>1. AcceptedAt \subseteq 1..Len(log)
        BY RecordsHaveIds
      <3>2. CASE b
        <4>1. AcceptedAt # {} /\ Len(log) - Max(AcceptedAt) < CooldownCycles
          BY <1>4, <3>2 DEF OnCooldown
        <4> PICK m : m = Max(AcceptedAt)
          OBVIOUS
        <4>2. m \in AcceptedAt /\ \A k \in AcceptedAt : k <= m
          BY <4>1, LastAcceptance
        <4>3. m \in 1..Len(log) /\ LastAccepted(m, r.from)
          BY <1>1, <1>6, <3>1, <4>2 DEF LastAccepted
        <4> QED
          BY <1>6, <3>2, <4>1, <4>3 DEF CooldownRead
      <3>3. CASE ~b
        <4> SUFFICES ASSUME ~raised, protocol = "store", NEW k \in AcceptedAt
                     PROVE  Len(log) - k >= CooldownCycles
          BY <1>6, <3>3 DEF CooldownRead
        <4>1. ~(Len(log) - Max(AcceptedAt) < CooldownCycles)
          BY <1>4, <3>3 DEF OnCooldown
        <4>2. Max(AcceptedAt) \in 1..Len(log) /\ k \in 1..Len(log) /\ k <= Max(AcceptedAt)
          BY <3>1, LastAcceptance
        <4> QED
          BY <4>1, <4>2, EngineAssumption
      <3> QED
        BY <1>4, <3>2, <3>3
    <2>5. CooldownRead(r)'
      BY <1>1, <2>4 DEF CooldownRead, LastAccepted, AcceptedAt, Recorded
    <2>6. BuildOK(r)'
      BY <1>6, <2>5 DEF BuildOK
    <2> QED
      BY <2>1, <2>2, <2>3, <2>6 DEF RunOK
  <1> QED
    BY <1>1, <1>6, <1>7, <1>8, <1>10, RunGoesOn

\* Steps within a run.
LEMMA RunReads ==
    ASSUME EngineInv, NEW e \in Engines, NEW r \in RunStates, run' = [run EXCEPT ![e] = r],
           run[e].pc # "idle", r.pc # "idle", r.id = run[e].id, RunOK(r),
           UNCHANGED <<bound, protocol, history, log, runs, service, handed>>, faults' \in Nat
    PROVE  EngineInv'
  <1>1. runs \in Nat /\ runs' = runs /\ runs' \in Nat /\ runs <= runs'
    BY DEF EngineInv, EngineTypeOK
  <1>2. RunOK(r)'
    BY <1>1, NothingChanges
  <1> QED
    BY <1>1, <1>2, RunGoesOn

LEMMA RunsAreOK ==
    ASSUME EngineInv, NEW e \in Engines
    PROVE  /\ run[e] \in RunStates /\ RunOK(run[e])
           /\ faults \in Nat /\ protocol \in {"store", "file"}
           /\ history \in Histories
  BY DEF EngineInv, EngineTypeOK, RunsInv

LEMMA AnnouncedAreCounted ==
    ASSUME EngineInv, NEW id
    PROVE  IsFiniteSet(Announced(id)) /\ Cardinality(Announced(id)) \in Nat
  <1>1. Announced(id) \in SUBSET (1..Len(log)) /\ IsFiniteSet(1..Len(log))
    BY RecordsHaveIds, FS_Interval DEF Announced
  <1> QED
    BY <1>1, FS_Subset, FS_CardinalityType

\* The announcements of a run, as they are before the first is written.
Ending(blocked) == IF blocked THEN <<"cooldown">> ELSE <<>>

ToWrite(a, b, c) == [i \in 1..a |-> "applied"] \o [i \in 1..b |-> "rejected"] \o c

LEMMA EndingIsKnown ==
    /\ Ending(TRUE) \in Seq(Announcements) /\ Len(Ending(TRUE)) = 1
    /\ Ending(TRUE)[1] = "cooldown"
    /\ Ending(FALSE) \in Seq(Announcements) /\ Len(Ending(FALSE)) = 0
  <1>1. Ending(TRUE) = <<"cooldown">>
    BY DEF Ending
  <1>2. Ending(FALSE) = <<>>
    BY DEF Ending
  <1>3. <<"cooldown">> \in Seq(Announcements) /\ Len(<<"cooldown">>) = 1
        /\ <<"cooldown">>[1] = "cooldown"
    BY DEF Announcements
  <1>4. <<>> \in Seq(Announcements) /\ Len(<<>>) = 0
    OBVIOUS
  <1> QED
    BY <1>1, <1>2, <1>3, <1>4

LEMMA WhatIsToWrite ==
    ASSUME NEW a \in Nat, NEW b \in Nat, NEW c \in Seq(Announcements),
           Len(c) = 0 \/ (Len(c) = 1 /\ c[1] = "cooldown"),
           NEW left, left = ToWrite(a, b, c)
    PROVE  /\ left \in Seq(Announcements) /\ Cardinality(Unannounced(left)) = a
           /\ Len(c) = 1 => \E k \in 1..Len(left) : left[k] = "cooldown"
  <1> DEFINE s == [i \in 1..a |-> "applied"]
             t == [i \in 1..b |-> "rejected"]
  <1>2. /\ s \in Seq(Announcements) /\ Len(s) = a /\ \A i \in 1..a : s[i] = "applied"
        /\ t \in Seq(Announcements) /\ Len(t) = b /\ \A i \in 1..b : t[i] = "rejected"
    BY DEF Announcements
  <1>4. left = (s \o t) \o c
    BY DEF ToWrite
  <1> HIDE DEF s, t
  <1> PICK u : u = s \o t
    OBVIOUS
  <1>5. /\ u \in Seq(Announcements) /\ Len(u) = a + b
        /\ \A i \in 1..a : u[i] = "applied"
        /\ \A i \in a + 1 .. a + b : u[i] = "rejected"
    <2>1. /\ u \in Seq(Announcements) /\ Len(u) = a + b
          /\ \A i \in 1..(a + b) : u[i] = IF i <= a THEN s[i] ELSE t[i - a]
      <3>1. u = s \o t /\ s \in Seq(Announcements) /\ t \in Seq(Announcements)
        BY <1>2
      <3>2. /\ u \in Seq(Announcements) /\ Len(u) = Len(s) + Len(t)
            /\ \A i \in 1..(Len(s) + Len(t)) : u[i] = IF i <= Len(s) THEN s[i] ELSE t[i - Len(s)]
        BY <3>1, ConcatProperties
      <3> QED
        BY <1>2, <3>2
    <2>2. ASSUME NEW i \in 1..a
          PROVE  u[i] = "applied"
      <3>1. u[i] = s[i]
        BY <2>1
      <3> QED
        BY <1>2, <3>1
    <2>3. ASSUME NEW i \in a + 1 .. a + b
          PROVE  u[i] = "rejected"
      <3> PICK k : k = i - a
        OBVIOUS
      <3>1. k \in 1..b /\ u[i] = t[k]
        BY <2>1
      <3> QED
        BY <1>2, <3>1
    <2> QED
      BY <2>1, <2>2, <2>3
  <1>6. /\ left \in Seq(Announcements) /\ Len(left) = a + b + Len(c)
        /\ \A i \in 1..(a + b) : left[i] = u[i]
        /\ Len(c) = 1 => left[a + b + 1] = "cooldown" /\ Len(left) = a + b + 1
        /\ Len(c) = 0 => Len(left) = a + b
    <2>1. /\ left \in Seq(Announcements) /\ Len(left) = a + b + Len(c) /\ Len(c) \in Nat
          /\ \A i \in 1..(a + b + Len(c)) :
                left[i] = IF i <= a + b THEN u[i] ELSE c[i - (a + b)]
      <3>1. left = u \o c /\ u \in Seq(Announcements) /\ c \in Seq(Announcements)
        BY <1>4, <1>5
      <3>2. /\ left \in Seq(Announcements) /\ Len(left) = Len(u) + Len(c)
            /\ \A i \in 1..(Len(u) + Len(c)) : left[i] = IF i <= Len(u) THEN u[i] ELSE c[i - Len(u)]
        BY <3>1, ConcatProperties
      <3>3. Len(u) = a + b /\ Len(c) \in Nat
        BY <1>5, <3>1
      <3> QED
        BY <3>2, <3>3
    <2>2. ASSUME NEW i \in 1..(a + b)
          PROVE  left[i] = u[i]
      <3>1. i \in 1..(a + b + Len(c)) /\ i <= a + b
        BY <2>1
      <3> QED
        BY <2>1, <3>1
    <2>3. Len(c) = 1 => left[a + b + 1] = c[1]
      <3>1. Len(c) = 1 => a + b + 1 \in 1..(a + b + Len(c)) /\ ~(a + b + 1 <= a + b)
                       /\ a + b + 1 - (a + b) = 1
        OBVIOUS
      <3> QED
        BY <2>1, <3>1
    <2>4. Len(c) = 1 => left[a + b + 1] = "cooldown" /\ Len(left) = a + b + 1
      BY <2>1, <2>3
    <2>5. Len(c) = 0 => Len(left) = a + b
      BY <2>1
    <2> QED
      BY <2>1, <2>2, <2>4, <2>5
  <1>7. Unannounced(left) = 1..a
    <2>1. ASSUME NEW k \in 1..Len(left)
          PROVE  left[k] = "applied" <=> k \in 1..a
      <3>1. k \in 1..a \/ k \in a + 1 .. a + b \/ (Len(c) = 1 /\ k = a + b + 1)
        BY <1>6
      <3>2. k \in 1..a => left[k] = "applied"
        <4>1. k \in 1..a => k \in 1..(a + b) /\ u[k] = "applied"
          BY <1>5
        <4> QED
          BY <1>6, <4>1
      <3>3. k \in a + 1 .. a + b => left[k] = "rejected" /\ k \notin 1..a
        <4>1. k \in a + 1 .. a + b => k \in 1..(a + b) /\ u[k] = "rejected" /\ k \notin 1..a
          BY <1>5
        <4> QED
          BY <1>6, <4>1
      <3>4. Len(c) = 1 /\ k = a + b + 1 => left[k] = "cooldown" /\ k \notin 1..a
        BY <1>6
      <3> QED
        BY <3>1, <3>2, <3>3, <3>4
    <2>2. 1..a \subseteq 1..Len(left)
      BY <1>6
    <2> QED
      BY <2>1, <2>2 DEF Unannounced
  <1>8. Cardinality(1..a) = a
    BY FS_Interval
  <1>9. Len(c) = 1 => a + b + 1 \in 1..Len(left)
    BY <1>6
  <1> QED
    BY <1>6, <1>7, <1>8, <1>9

LEMMA ReadBeforeKeepsInv ==
    ASSUME EngineInv, NEW e \in Engines, ReadBefore(e)
    PROVE  EngineInv'
  <1>1. PICK q : q = run[e]
    OBVIOUS
  <1>2. /\ q \in RunStates /\ RunOK(q) /\ faults \in Nat /\ q.pc = "history"
        /\ UNCHANGED <<bound, protocol, history, log, runs, service, handed>>
    BY <1>1, RunsAreOK DEF ReadBefore
  <1>3. PICK raised \in BOOLEAN :
           /\ MayRaise(raised)
           /\ LET h == ReadOr(NoHistory, history, raised)
                  applied == IF q.blocked THEN {} ELSE Approved(h)
              IN  Advance(e, [q EXCEPT !.pc = "events", !.before = h,
                      !.approved = Approved(h), !.unread = @ \/ raised,
                      !.left = [i \in 1..Cardinality(applied) |-> "applied"]
                               \o [i \in 1..Cardinality(Rejected(h)) |-> "rejected"]
                               \o IF q.blocked THEN <<"cooldown">> ELSE <<>>])
    BY <1>1 DEF ReadBefore
  <1>4. PICK h, unread, applied :
           /\ h = ReadOr(NoHistory, history, raised)
           /\ unread = (q.unread \/ raised)
           /\ applied = IF q.blocked THEN {} ELSE Approved(h)
    OBVIOUS
  <1>5. PICK a, b, c : a = Cardinality(applied) /\ b = Cardinality(Rejected(h)) /\ c = Ending(q.blocked)
    OBVIOUS
  <1>6. PICK left : left = ToWrite(a, b, c)
    OBVIOUS
  <1>7. h \in Histories /\ unread \in BOOLEAN
        /\ (protocol = "file" => Approved(h) = {})
        /\ (protocol = "store" /\ ~unread => h = history /\ ~q.unread)
        /\ (q.unread => unread)
    <2>1. h \in Histories
      BY <1>4, RunsAreOK, NothingToImprove DEF ReadOr
    <2>2. protocol = "file" => Approved(h) = {}
      BY <1>4, NothingToImprove DEF ReadOr
    <2>3. protocol = "store" /\ ~unread => h = history /\ ~q.unread
      BY <1>4 DEF ReadOr
    <2>4. unread \in BOOLEAN /\ (q.unread => unread)
      BY <1>2, <1>4 DEF RunStates
    <2> QED
      BY <2>1, <2>2, <2>3, <2>4
  <1>8. Approved(h) \in SUBSET AllPatterns /\ Rejected(h) \in SUBSET AllPatterns
        /\ applied \in SUBSET AllPatterns
    BY <1>4, PatternsAreKnown DEF Approved, Rejected, Actions
  <1>9. a \in Nat /\ b \in Nat
    BY <1>5, <1>8, CountsOfPatterns
  <1>10. /\ q.blocked \in BOOLEAN /\ q.id \in Nat
    BY <1>2 DEF RunStates
  <1>11. /\ c \in Seq(Announcements) /\ (Len(c) = 0 \/ (Len(c) = 1 /\ c[1] = "cooldown"))
         /\ q.blocked => Len(c) = 1
    <2>1. CASE q.blocked = TRUE
      BY <1>5, <2>1, EndingIsKnown
    <2>2. CASE q.blocked = FALSE
      BY <1>5, <2>2, EndingIsKnown
    <2> QED
      BY <1>10, <2>1, <2>2
  <1>12. /\ left \in Seq(Announcements) /\ Cardinality(Unannounced(left)) = a
         /\ q.blocked => \E k \in 1..Len(left) : left[k] = "cooldown"
    BY <1>6, <1>9, <1>11, WhatIsToWrite
  <1>13. PICK r : r = [q EXCEPT !.pc = "events", !.before = h, !.approved = Approved(h),
                                !.unread = unread, !.left = left]
    OBVIOUS
  <1>14. r \in RunStates
    BY <1>2, <1>7, <1>8, <1>12, <1>13 DEF RunStates, Places
  <1>15. /\ r.pc = "events" /\ r.before = h /\ r.approved = Approved(h) /\ r.unread = unread
         /\ r.left = left /\ r.id = q.id /\ r.blocked = q.blocked /\ r.from = q.from
         /\ r.lost = q.lost /\ r.accepted = q.accepted /\ r.grew = q.grew
    BY <1>2, <1>13 DEF RunStates
  <1>16. run' = [run EXCEPT ![e] = r] /\ faults' \in Nat
    <2>1. [i \in 1..Cardinality(applied) |-> "applied"]
             \o [i \in 1..Cardinality(Rejected(h)) |-> "rejected"]
             \o (IF q.blocked THEN <<"cooldown">> ELSE <<>>) = left
      BY <1>5, <1>6, Zenon DEF ToWrite, Ending
    <2>2. faults' \in Nat
      BY <1>2, <1>3 DEF MayRaise
    <2>3. run' = [run EXCEPT ![e] = r]
      BY <1>3, <1>4, <1>13, <2>1, Zenon DEF Advance
    <2> QED
      BY <2>2, <2>3
  <1>17. RunOK(r)
    <2>1. IdOK(r)
      BY <1>2, <1>15 DEF RunOK, IdOK
    <2>2. AnnounceOK(r)
      <3>1. Applied(r) = applied
        BY <1>4, <1>15 DEF Applied
      <3>2. ~q.lost => Cardinality(Announced(q.id)) = 0
        <4>1. q.approved = {} /\ Applied(q) = {} /\ q.left = <<>>
          BY <1>2 DEF RunOK, AnnounceOK, Applied
        <4>2. Cardinality(Applied(q)) = 0 /\ Cardinality(Unannounced(q.left)) = 0
          BY <4>1, NothingLeft, FS_EmptySet
        <4>3. Cardinality(Announced(q.id)) \in Nat
          BY AnnouncedAreCounted
        <4>4. ~q.lost => Cardinality(Announced(q.id)) + Cardinality(Unannounced(q.left))
                         = Cardinality(Applied(q))
          BY <1>2 DEF RunOK, AnnounceOK
        <4> QED
          BY <4>2, <4>3, <4>4
      <3>3. ~r.lost => Cardinality(Announced(r.id)) + Cardinality(Unannounced(r.left))
                       = Cardinality(Applied(r))
        BY <1>5, <1>9, <1>12, <1>15, <3>1, <3>2
      <3> QED
        BY <1>15, <3>3 DEF AnnounceOK
    <2>3. BlockedOK(r)
      BY <1>12, <1>15 DEF BlockedOK
    <2>4. EarnedOK(r)
      BY <1>2, <1>7, <1>15 DEF EarnedOK, RunOK
    <2>5. BuildOK(r)
      <3>1. CooldownRead(r)
        BY <1>2, <1>7, <1>15 DEF RunOK, BuildOK, CooldownRead
      <3>2. ~r.accepted
        BY <1>2, <1>15 DEF RunOK, EarnedOK
      <3> QED
        BY <1>15, <3>1, <3>2 DEF BuildOK
    <2> QED
      BY <2>1, <2>2, <2>3, <2>4, <2>5 DEF RunOK
  <1> QED
    BY <1>1, <1>2, <1>14, <1>15, <1>16, <1>17, RunReads

\* What a run keeps while it reads, once its announcements are written.
LEMMA RunKeeps ==
    ASSUME NEW q \in RunStates, RunOK(q), NEW r \in RunStates,
           q.pc \in {"events", "gate", "rollback", "version"}, q.left = <<>>,
           r.pc \in {"gate", "rollback", "version", "record"}, r.left = q.left,
           r.id = q.id, r.blocked = q.blocked, r.from = q.from, r.lost = q.lost,
           r.approved = q.approved, r.grew = q.grew, q.unread => r.unread
    PROVE  /\ IdOK(r) /\ AnnounceOK(r) /\ BlockedOK(r) /\ CooldownRead(r)
           /\ Applied(r) = Applied(q) /\ (Alone(r) => Alone(q))
  <1>1. Applied(r) = Applied(q)
    BY DEF Applied
  <1>2. IdOK(r)
    BY DEF RunOK, IdOK
  <1>3. AnnounceOK(r)
    BY <1>1 DEF RunOK, AnnounceOK
  <1>4. BlockedOK(r)
    BY DEF RunOK, BlockedOK, CooldownAt
  <1>5. CooldownRead(r)
    BY DEF RunOK, BuildOK, CooldownRead
  <1>6. Alone(r) => Alone(q)
    BY DEF Alone
  <1> QED
    BY <1>1, <1>2, <1>3, <1>4, <1>5, <1>6

LEMMA ReadAfterKeepsInv ==
    ASSUME EngineInv, NEW e \in Engines, ReadAfter(e)
    PROVE  EngineInv'
  <1>1. PICK q : q = run[e]
    OBVIOUS
  <1>2. /\ q \in RunStates /\ RunOK(q) /\ faults \in Nat /\ q.pc = "events" /\ q.left = <<>>
        /\ UNCHANGED <<bound, protocol, history, log, runs, service, handed>>
    BY <1>1, RunsAreOK DEF ReadAfter
  <1>3. PICK raised \in BOOLEAN :
           /\ MayRaise(raised)
           /\ LET h == ReadOr(NoHistory, history, raised)
                  impact == Impact(Metrics(run[e].before), Metrics(h))
              IN  Advance(e, [run[e] EXCEPT !.before = NoHistory, !.impact = impact,
                                            !.pc = IF impact >= 500 THEN "gate" ELSE "rollback",
                                            !.unread = @ \/ raised])
    BY DEF ReadAfter
  <1>4. PICK h, impact, unread, pc :
           /\ h = ReadOr(NoHistory, history, raised)
           /\ impact = Impact(Metrics(q.before), Metrics(h))
           /\ unread = (q.unread \/ raised)
           /\ pc = IF impact >= 500 THEN "gate" ELSE "rollback"
    OBVIOUS
  <1>5. h \in Histories /\ q.before \in Histories
    BY <1>2, <1>4, RunsAreOK, NothingToImprove DEF ReadOr, RunStates
  <1>6. impact \in Int /\ (h = q.before => impact = 0)
    <2>1. PICK x, y : x = Metrics(q.before) /\ y = Metrics(h)
      OBVIOUS
    <2>2. MetricsOK(x) /\ MetricsOK(y)
      BY <1>5, <2>1, MetricsAreNumbers
    <2> QED
      BY <1>4, <2>1, <2>2, ImpactOfNothing
  <1>7. unread \in BOOLEAN /\ (q.unread => unread)
    BY <1>2, <1>4 DEF RunStates
  <1>8. protocol = "store" /\ ~q.grew /\ ~unread => impact = 0
    <2>1. protocol = "store" /\ ~unread => h = history /\ ~q.unread
      BY <1>4 DEF ReadOr
    <2>2. protocol = "store" /\ ~q.grew /\ ~q.unread => q.before = history
      BY <1>2 DEF RunOK, EarnedOK
    <2> QED
      BY <1>6, <2>1, <2>2
  <1>9. PICK r : r = [q EXCEPT !.before = NoHistory, !.impact = impact, !.pc = pc, !.unread = unread]
    OBVIOUS
  <1>10. r \in RunStates
    <2>1. NoHistory \in Histories /\ pc \in Places
      BY <1>4, NothingToImprove DEF Places
    <2> QED
      BY <1>2, <1>6, <1>7, <1>9, <2>1 DEF RunStates
  <1>11. /\ r.pc = pc /\ r.impact = impact /\ r.unread = unread
         /\ r.left = q.left /\ r.id = q.id /\ r.blocked = q.blocked /\ r.from = q.from
         /\ r.lost = q.lost /\ r.accepted = q.accepted /\ r.grew = q.grew
         /\ r.approved = q.approved
    BY <1>2, <1>9 DEF RunStates
  <1>12. /\ pc \in {"gate", "rollback"} /\ (pc = "gate" => impact >= 500)
    BY <1>4
  <1>13. run' = [run EXCEPT ![e] = r] /\ faults' \in Nat
    <2>1. run' = [run EXCEPT ![e] = r]
      BY <1>1, <1>3, <1>4, <1>9 DEF Advance
    <2> QED
      BY <1>2, <1>3, <2>1 DEF MayRaise
  <1>14. RunOK(r)
    <2>1. IdOK(r) /\ AnnounceOK(r) /\ BlockedOK(r) /\ CooldownRead(r)
      BY <1>2, <1>7, <1>10, <1>11, <1>12, RunKeeps
    <2>2. ~r.accepted
      BY <1>2, <1>11 DEF RunOK, EarnedOK
    <2>3. EarnedOK(r)
      BY <1>2, <1>8, <1>11, <1>12, <2>2 DEF EarnedOK, RunOK, Sound
    <2>4. BuildOK(r)
      BY <1>11, <1>12, <2>1, <2>2 DEF BuildOK
    <2> QED
      BY <2>1, <2>3, <2>4 DEF RunOK
  <1> QED
    BY <1>1, <1>2, <1>10, <1>11, <1>12, <1>13, <1>14, RunReads

\* What is acceptable betters the acceptance before.
LEMMA GateKeepsInv ==
    ASSUME EngineInv, NEW e \in Engines, Gate(e)
    PROVE  EngineInv'
  <1>1. PICK q : q = run[e]
    OBVIOUS
  <1>2. /\ q \in RunStates /\ RunOK(q) /\ faults \in Nat /\ q.pc = "gate"
        /\ UNCHANGED <<bound, protocol, history, log, runs, service, handed>>
    BY <1>1, RunsAreOK DEF Gate
  <1>3. PICK raised \in BOOLEAN :
           /\ MayRaise(raised)
           /\ Advance(e, [q EXCEPT !.pc = "rollback", !.unread = @ \/ raised,
                             !.accepted = /\ Applied(q) # {}
                                          /\ ReadOr(TRUE, Acceptable(q.impact), raised)])
    BY <1>1 DEF Gate
  <1>4. PICK accepted, unread :
           /\ accepted = (Applied(q) # {} /\ ReadOr(TRUE, Acceptable(q.impact), raised))
           /\ unread = (q.unread \/ raised)
    OBVIOUS
  <1>5. /\ accepted \in BOOLEAN /\ (accepted => Applied(q) # {})
        /\ accepted /\ protocol = "store" /\ ~unread => Acceptable(q.impact)
    BY <1>4 DEF ReadOr
  <1>6. unread \in BOOLEAN /\ (q.unread => unread)
    BY <1>2, <1>4 DEF RunStates
  <1>7. PICK r : r = [q EXCEPT !.pc = "rollback", !.unread = unread, !.accepted = accepted]
    OBVIOUS
  <1>8. r \in RunStates
    BY <1>2, <1>5, <1>6, <1>7 DEF RunStates, Places
  <1>9. /\ r.pc = "rollback" /\ r.accepted = accepted /\ r.unread = unread
        /\ r.left = q.left /\ r.id = q.id /\ r.blocked = q.blocked /\ r.from = q.from
        /\ r.lost = q.lost /\ r.impact = q.impact /\ r.grew = q.grew
        /\ r.approved = q.approved
    BY <1>2, <1>7 DEF RunStates
  <1>10. run' = [run EXCEPT ![e] = r] /\ faults' \in Nat
    <2>1. run' = [run EXCEPT ![e] = r]
      BY <1>3, <1>4, <1>7, Zenon DEF Advance
    <2> QED
      BY <1>2, <1>3, <2>1 DEF MayRaise
  <1>11. RunOK(r)
    <2>1. q.left = <<>>
      BY <1>2 DEF RunOK, AnnounceOK
    <2>2. /\ IdOK(r) /\ AnnounceOK(r) /\ BlockedOK(r) /\ CooldownRead(r)
          /\ Applied(r) = Applied(q)
      BY <1>2, <1>6, <1>8, <1>9, <2>1, RunKeeps
    <2>3. EarnedOK(r)
      <3>1. Sound(q) /\ q.impact >= 500
        BY <1>2 DEF RunOK, EarnedOK
      <3> QED
        BY <1>5, <1>6, <1>9, <2>2, <3>1 DEF EarnedOK, Sound
    <2>4. ASSUME protocol = "store", Alone(r), r.accepted
          PROVE  Betters(r)
      <3> SUFFICES ASSUME NEW i \in AcceptedAt, LastAccepted(i, r.from)
                   PROVE  log[i].of.impact < r.impact
        BY DEF Betters
      <3>1. \A k \in Recorded : k <= r.from
        BY <1>8, <1>9, <2>2, <2>4, AloneSeesAll
      <3>2. \A k \in AcceptedAt : k <= i
        BY <3>1, RecordsHaveIds DEF LastAccepted
      <3> PICK m : m = Max(AcceptedAt)
        OBVIOUS
      <3>3. m \in AcceptedAt /\ i <= m
        BY LastAcceptance
      <3>4. i = m
        <4>1. m <= i /\ m \in Nat /\ i \in Nat
          BY <3>2, <3>3, RecordsHaveIds
        <4> QED
          BY <3>3, <4>1
      <3>5. Acceptable(q.impact)
        BY <1>5, <1>9, <2>4 DEF Alone
      <3>6. q.impact > log[m].of.impact
        BY <3>5 DEF Acceptable
      <3>7. q.impact \in Int /\ log[i].of.impact \in Int
        <4>1. log[i].of \in RunStates
          BY RecordsHaveIds
        <4>2. \A x \in RunStates : x.impact \in Int
          BY DEF RunStates
        <4> QED
          BY <1>2, <4>1, <4>2
      <3> QED
        BY <1>9, <3>4, <3>6, <3>7
    <2>5. BuildOK(r)
      BY <1>9, <2>2, <2>4 DEF BuildOK
    <2> QED
      BY <2>2, <2>3, <2>5 DEF RunOK
  <1> QED
    BY <1>1, <1>2, <1>8, <1>9, <1>10, <1>11, RunReads

\* The version that is read is the next one, if nobody else writes.
LEMMA VersionIsNext ==
    ASSUME EngineInv, NEW raised \in BOOLEAN, NEW v, v = ReadOr(1, NextVersion, raised)
    PROVE  /\ v \in Nat /\ v >= 1
           /\ \A r \in RunStates : IdOK(r) /\ Alone(r) /\ r.pc \notin {"idle", "apply"}
                                   /\ protocol = "store" /\ ~raised => Numbered(v, r.from)
  <1> PICK n : n = NextVersion
    OBVIOUS
  <1>1. n \in Nat /\ n >= 1 /\ Numbered(n, Len(log))
    BY NextVersionIsNext DEF Numbered
  <1>2. v = 1 \/ v = n
    BY DEF ReadOr
  <1>3. protocol = "store" /\ ~raised => v = n
    BY DEF ReadOr
  <1>4. ASSUME NEW r \in RunStates, IdOK(r), Alone(r), r.pc \notin {"idle", "apply"}
        PROVE  Numbered(n, r.from)
    BY <1>1, <1>4, NumberedAlone
  <1> QED
    BY <1>1, <1>2, <1>3, <1>4

LEMMA ReadRollbackVersionKeepsInv ==
    ASSUME EngineInv, NEW e \in Engines, ReadRollbackVersion(e)
    PROVE  EngineInv'
  <1>1. PICK q : q = run[e]
    OBVIOUS
  <1>2. /\ q \in RunStates /\ RunOK(q) /\ faults \in Nat /\ q.pc = "rollback"
        /\ UNCHANGED <<bound, protocol, history, log, runs, service, handed>>
    BY <1>1, RunsAreOK DEF ReadRollbackVersion
  <1>3. PICK raised \in BOOLEAN :
           /\ MayRaise(raised)
           /\ Advance(e, [q EXCEPT !.pc = "version", !.unread = @ \/ raised,
                             !.rollbackVersion = ReadOr(1, NextVersion, raised)])
    BY <1>1 DEF ReadRollbackVersion
  <1>4. PICK v, unread : v = ReadOr(1, NextVersion, raised) /\ unread = (q.unread \/ raised)
    OBVIOUS
  <1>5. /\ v \in Nat
        /\ \A r \in RunStates : IdOK(r) /\ Alone(r) /\ r.pc \notin {"idle", "apply"}
                                /\ protocol = "store" /\ ~raised => Numbered(v, r.from)
    BY <1>4, VersionIsNext
  <1>6. unread \in BOOLEAN /\ (q.unread => unread) /\ (raised => unread)
    BY <1>2, <1>4 DEF RunStates
  <1>7. PICK r : r = [q EXCEPT !.pc = "version", !.unread = unread, !.rollbackVersion = v]
    OBVIOUS
  <1>8. r \in RunStates
    BY <1>2, <1>5, <1>6, <1>7 DEF RunStates, Places
  <1>9. /\ r.pc = "version" /\ r.rollbackVersion = v /\ r.accepted = q.accepted
        /\ r.unread = unread /\ r.left = q.left /\ r.id = q.id /\ r.blocked = q.blocked
        /\ r.from = q.from /\ r.lost = q.lost /\ r.impact = q.impact /\ r.grew = q.grew
        /\ r.approved = q.approved
    BY <1>2, <1>7 DEF RunStates
  <1>10. run' = [run EXCEPT ![e] = r] /\ faults' \in Nat
    BY <1>2, <1>3, <1>4, <1>7 DEF Advance, MayRaise
  <1>11. RunOK(r)
    <2>1. q.left = <<>>
      BY <1>2 DEF RunOK, AnnounceOK
    <2>2. /\ IdOK(r) /\ AnnounceOK(r) /\ BlockedOK(r) /\ CooldownRead(r)
          /\ Applied(r) = Applied(q) /\ (Alone(r) => Alone(q))
      BY <1>2, <1>6, <1>8, <1>9, <2>1, RunKeeps
    <2>3. EarnedOK(r)
      <3>1. Sound(q)
        BY <1>2 DEF RunOK, EarnedOK
      <3> QED
        BY <1>6, <1>9, <2>2, <3>1 DEF EarnedOK, Sound
    <2>4. protocol = "store" /\ Alone(r) => Numbered(r.rollbackVersion, r.from)
      BY <1>5, <1>6, <1>8, <1>9, <2>2 DEF Alone
    <2>5. protocol = "store" /\ Alone(r) /\ r.accepted => Betters(r)
      BY <1>2, <1>9, <2>2 DEF RunOK, BuildOK, Betters
    <2>6. BuildOK(r)
      BY <1>9, <2>2, <2>4, <2>5 DEF BuildOK
    <2> QED
      BY <2>2, <2>3, <2>6 DEF RunOK
  <1> QED
    BY <1>1, <1>2, <1>8, <1>9, <1>10, <1>11, RunReads

LEMMA ReadVersionKeepsInv ==
    ASSUME EngineInv, NEW e \in Engines, ReadVersion(e)
    PROVE  EngineInv'
  <1>1. PICK q : q = run[e]
    OBVIOUS
  <1>2. /\ q \in RunStates /\ RunOK(q) /\ faults \in Nat /\ q.pc = "version"
        /\ UNCHANGED <<bound, protocol, history, log, runs, service, handed>>
    BY <1>1, RunsAreOK DEF ReadVersion
  <1>3. PICK raised \in BOOLEAN :
           /\ MayRaise(raised)
           /\ Advance(e, [q EXCEPT !.pc = "record", !.unread = @ \/ raised,
                             !.version = ReadOr(1, NextVersion, raised)])
    BY <1>1 DEF ReadVersion
  <1>4. PICK v, unread : v = ReadOr(1, NextVersion, raised) /\ unread = (q.unread \/ raised)
    OBVIOUS
  <1>5. /\ v \in Nat /\ v >= 1
        /\ \A r \in RunStates : IdOK(r) /\ Alone(r) /\ r.pc \notin {"idle", "apply"}
                                /\ protocol = "store" /\ ~raised => Numbered(v, r.from)
    BY <1>4, VersionIsNext
  <1>6. unread \in BOOLEAN /\ (q.unread => unread) /\ (raised => unread)
    BY <1>2, <1>4 DEF RunStates
  <1>7. PICK r : r = [q EXCEPT !.pc = "record", !.unread = unread, !.version = v]
    OBVIOUS
  <1>8. r \in RunStates
    BY <1>2, <1>5, <1>6, <1>7 DEF RunStates, Places
  <1>9. /\ r.pc = "record" /\ r.version = v /\ r.rollbackVersion = q.rollbackVersion
        /\ r.accepted = q.accepted /\ r.unread = unread /\ r.left = q.left /\ r.id = q.id
        /\ r.blocked = q.blocked /\ r.from = q.from /\ r.lost = q.lost
        /\ r.impact = q.impact /\ r.grew = q.grew /\ r.approved = q.approved
    BY <1>2, <1>7 DEF RunStates
  <1>10. run' = [run EXCEPT ![e] = r] /\ faults' \in Nat
    BY <1>2, <1>3, <1>4, <1>7 DEF Advance, MayRaise
  <1>11. RunOK(r)
    <2>1. q.left = <<>>
      BY <1>2 DEF RunOK, AnnounceOK
    <2>2. /\ IdOK(r) /\ AnnounceOK(r) /\ BlockedOK(r) /\ CooldownRead(r)
          /\ Applied(r) = Applied(q) /\ (Alone(r) => Alone(q))
      BY <1>2, <1>6, <1>8, <1>9, <2>1, RunKeeps
    <2>3. EarnedOK(r)
      <3>1. Sound(q)
        BY <1>2 DEF RunOK, EarnedOK
      <3> QED
        BY <1>6, <1>9, <2>2, <3>1 DEF EarnedOK, Sound
    <2>4. protocol = "store" /\ Alone(r) =>
             Numbered(r.version, r.from) /\ Numbered(r.rollbackVersion, r.from)
      <3>1. protocol = "store" /\ Alone(r) => Numbered(r.version, r.from)
        BY <1>5, <1>6, <1>8, <1>9, <2>2 DEF Alone
      <3>2. protocol = "store" /\ Alone(q) => Numbered(q.rollbackVersion, q.from)
        BY <1>2 DEF RunOK, BuildOK
      <3> QED
        BY <1>9, <2>2, <3>1, <3>2
    <2>5. protocol = "store" /\ Alone(r) /\ r.accepted => Betters(r)
      BY <1>2, <1>9, <2>2 DEF RunOK, BuildOK, Betters
    <2>6. BuildOK(r)
      BY <1>5, <1>9, <2>2, <2>4, <2>5 DEF BuildOK
    <2> QED
      BY <2>2, <2>3, <2>6 DEF RunOK
  <1> QED
    BY <1>1, <1>2, <1>8, <1>9, <1>10, <1>11, RunReads

\* What is handed over is what the run announced.
LEMMA ApplyKeepsInv ==
    ASSUME EngineInv, NEW e \in Engines, Apply(e)
    PROVE  EngineInv'
  <1>1. PICK q : q = run[e]
    OBVIOUS
  <1>2. /\ q \in RunStates /\ RunOK(q) /\ q.pc = "apply"
        /\ UNCHANGED <<bound, protocol, history, log, runs, service, faults>>
    BY <1>1, RunsAreOK DEF Apply
  <1>3. PICK x : x = [of |-> q, actions |-> Applied(q)]
    OBVIOUS
  <1>4. handed' \subseteq handed \cup {x}
    BY <1>1, <1>3 DEF Apply
  <1>5. Applied(q) \in SUBSET AllPatterns
    BY <1>2 DEF Applied, RunStates
  <1>6. /\ x.of = q /\ x.actions = Applied(q)
        /\ x \in [of : RunStates, actions : SUBSET AllPatterns]
    BY <1>2, <1>3, <1>5
  <1>7. /\ run' = [run EXCEPT ![e] = Idle] /\ run \in [Engines -> RunStates]
        /\ run'[e] = Idle /\ \A f \in Engines : f # e => run'[f] = run[f]
        /\ Idle \in RunStates /\ RunOK(Idle) /\ Idle.pc = "idle"
        /\ runs \in Nat /\ runs' \in Nat /\ runs <= runs'
    <2>1. run \in [Engines -> RunStates] /\ runs \in Nat /\ runs' = runs
      BY <1>2 DEF EngineInv, EngineTypeOK
    <2>2. Idle \in RunStates /\ RunOK(Idle) /\ Idle.pc = "idle"
      BY IdleIsOK DEF EngineInv, Idle
    <2>3. run' = [run EXCEPT ![e] = Idle]
      BY DEF Apply, Advance
    <2> QED
      BY <2>1, <2>2, <2>3
  <1>8. EngineTypeOK'
    <2>1. handed' \in SUBSET [of : RunStates, actions : SUBSET AllPatterns]
      BY <1>4, <1>6 DEF EngineInv, EngineTypeOK
    <2> QED
      BY <1>2, <1>7, <2>1 DEF EngineInv, EngineTypeOK
  <1>9. RunsInv'
    <2>1. ASSUME NEW f \in Engines, NEW s, s = run'[f]
          PROVE  RunOK(s)'
      <3>1. RunOK(s)
        BY <1>7, <2>1, RunsAreOK
      <3> QED
        BY <1>2, <1>7, <3>1, NothingChanges
    <2> QED
      BY <1>7, <2>1 DEF EngineInv, RunsInv
  <1>10. LogInv'
    <2>1. ServiceInv'
      BY <1>2, <1>7, NothingChanges DEF EngineInv, LogInv, ServiceInv, Late
    <2>2. \A i \in 1..Len(log) : log[i].id \in Nat
      <3>1. \A y \in Entries : y.id \in Nat
        BY DEF Entries
      <3> QED
        BY <3>1, RecordsHaveIds
    <2> QED
      BY <1>2, <1>7, <2>1, <2>2, NothingChanges DEF EngineInv, LogInv
  <1>11. HandedInv'
    <2>1. HandedOK(x)
      <3>1. q.id \in 1..runs
        BY <1>2 DEF RunOK, IdOK
      <3>2. Sound(q)
        BY <1>2 DEF RunOK, EarnedOK
      <3>3. ~q.lost => OnRecord(q) /\ Cardinality(Announced(q.id)) = Cardinality(Applied(q))
        <4>1. q.left = <<>> /\ Cardinality(Unannounced(q.left)) = 0
          BY <1>2, NothingLeft DEF RunOK, AnnounceOK
        <4>2. Cardinality(Announced(q.id)) \in Nat
          BY AnnouncedAreCounted
        <4> QED
          BY <1>2, <4>1, <4>2 DEF RunOK, AnnounceOK
      <3> QED
        BY <1>6, <3>1, <3>2, <3>3 DEF HandedOK
    <2>2. \A f \in Engines : run'[f].pc # "idle" => run'[f].id # q.id
      BY <1>1, <1>2, <1>7 DEF EngineInv, RunsInv
    <2>3. \A h \in handed : HandedOK(h)'
      BY <1>2, <1>7, NothingChanges DEF EngineInv, HandedInv
    <2>4. \A h \in handed : \A f \in Engines : run'[f].pc # "idle" => run'[f].id # h.of.id
      BY <1>7 DEF EngineInv, HandedInv
    <2>5. HandedOK(x)'
      BY <1>2, <1>7, <2>1, NothingChanges
    <2> QED
      BY <1>4, <1>6, <2>2, <2>3, <2>4, <2>5 DEF HandedInv
  <1> QED
    BY <1>8, <1>9, <1>10, <1>11 DEF EngineInv

-----------------------------------------------------------------------------
(***************************************************************************)
(* An entry is appended to the log.                                        *)
(***************************************************************************)
\* What was said of the entries of the log stands.
LEMMA LogGrows ==
    ASSUME EngineInv, NEW x \in Entries, log' = Append(log, x), NEW n, n = Len(log) + 1
    PROVE  /\ log' \in Seq(Entries) /\ Len(log') = n /\ n \in Nat \ {0}
           /\ \A i \in 1..Len(log) : log'[i] = log[i]
           /\ log'[n] = x
  <1>1. log \in Seq(Entries)
    BY DEF EngineInv, EngineTypeOK
  <1> QED
    BY <1>1, AppendProperties

LEMMA RecordsGrow ==
    ASSUME EngineInv, NEW x \in Entries, log' = Append(log, x), NEW n, n = Len(log) + 1
    PROVE  /\ \A i : i \in Recorded' <=> (i \in Recorded \/ (i = n /\ x.event = "record"))
           /\ \A i : i \in AcceptedAt' <=> (i \in AcceptedAt
                                             \/ (i = n /\ x.event = "record" /\ x.of.accepted))
           /\ \A i : i \in Untyped' <=> (i \in Untyped \/ (i = n /\ x.event \notin Services))
           /\ \A i : i \in Serviced' <=> (i \in Serviced \/ (i = n /\ x.event \in Services))
  <1>1. /\ Len(log') = n /\ n \in Nat \ {0} /\ Len(log) \in Nat
        /\ \A i \in 1..Len(log) : log'[i] = log[i]
        /\ log'[n] = x
    BY LogGrows, RecordsHaveIds
  <1>2. \A i : i \in 1..Len(log') <=> (i \in 1..Len(log) \/ i = n)
    BY <1>1
  <1>3. \A i : i \in Recorded' <=> (i \in Recorded \/ (i = n /\ x.event = "record"))
    BY <1>1, <1>2 DEF Recorded
  <1>4. \A i : i \in Untyped' <=> (i \in Untyped \/ (i = n /\ x.event \notin Services))
    BY <1>1, <1>2 DEF Untyped
  <1>5. Recorded \subseteq 1..Len(log) /\ n \notin 1..Len(log)
    BY <1>1 DEF Recorded
  <1>6. \A i : i \in AcceptedAt' <=> (i \in AcceptedAt
                                      \/ (i = n /\ x.event = "record" /\ x.of.accepted))
    BY <1>1, <1>3, <1>5 DEF AcceptedAt
  <1>7. \A i : i \in Serviced' <=> (i \in Serviced \/ (i = n /\ x.event \in Services))
    BY <1>1, <1>2, <1>4, <1>5 DEF Serviced, Untyped
  <1> QED
    BY <1>3, <1>4, <1>6, <1>7

\* What is said of the first entries does not depend on the ones behind them.
LEMMA FirstsStay ==
    ASSUME EngineInv, NEW x \in Entries, log' = Append(log, x), NEW m \in Nat, m <= Len(log)
    PROVE  /\ \A i : LastAccepted(i, m) <=> LastAccepted(i, m)'
           /\ \A v : Numbered(v, m) => Numbered(v, m)'
           /\ \A j : j \in 1..m /\ log[j].of.from \in Nat /\ Undisturbed(j)' => Undisturbed(j)
  <1> PICK n : n = Len(log) + 1
    OBVIOUS
  <1>1. /\ Len(log') = n /\ n \in Nat \ {0} /\ Len(log) \in Nat /\ ~(n <= m)
        /\ \A i \in 1..Len(log) : log'[i] = log[i]
    BY LogGrows, RecordsHaveIds
  <1>2. /\ \A i : i \in Recorded' <=> (i \in Recorded \/ (i = n /\ x.event = "record"))
        /\ \A i : i \in AcceptedAt' <=> (i \in AcceptedAt
                                          \/ (i = n /\ x.event = "record" /\ x.of.accepted))
    BY RecordsGrow
  <1>3. \A i \in Recorded : log'[i] = log[i]
    BY <1>1, RecordsHaveIds
  <1>4. \A i : LastAccepted(i, m) <=> LastAccepted(i, m)'
    BY <1>1, <1>2 DEF LastAccepted
  <1>5. \A v : Numbered(v, m) => Numbered(v, m)'
    BY <1>1, <1>2, <1>3 DEF Numbered
  <1>6. ASSUME NEW j \in 1..m, log[j].of.from \in Nat, Undisturbed(j)'
        PROVE  Undisturbed(j)
    <2>1. j \in 1..Len(log) /\ log'[j] = log[j]
      BY <1>1
    <2>2. \A k \in (log[j].of.from + 1)..j : log'[k] = log[k]
      BY <1>1, <1>6
    <2> QED
      BY <1>6, <2>1, <2>2 DEF Undisturbed
  <1> QED
    BY <1>4, <1>5, <1>6

LEMMA FactsStay ==
    ASSUME EngineInv, NEW x \in Entries, log' = Append(log, x), UNCHANGED protocol,
           NEW r \in RunStates, r.from <= Len(log)
    PROVE  /\ CooldownRead(r) => CooldownRead(r)'
           /\ Betters(r) => Betters(r)'
           /\ Alone(r)' => Alone(r)
           /\ OnRecord(r) => OnRecord(r)'
           /\ \A c \in 1..Len(log) : CooldownAt(r, c) => CooldownAt(r, c)'
  <1> PICK n : n = Len(log) + 1
    OBVIOUS
  <1>1. /\ Len(log') = n /\ n \in Nat \ {0} /\ Len(log) \in Nat /\ r.from \in Nat
        /\ \A i \in 1..Len(log) : log'[i] = log[i] /\ i \in 1..n
        /\ ~(n <= r.from)
    BY LogGrows, RecordsHaveIds DEF RunStates
  <1>2. /\ \A i : i \in Recorded' <=> (i \in Recorded \/ (i = n /\ x.event = "record"))
        /\ \A i : i \in AcceptedAt' <=> (i \in AcceptedAt
                                          \/ (i = n /\ x.event = "record" /\ x.of.accepted))
    BY RecordsGrow
  <1>3. \A i \in Recorded : log'[i] = log[i]
    BY <1>1, RecordsHaveIds
  <1>4. \A i : LastAccepted(i, r.from) <=> LastAccepted(i, r.from)'
    BY <1>1, FirstsStay
  <1>5. CooldownRead(r) => CooldownRead(r)'
    <2>1. \A k : k \in AcceptedAt' /\ k <= r.from => k \in AcceptedAt
      BY <1>1, <1>2
    <2> QED
      BY <1>1, <1>4, <2>1 DEF CooldownRead
  <1>6. Betters(r) => Betters(r)'
    <2>1. \A i : LastAccepted(i, r.from) => i \in AcceptedAt /\ log'[i] = log[i]
      BY <1>3, RecordsHaveIds DEF LastAccepted
    <2> QED
      BY <1>4, <2>1 DEF Betters
  <1>7. Alone(r)' => Alone(r)
    BY <1>1 DEF Alone
  <1>8. OnRecord(r) => OnRecord(r)'
    BY <1>2, <1>3 DEF OnRecord
  <1>9. \A c \in 1..Len(log) : CooldownAt(r, c) => CooldownAt(r, c)'
    BY <1>1 DEF CooldownAt
  <1> QED
    BY <1>5, <1>6, <1>7, <1>8, <1>9

LEMMA AnnouncementsGrow ==
    ASSUME EngineInv, NEW x \in Entries, log' = Append(log, x), NEW id
    PROVE  /\ x.id # id \/ x.event # "applied" => Announced(id)' = Announced(id)
           /\ x.id = id /\ x.event = "applied" =>
                 Cardinality(Announced(id)') = Cardinality(Announced(id)) + 1
  <1> PICK n : n = Len(log) + 1
    OBVIOUS
  <1>1. /\ Len(log') = n /\ n \in Nat \ {0} /\ Len(log) \in Nat /\ log'[n] = x
        /\ \A i \in 1..Len(log) : log'[i] = log[i]
    BY LogGrows, RecordsHaveIds
  <1>2. \A i : i \in 1..Len(log') <=> (i \in 1..Len(log) \/ i = n)
    BY <1>1
  <1>3. \A i : i \in Announced(id)' <=>
                  (i \in Announced(id) \/ (i = n /\ x.id = id /\ x.event = "applied"))
    BY <1>1, <1>2 DEF Announced
  <1>4. x.id # id \/ x.event # "applied" => Announced(id)' = Announced(id)
    BY <1>3
  <1>5. ASSUME x.id = id, x.event = "applied"
        PROVE  Cardinality(Announced(id)') = Cardinality(Announced(id)) + 1
    <2>1. Announced(id)' = Announced(id) \cup {n}
      BY <1>3, <1>5
    <2>2. n \notin Announced(id)
      BY <1>1 DEF Announced
    <2>3. IsFiniteSet(Announced(id))
      BY AnnouncedAreCounted
    <2> QED
      BY <2>1, <2>2, <2>3, FS_AddElement
  <1> QED
    BY <1>4, <1>5

\* A run does not notice what others write.
LEMMA OthersGoOn ==
    ASSUME EngineInv, NEW x \in Entries, log' = Append(log, x), UNCHANGED <<protocol, history, runs>>,
           NEW r \in RunStates, RunOK(r), r.pc = "idle" \/ r.id # x.id
    PROVE  RunOK(r)'
  <1> PICK n : n = Len(log) + 1
    OBVIOUS
  <1>1. /\ Len(log') = n /\ n \in Nat \ {0} /\ Len(log) \in Nat /\ log'[n] = x
        /\ \A i \in 1..Len(log) : log'[i] = log[i] /\ i \in 1..n
        /\ r.from \in Nat
    BY LogGrows, RecordsHaveIds DEF RunStates
  <1>2. \A i : i \in Recorded' <=> (i \in Recorded \/ (i = n /\ x.event = "record"))
    BY RecordsGrow
  <1>3. CASE r.pc = "idle"
    <2>1. IdOK(r)'
      BY <1>3 DEF RunOK, IdOK
    <2> QED
      BY <1>3, <2>1 DEF RunOK, AnnounceOK, BlockedOK, EarnedOK, BuildOK
  <1>4. CASE r.pc # "idle"
    <2>1. r.from <= Len(log) /\ r.from <= n /\ r.id # x.id /\ r.id \in 1..runs
      BY <1>1, <1>4 DEF RunOK, IdOK
    <2>2. /\ CooldownRead(r) => CooldownRead(r)'
          /\ Betters(r) => Betters(r)'
          /\ Alone(r)' => Alone(r)
          /\ OnRecord(r) => OnRecord(r)'
          /\ \A c \in 1..Len(log) : CooldownAt(r, c) => CooldownAt(r, c)'
      BY <2>1, FactsStay
    <2>3. \A v : Numbered(v, r.from) => Numbered(v, r.from)'
      BY <1>1, <2>1, FirstsStay
    <2>4. IdOK(r)'
      <3>1. \A i \in Recorded : log'[i] = log[i]
        BY <1>1, RecordsHaveIds
      <3> QED
        BY <1>1, <1>2, <1>4, <2>1, <3>1 DEF RunOK, IdOK
    <2>5. AnnounceOK(r)'
      <3>1. Announced(r.id)' = Announced(r.id)
        BY <2>1, AnnouncementsGrow
      <3> QED
        BY <2>2, <3>1 DEF RunOK, AnnounceOK
    <2>6. BlockedOK(r)'
      BY <1>1, <2>2 DEF RunOK, BlockedOK
    <2>7. EarnedOK(r)'
      BY DEF RunOK, EarnedOK, Sound
    <2>8. BuildOK(r)'
      BY <2>2, <2>3 DEF RunOK, BuildOK
    <2> QED
      BY <2>4, <2>5, <2>6, <2>7, <2>8 DEF RunOK
  <1> QED
    BY <1>3, <1>4

\* What an entry must be for the log to stay as it was.
LEMMA LogInvGrows ==
    ASSUME EngineInv, NEW x \in Entries, log' = Append(log, x), UNCHANGED <<protocol, runs>>,
           x.id <= runs, x.id = 0 <=> x.event \in Outside,
           NEW n, n = Len(log) + 1,
           x.event = "record" => RecordOK(n)' /\ \A i \in Recorded : log[i].id # x.id,
           ServiceInv'
    PROVE  LogInv'
  <1>1. /\ Len(log') = n /\ n \in Nat \ {0} /\ Len(log) \in Nat /\ log'[n] = x
        /\ \A i \in 1..Len(log) : log'[i] = log[i] /\ i \in 1..n /\ i < n
    BY LogGrows, RecordsHaveIds
  <1>2. /\ \A i : i \in Recorded' <=> (i \in Recorded \/ (i = n /\ x.event = "record"))
        /\ \A i : i \in AcceptedAt' <=> (i \in AcceptedAt
                                          \/ (i = n /\ x.event = "record" /\ x.of.accepted))
    BY RecordsGrow
  <1>3. \A i \in Recorded : log'[i] = log[i] /\ i < n
    BY <1>1, RecordsHaveIds
  <1>4. (\A i \in 1..Len(log) : EntryOK(i))'
    <2>1. ASSUME NEW i \in 1..n
          PROVE  EntryOK(i)'
      <3>1. CASE i = n
        BY <1>1, <3>1 DEF EntryOK
      <3>2. CASE i # n
        <4>1. i \in 1..Len(log)
          BY <1>1, <3>2
        <4> QED
          BY <1>1, <4>1, RecordsHaveIds DEF EntryOK
      <3> QED
        BY <3>1, <3>2
    <2> QED
      BY <1>1, <2>1
  <1>5. ASSUME NEW j \in Recorded
        PROVE  RecordOK(j)'
    <2>1. RecordOK(j) /\ log[j].of \in RunStates /\ j \in 1..Len(log) /\ log'[j] = log[j]
      BY <1>1, RecordsHaveIds
    <2> PICK r : r = log[j].of
      OBVIOUS
    <2>2. r \in RunStates /\ r.from < j /\ r.from \in Nat /\ r.from <= Len(log) /\ log'[j].of = r
          /\ j \in Nat /\ j <= Len(log)
      BY <1>1, <2>1 DEF RecordOK, RunStates
    <2>3. /\ CooldownRead(r) => CooldownRead(r)'
          /\ Betters(r) => Betters(r)'
          /\ \A c \in 1..Len(log) : CooldownAt(r, c) => CooldownAt(r, c)'
      BY <2>2, FactsStay
    <2>4. \A v : Numbered(v, r.from) => Numbered(v, r.from)'
      BY <2>2, FirstsStay
    <2>5. Undisturbed(j)' => Undisturbed(j)
      BY <2>2, FirstsStay
    <2>6. Sound(r) => Sound(r)'
      BY DEF Sound
    <2>7. r.blocked /\ ~r.lost => \E c \in 1..Len(log') : c < j /\ CooldownAt(r, c)'
      BY <1>1, <2>1, <2>3 DEF RecordOK
    <2> QED
      BY <2>1, <2>2, <2>3, <2>4, <2>5, <2>6, <2>7 DEF RecordOK
  <1>6. (\A j \in Recorded : RecordOK(j))'
    BY <1>2, <1>5
  <1>7. (\A i, j \in Recorded : log[i].id = log[j].id => i = j)'
    <2>1. \A i, j \in Recorded : log[i].id = log[j].id => i = j
      BY DEF EngineInv, LogInv
    <2>2. ASSUME NEW i \in Recorded', NEW j \in Recorded', log'[i].id = log'[j].id
          PROVE  i = j
      <3>1. \A k \in Recorded' : (k \in Recorded /\ log'[k].id = log[k].id)
                                \/ (k = n /\ x.event = "record" /\ log'[k].id = x.id)
        BY <1>1, <1>2, <1>3
      <3>2. x.event = "record" => \A k \in Recorded : log[k].id # x.id
        OBVIOUS
      <3> QED
        BY <2>1, <2>2, <3>1, <3>2
    <2> QED
      BY <2>2
  <1>8. MaxInv'
    <2>1. MaxInv
      BY DEF EngineInv, LogInv
    <2>2. AcceptedAt' # {} => \E i \in AcceptedAt' : \A k \in AcceptedAt' : k <= i
      <3>1. \A k \in AcceptedAt : k <= n
        BY <1>3, RecordsHaveIds
      <3>2. CASE n \in AcceptedAt'
        BY <1>1, <1>2, <3>1, <3>2
      <3>3. CASE n \notin AcceptedAt'
        BY <1>2, <2>1, <3>3 DEF MaxInv
      <3> QED
        BY <3>2, <3>3
    <2>3. Recorded' # {} =>
             \E i \in Recorded' : \A k \in Recorded' : log'[k].of.version <= log'[i].of.version
      <3>1. ASSUME NEW i \in Recorded
            PROVE  log[i].of.version \in Nat
        BY RecordsHaveIds DEF RunStates
      <3>2. x.of.version \in Nat
        BY DEF Entries, RunStates
      <3>3. CASE x.event # "record"
        BY <1>2, <1>3, <2>1, <3>3 DEF MaxInv
      <3>4. CASE x.event = "record" /\ Recorded = {}
        <4>1. \A k : k \in Recorded' <=> k = n
          BY <1>2, <3>4
        <4> QED
          BY <1>1, <3>2, <4>1
      <3>5. CASE x.event = "record" /\ Recorded # {}
        <4>1. PICK i \in Recorded : \A k \in Recorded : log[k].of.version <= log[i].of.version
          BY <2>1, <3>5 DEF MaxInv
        <4>2. n \in Recorded' /\ i \in Recorded'
          BY <1>2, <3>5
        <4>3. CASE x.of.version <= log[i].of.version
          <5>1. \A k \in Recorded' : log'[k].of.version <= log'[i].of.version
            BY <1>1, <1>2, <1>3, <4>1, <4>3
          <5> QED
            BY <4>2, <5>1
        <4>4. CASE ~(x.of.version <= log[i].of.version)
          <5>1. ASSUME NEW k \in Recorded'
                PROVE  log'[k].of.version <= log'[n].of.version
            <6>1. CASE k = n
              BY <1>1, <3>2, <6>1
            <6>2. CASE k # n
              <7>1. k \in Recorded /\ log'[k] = log[k]
                BY <1>2, <1>3, <6>2
              <7>2. log[k].of.version <= log[i].of.version /\ log[k].of.version \in Nat
                    /\ log[i].of.version \in Nat
                BY <3>1, <4>1, <7>1
              <7> QED
                BY <1>1, <3>2, <4>4, <7>1, <7>2
            <6> QED
              BY <6>1, <6>2
          <5> QED
            BY <4>2, <5>1
        <4> QED
          BY <4>3, <4>4
      <3> QED
        BY <3>3, <3>4, <3>5
    <2> QED
      BY <2>2, <2>3 DEF MaxInv
  <1> QED
    BY <1>4, <1>6, <1>7, <1>8 DEF LogInv

LEMMA HandedStay ==
    ASSUME EngineInv, NEW x \in Entries, log' = Append(log, x), UNCHANGED <<protocol, runs, handed>>,
           \A h \in handed : h.of.id # x.id,
           \A f \in Engines : run'[f].pc # "idle" => run[f].pc # "idle" /\ run'[f].id = run[f].id
    PROVE  HandedInv'
  <1> SUFFICES ASSUME NEW h \in handed
               PROVE  HandedOK(h)' /\ \A f \in Engines : run'[f].pc # "idle" => run'[f].id # h.of.id
    BY DEF HandedInv
  <1>1. HandedOK(h) /\ h.of.id # x.id
        /\ \A f \in Engines : run[f].pc # "idle" => run[f].id # h.of.id
    BY DEF EngineInv, HandedInv
  <1>2. Announced(h.of.id)' = Announced(h.of.id)
    BY <1>1, AnnouncementsGrow
  <1>3. OnRecord(h.of) => OnRecord(h.of)'
    <2>1. \A i \in Recorded : i \in Recorded' /\ log'[i] = log[i]
      <3> PICK n : n = Len(log) + 1
        OBVIOUS
      <3> QED
        BY LogGrows, RecordsGrow, RecordsHaveIds
    <2> QED
      BY <2>1 DEF OnRecord
  <1>4. HandedOK(h)'
    BY <1>1, <1>2, <1>3 DEF HandedOK, Sound
  <1> QED
    BY <1>1, <1>4

\* As long as no service saves, only the first record without a type counts.
LEMMA ServiceWaits ==
    ASSUME EngineInv, NEW x \in Entries, log' = Append(log, x), x.event \notin Services,
           UNCHANGED service
    PROVE  ServiceInv'
  <1> PICK n : n = Len(log) + 1
    OBVIOUS
  <1>1. /\ n \in Nat \ {0} /\ Len(log) \in Nat
        /\ \A i \in 1..Len(log) : i < n /\ log'[i] = log[i]
    BY LogGrows, RecordsHaveIds
  <1>2. /\ \A i : i \in Untyped' <=> (i \in Untyped \/ i = n)
        /\ \A i : i \in Serviced' <=> i \in Serviced
    BY RecordsGrow
  <1>3. /\ \A i \in Untyped : i \in 1..Len(log) /\ i < n
        /\ \A i \in Serviced : i \in 1..Len(log) /\ i < n
    BY <1>1 DEF Untyped, Serviced
  <1>4. ASSUME NEW u, NEW s
        PROVE  Late(u, s)' = Late(u, s)
    BY <1>1, <1>2, <1>3 DEF Late
  <1>5. CASE Untyped = {}
    <2>1. ASSUME NEW s
          PROVE  Late(n, s) = {}
      <3>1. \A i \in Serviced : ~(i > n)
        BY <1>1, <1>3
      <3> QED
        BY <3>1 DEF Late
    <2>2. n \in Untyped' /\ \A v \in Untyped' : n <= v
      BY <1>1, <1>2, <1>5
    <2> QED
      BY <1>4, <2>1, <2>2 DEF ServiceInv
  <1>6. CASE Untyped # {}
    <2>1. PICK u \in Untyped :
             /\ \A v \in Untyped : u <= v
             /\ \A s \in Services :
                   /\ service[s] = "save" => Late(u, s) = {}
                   /\ Late(u, s) = {} \/ \E i \in Late(u, s) : Late(u, s) = {i}
      BY <1>6 DEF EngineInv, LogInv, ServiceInv
    <2>2. u \in Untyped' /\ \A v \in Untyped' : u <= v
      BY <1>1, <1>2, <1>3, <2>1
    <2> QED
      BY <1>4, <2>1, <2>2 DEF ServiceInv
  <1> QED
    BY <1>5, <1>6

-----------------------------------------------------------------------------
(***************************************************************************)
(* The steps that write.                                                   *)
(***************************************************************************)
\* Of the announcements of a run the first is taken off.
LEMMA OneLess ==
    ASSUME NEW left \in Seq(Announcements), left # <<>>
    PROVE  /\ Head(left) \in Announcements /\ Tail(left) \in Seq(Announcements)
           /\ Head(left) = left[1]
           /\ \A k \in 1..Len(left) : k = 1 \/ (k - 1 \in 1..Len(Tail(left)) /\ Tail(left)[k - 1] = left[k])
           /\ Cardinality(Unannounced(left)) \in Nat /\ Cardinality(Unannounced(Tail(left))) \in Nat
           /\ Head(left) = "applied" =>
                 Cardinality(Unannounced(left)) = Cardinality(Unannounced(Tail(left))) + 1
           /\ Head(left) # "applied" =>
                 Cardinality(Unannounced(left)) = Cardinality(Unannounced(Tail(left)))
  <1> PICK t, h, m : t = Tail(left) /\ h = Head(left) /\ m = Len(left)
    OBVIOUS
  <1>1. /\ h \in Announcements /\ t \in Seq(Announcements) /\ h = left[1]
        /\ Len(t) = m - 1 /\ m \in Nat \ {0}
        /\ \A k \in 1..(m - 1) : t[k] = left[k + 1]
    <2>1. /\ h \in Announcements /\ t \in Seq(Announcements) /\ Len(t) = Len(left) - 1
          /\ \A k \in 1..Len(t) : t[k] = left[k + 1]
      BY HeadTailProperties
    <2>2. m \in Nat \ {0} /\ h = left[1]
      OBVIOUS
    <2> QED
      BY <2>1, <2>2
  <1>2. \A k \in 1..m : k = 1 \/ (k - 1 \in 1..Len(t) /\ t[k - 1] = left[k])
    <2> SUFFICES ASSUME NEW k \in 1..m, k # 1
                 PROVE  k - 1 \in 1..Len(t) /\ t[k - 1] = left[k]
      OBVIOUS
    <2> PICK j : j = k - 1
      OBVIOUS
    <2>1. j \in 1..(m - 1) /\ j + 1 = k
      BY <1>1
    <2> QED
      BY <1>1, <2>1
  <1> DEFINE U == Unannounced(t)
             V == {k \in 1..m : k # 1 /\ left[k] = "applied"}
  <1>3. IsFiniteSet(U) /\ IsFiniteSet(V)
    <2>1. U \in SUBSET (1..Len(t)) /\ V \in SUBSET (1..m)
      BY DEF Unannounced
    <2>2. IsFiniteSet(1..Len(t)) /\ IsFiniteSet(1..m)
      BY <1>1, FS_Interval
    <2> QED
      BY <2>1, <2>2, FS_Subset
  <1>4. Cardinality(U) = Cardinality(V)
    <2> DEFINE f == [k \in U |-> k + 1]
    <2>1. \A k \in U : k \in 1..(m - 1) /\ t[k] = "applied"
      BY <1>1 DEF Unannounced
    <2>2. \A k \in U : f[k] = k + 1 /\ k + 1 \in V
      <3> SUFFICES ASSUME NEW k \in U
                   PROVE  k + 1 \in V
        OBVIOUS
      <3>1. k \in 1..(m - 1) /\ left[k + 1] = "applied"
        BY <1>1, <2>1
      <3>2. k + 1 \in 1..m /\ k + 1 # 1
        BY <1>1, <3>1
      <3> QED
        BY <3>1, <3>2
    <2>3. f \in [U -> V]
      BY <2>2
    <2>4. \A a, b \in U : f[a] = f[b] => a = b
      BY <2>1, <2>2
    <2>5. \A y \in V : \E a \in U : f[a] = y
      <3> SUFFICES ASSUME NEW y \in V
                   PROVE  \E a \in U : f[a] = y
        OBVIOUS
      <3> PICK a : a = y - 1
        OBVIOUS
      <3>1. a \in 1..Len(t) /\ t[a] = "applied" /\ a + 1 = y
        BY <1>2
      <3>2. a \in U
        BY <3>1 DEF Unannounced
      <3> QED
        BY <2>2, <3>1, <3>2
    <2> HIDE DEF f, U, V
    <2>6. f \in Bijection(U, V)
      BY <2>3, <2>4, <2>5 DEF Bijection, Injection, Surjection, IsInjective
    <2>7. ExistsBijection(U, V)
      BY <2>6 DEF ExistsBijection
    <2> QED
      BY <1>3, <2>7, FS_Bijection
  <1>5. h = "applied" => Unannounced(left) = V \cup {1}
    BY <1>1 DEF Unannounced
  <1>6. h # "applied" => Unannounced(left) = V
    BY <1>1 DEF Unannounced
  <1>7. 1 \notin V
    OBVIOUS
  <1> HIDE DEF V
  <1>8. Cardinality(V) \in Nat /\ Cardinality(V \cup {1}) = Cardinality(V) + 1
    BY <1>3, <1>7, FS_AddElement, FS_CardinalityType
  <1>9. PICK u : u = Unannounced(left)
    OBVIOUS
  <1>10. /\ h = "applied" => Cardinality(u) = Cardinality(U) + 1
         /\ h # "applied" => Cardinality(u) = Cardinality(U)
         /\ Cardinality(u) \in Nat /\ Cardinality(U) \in Nat
    <2>1. CASE h = "applied"
      <3>1. Cardinality(u) = Cardinality(V \cup {1})
        BY <1>5, <1>9, <2>1, Zenon
      <3>2. Cardinality(u) = Cardinality(U) + 1
        BY <1>4, <1>8, <3>1
      <3> QED
        BY <1>4, <1>8, <2>1, <3>2
    <2>2. CASE h # "applied"
      BY <1>4, <1>6, <1>8, <1>9, <2>2
    <2> QED
      BY <2>1, <2>2
  <1>11. \A k \in 1..Len(left) :
            k = 1 \/ (k - 1 \in 1..Len(Tail(left)) /\ Tail(left)[k - 1] = left[k])
    BY <1>2
  <1>12. /\ Head(left) = "applied" => Cardinality(u) = Cardinality(Unannounced(Tail(left))) + 1
         /\ Head(left) # "applied" => Cardinality(u) = Cardinality(Unannounced(Tail(left)))
         /\ Cardinality(u) \in Nat /\ Cardinality(Unannounced(Tail(left))) \in Nat
    BY <1>10
  <1> QED
    BY <1>1, <1>9, <1>11, <1>12

\* A write that raises leaves the log alone, and marks the run.
LEMMA LostWrite ==
    ASSUME EngineInv, NEW e \in Engines, NEW q \in RunStates, q = run[e],
           NEW r \in RunStates, run' = [run EXCEPT ![e] = r],
           r.lost, r.id = q.id, r.from = q.from, r.blocked = q.blocked, r.unread = q.unread,
           r.accepted = q.accepted, r.approved = q.approved, r.impact = q.impact, r.grew = q.grew,
           r.before = q.before, r.rollbackVersion = q.rollbackVersion,
           \/ q.pc = "events" /\ r.pc = "events"
           \/ q.pc = "record" /\ r.pc = "apply" /\ r.left = <<>>,
           UNCHANGED <<bound, protocol, history, log, runs, service, handed>>, faults' \in Nat
    PROVE  EngineInv'
  <1>1. RunOK(q)
    BY RunsAreOK
  <1>2. IdOK(r)
    BY <1>1 DEF RunOK, IdOK
  <1>3. AnnounceOK(r) /\ BlockedOK(r)
    BY DEF AnnounceOK, BlockedOK
  <1>4. EarnedOK(r)
    BY <1>1 DEF RunOK, EarnedOK, Sound, Applied
  <1>5. CooldownRead(r)
    BY <1>1 DEF RunOK, BuildOK, CooldownRead
  <1>6. r.pc = "events" => ~r.accepted
    BY <1>1 DEF RunOK, EarnedOK
  <1>7. BuildOK(r)
    BY <1>5, <1>6 DEF BuildOK
  <1>8. RunOK(r)
    BY <1>2, <1>3, <1>4, <1>7 DEF RunOK
  <1> QED
    BY <1>8, RunReads

\* A run has written an entry: what is to be shown of the run and of the entry.
LEMMA RunWrites ==
    ASSUME EngineInv, NEW e \in Engines, NEW q, q = run[e], q.pc # "idle",
           NEW x \in Entries, log' = Append(log, x), x.id = q.id,
           x.event \notin Outside,
           NEW r \in RunStates, run' = [run EXCEPT ![e] = r], r.pc # "idle", r.id = q.id, RunOK(r)',
           NEW n, n = Len(log) + 1,
           x.event = "record" => RecordOK(n)' /\ \A i \in Recorded : log[i].id # x.id,
           UNCHANGED <<bound, protocol, history, runs, service, handed>>, faults' \in Nat
    PROVE  EngineInv'
  <1>1. /\ run \in [Engines -> RunStates] /\ run'[e] = r
        /\ \A f \in Engines : f # e => run'[f] = run[f]
        /\ q.id \in 1..runs /\ runs \in Nat
    <2>1. run \in [Engines -> RunStates] /\ runs \in Nat
      BY DEF EngineInv, EngineTypeOK
    <2>2. q.id \in 1..runs
      BY RunsAreOK DEF RunOK, IdOK
    <2> QED
      BY <2>1, <2>2
  <1>2. EngineTypeOK'
    <2>1. log' \in Seq(Entries)
      BY LogGrows
    <2> QED
      BY <1>1, <2>1 DEF EngineInv, EngineTypeOK
  <1>3. \A f \in Engines : f # e /\ run[f].pc # "idle" => run[f].id # q.id
    BY DEF EngineInv, RunsInv
  <1>4. RunsInv'
    <2>1. ASSUME NEW f \in Engines, NEW s, s = run'[f]
          PROVE  RunOK(s)'
      <3>1. CASE f = e
        BY <1>1, <2>1, <3>1
      <3>2. CASE f # e
        <4>1. s \in RunStates /\ RunOK(s) /\ (s.pc = "idle" \/ s.id # x.id)
          BY <1>1, <1>3, <2>1, <3>2, RunsAreOK
        <4> QED
          BY <4>1, OthersGoOn
      <3> QED
        BY <3>1, <3>2
    <2>2. \A f, g \in Engines :
             run'[f].pc # "idle" /\ run'[g].pc # "idle" /\ run'[f].id = run'[g].id => f = g
      BY <1>1, <1>3 DEF EngineInv, RunsInv
    <2> QED
      BY <2>1, <2>2 DEF RunsInv
  <1>5. LogInv'
    <2>1. x.id <= runs /\ (x.id = 0 <=> x.event \in Outside)
      BY <1>1
    <2>2. ServiceInv'
      BY OutsideEvents, ServiceWaits
    <2> QED
      BY <2>1, <2>2, LogInvGrows
  <1>6. HandedInv'
    <2>1. \A h \in handed : h.of.id # x.id
      BY DEF EngineInv, HandedInv
    <2>2. \A f \in Engines : run'[f].pc # "idle" => run[f].pc # "idle" /\ run'[f].id = run[f].id
      BY <1>1
    <2> QED
      BY <2>1, <2>2, HandedStay
  <1> QED
    BY <1>2, <1>4, <1>5, <1>6 DEF EngineInv

LEMMA WriteEventKeepsInv ==
    ASSUME EngineInv, NEW e \in Engines, WriteEvent(e)
    PROVE  EngineInv'
  <1>1. PICK q : q = run[e]
    OBVIOUS
  <1>2. /\ q \in RunStates /\ RunOK(q) /\ faults \in Nat /\ q.pc = "events" /\ q.left # <<>>
        /\ UNCHANGED <<bound, protocol, history, runs, service, handed>>
    BY <1>1, RunsAreOK DEF WriteEvent
  <1>3. PICK left, h, t : left = q.left /\ h = Head(left) /\ t = Tail(left)
    OBVIOUS
  <1>4. left \in Seq(Announcements) /\ left # <<>>
    BY <1>2, <1>3 DEF RunStates
  <1>5. /\ h \in Announcements /\ t \in Seq(Announcements) /\ h = left[1]
        /\ \A k \in 1..Len(left) : k = 1 \/ (k - 1 \in 1..Len(t) /\ t[k - 1] = left[k])
        /\ Cardinality(Unannounced(left)) \in Nat /\ Cardinality(Unannounced(t)) \in Nat
        /\ h = "applied" => Cardinality(Unannounced(left)) = Cardinality(Unannounced(t)) + 1
        /\ h # "applied" => Cardinality(Unannounced(left)) = Cardinality(Unannounced(t))
    BY <1>3, <1>4, OneLess
  <1>6. PICK o : o = [Idle EXCEPT !.id = q.id]
    OBVIOUS
  <1>7. PICK x : x = Entry(h, o)
    OBVIOUS
  <1>8. /\ o \in RunStates /\ o.id = q.id
    <2>1. Idle \in RunStates /\ q.id \in Nat
      BY <1>2, IdleIsOK DEF EngineInv, RunStates
    <2> QED
      BY <1>6, <2>1 DEF RunStates
  <1>9. x.event = h /\ x.id = q.id /\ x \in Entries
    <2>1. q.id \in Nat /\ h \in Events
      BY <1>2, <1>5 DEF RunStates, Events
    <2> QED
      BY <1>7, <1>8, <2>1 DEF Entry, Entries
  <1>10. PICK raised \in BOOLEAN :
            /\ MayRaise(raised)
            /\ log' = IF raised THEN log ELSE Append(log, x)
            /\ Advance(e, [[q EXCEPT !.left = t] EXCEPT !.lost = @ \/ raised])
    <2>1. WriteEvent(e)
      OBVIOUS
    <2>2. Writes(e, Entry(Head(run[e].left), [Idle EXCEPT !.id = run[e].id]),
                 [run[e] EXCEPT !.left = Tail(@)])
      BY <2>1 DEF WriteEvent
    <2>3. [run[e] EXCEPT !.left = Tail(@)] = [q EXCEPT !.left = t]
      BY <1>1, <1>3
    <2>4. Entry(Head(run[e].left), [Idle EXCEPT !.id = run[e].id]) = x
      BY <1>1, <1>3, <1>6, <1>7
    <2>5. Writes(e, x, [q EXCEPT !.left = t])
      BY <2>2, <2>3, <2>4
    <2> QED
      BY <2>5 DEF Writes
  <1>11. PICK lost : lost = (q.lost \/ raised)
    OBVIOUS
  <1>12. PICK r : r = [q EXCEPT !.left = t, !.lost = lost]
    OBVIOUS
  <1>13. r \in RunStates /\ lost \in BOOLEAN
    <2>1. lost \in BOOLEAN
      BY <1>2, <1>11 DEF RunStates
    <2> QED
      BY <1>2, <1>5, <1>12, <2>1 DEF RunStates
  <1>14. /\ r.pc = "events" /\ r.left = t /\ r.lost = lost /\ r.id = q.id
         /\ r.from = q.from /\ r.blocked = q.blocked /\ r.unread = q.unread
         /\ r.accepted = q.accepted /\ r.approved = q.approved /\ r.impact = q.impact
         /\ r.grew = q.grew /\ r.before = q.before /\ r.rollbackVersion = q.rollbackVersion
    BY <1>2, <1>12 DEF RunStates
  <1>15. run' = [run EXCEPT ![e] = r] /\ faults' \in Nat
    <2>1. [[q EXCEPT !.left = t] EXCEPT !.lost = @ \/ raised] = r
      BY <1>2, <1>11, <1>12 DEF RunStates
    <2>2. run' = [run EXCEPT ![e] = r]
      BY <1>10, <2>1 DEF Advance
    <2> QED
      BY <1>2, <1>10, <2>2 DEF MayRaise
  <1>16. CASE raised
    <2>1. log' = log
      BY <1>10, <1>16
    <2>2. r.lost
      BY <1>11, <1>14, <1>16, Zenon
    <2>3. /\ UNCHANGED <<bound, protocol, history, log, runs, service, handed>>
          /\ q.pc = "events" /\ r.pc = "events"
      BY <1>2, <1>14, <2>1
    <2> QED
      BY <1>1, <1>2, <1>13, <1>14, <1>15, <2>2, <2>3, LostWrite
  <1>17. CASE ~raised
    <2>1. log' = Append(log, x)
      BY <1>10, <1>17
    <2>2. PICK n : n = Len(log) + 1
      OBVIOUS
    <2>3. /\ Len(log') = n /\ n \in Nat \ {0} /\ Len(log) \in Nat /\ log'[n] = x
          /\ \A i \in 1..Len(log) : log'[i] = log[i] /\ i \in 1..n
          /\ n \in 1..n
      BY <1>9, <2>1, <2>2, LogGrows, RecordsHaveIds
    <2>4. h # "record" /\ h \notin Outside
      BY <1>5, OutsideEvents DEF Announcements
    <2>5. /\ \A i : i \in Recorded' <=> i \in Recorded
          /\ \A i \in Recorded : log'[i] = log[i]
      BY <1>9, <2>1, <2>2, <2>3, <2>4, RecordsGrow, RecordsHaveIds
    <2>6. r.from \in Nat /\ r.from <= Len(log) /\ ~q.accepted /\ r.id \in 1..runs /\ n > r.from
      <3>1. q.from <= Len(log) /\ ~q.accepted /\ q.id \in 1..runs
        BY <1>2 DEF RunOK, IdOK, EarnedOK
      <3>2. q.from \in Nat
        BY <1>2 DEF RunStates
      <3> QED
        BY <1>14, <2>2, <2>3, <3>1, <3>2
    <2>7. /\ CooldownRead(r) => CooldownRead(r)'
          /\ \A c \in 1..Len(log) : CooldownAt(r, c) => CooldownAt(r, c)'
      BY <1>9, <1>13, <1>2, <2>1, <2>6, FactsStay
    <2>8. IdOK(r)'
      BY <1>2, <1>14, <2>2, <2>3, <2>5, <2>6 DEF RunOK, IdOK
    <2>9. AnnounceOK(r)'
      <3> PICK a, b : a = Cardinality(Announced(q.id)) /\ b = Cardinality(Announced(q.id)')
        OBVIOUS
      <3>1. a \in Nat
        BY AnnouncedAreCounted
      <3>2. /\ h # "applied" => Announced(q.id)' = Announced(q.id)
            /\ h = "applied" => b = a + 1
        BY <1>9, <2>1, AnnouncementsGrow
      <3>3. h # "applied" => b = a
        BY <3>2
      <3>4. Applied(r) = Applied(q)
        BY <1>14 DEF Applied
      <3>5. ~lost => a + Cardinality(Unannounced(left)) = Cardinality(Applied(q))
        BY <1>2, <1>3, <1>11 DEF RunOK, AnnounceOK
      <3>6. ~lost => b + Cardinality(Unannounced(t)) = Cardinality(Applied(q))
        BY <1>5, <3>1, <3>2, <3>3, <3>5
      <3>7. Announced(r.id)' = Announced(q.id)'
        BY <1>14 DEF Announced
      <3> QED
        BY <1>14, <3>4, <3>6, <3>7 DEF AnnounceOK
    <2>10. BlockedOK(r)'
      <3> SUFFICES ASSUME r.blocked, ~r.lost
                   PROVE  \/ \E k \in 1..Len(t) : t[k] = "cooldown"
                          \/ \E c \in 1..n : CooldownAt(r, c)'
        BY <1>14, <2>3 DEF BlockedOK
      <3>1. q.blocked /\ ~q.lost
        BY <1>11, <1>14
      <3>2. \/ \E k \in 1..Len(left) : left[k] = "cooldown"
            \/ \E c \in 1..Len(log) : CooldownAt(q, c)
        BY <1>2, <1>3, <3>1 DEF RunOK, BlockedOK
      <3>3. ASSUME NEW k \in 1..Len(left), left[k] = "cooldown"
            PROVE  \/ \E j \in 1..Len(t) : t[j] = "cooldown"
                   \/ \E c \in 1..n : CooldownAt(r, c)'
        <4>1. CASE k = 1
          <5>1. x.event = "cooldown"
            BY <1>5, <1>9, <3>3, <4>1
          <5>2. CooldownAt(r, n)'
            BY <1>9, <1>14, <2>3, <2>6, <5>1 DEF CooldownAt
          <5> QED
            BY <2>3, <5>2
        <4>2. CASE k # 1
          BY <1>5, <3>3, <4>2
        <4> QED
          BY <4>1, <4>2
      <3>4. ASSUME NEW c \in 1..Len(log), CooldownAt(q, c)
            PROVE  c \in 1..n /\ CooldownAt(r, c)'
        <4>1. CooldownAt(r, c)
          BY <1>14, <3>4 DEF CooldownAt
        <4> QED
          BY <2>3, <2>7, <4>1
      <3> QED
        BY <3>2, <3>3, <3>4
    <2>11. EarnedOK(r)'
      BY <1>2, <1>14 DEF RunOK, EarnedOK
    <2>12. BuildOK(r)'
      <3>1. CooldownRead(r)
        BY <1>2, <1>14 DEF RunOK, BuildOK, CooldownRead
      <3> QED
        BY <1>14, <2>6, <2>7, <3>1 DEF BuildOK
    <2>13. RunOK(r)'
      BY <2>8, <2>9, <2>10, <2>11, <2>12 DEF RunOK
    <2> QED
      BY <1>1, <1>2, <1>9, <1>13, <1>14, <1>15, <2>1, <2>2, <2>4, <2>13, RunWrites
  <1> QED
    BY <1>16, <1>17

\* The record tells what held of the run, and is put behind what it has seen.
LEMMA WriteRecordKeepsInv ==
    ASSUME EngineInv, NEW e \in Engines, WriteRecord(e)
    PROVE  EngineInv'
  <1>1. PICK q : q = run[e]
    OBVIOUS
  <1>2. /\ q \in RunStates /\ RunOK(q) /\ faults \in Nat /\ q.pc = "record"
        /\ UNCHANGED <<bound, protocol, history, runs, service, handed>>
    BY <1>1, RunsAreOK DEF WriteRecord
  <1>3. q.left = <<>>
    BY <1>2 DEF RunOK, AnnounceOK
  <1>4. PICK x : x = Entry("record", q)
    OBVIOUS
  <1>5. x.event = "record" /\ x.id = q.id /\ x.of = q /\ x \in Entries
    <2>1. q.id \in Nat /\ "record" \in Events
      BY <1>2 DEF RunStates, Events
    <2> QED
      BY <1>2, <1>4, <2>1 DEF Entry, Entries
  <1>6. PICK raised \in BOOLEAN :
           /\ MayRaise(raised)
           /\ log' = IF raised THEN log ELSE Append(log, x)
           /\ Advance(e, [[q EXCEPT !.pc = "apply"] EXCEPT !.lost = @ \/ raised])
    <2>1. Writes(e, Entry("record", run[e]), [run[e] EXCEPT !.pc = "apply"])
      BY DEF WriteRecord
    <2>2. Writes(e, x, [q EXCEPT !.pc = "apply"])
      BY <1>1, <1>4, <2>1
    <2> QED
      BY <2>2 DEF Writes
  <1>7. PICK lost : lost = (q.lost \/ raised)
    OBVIOUS
  <1>8. PICK r : r = [q EXCEPT !.pc = "apply", !.lost = lost]
    OBVIOUS
  <1>9. r \in RunStates /\ lost \in BOOLEAN
    <2>1. lost \in BOOLEAN
      BY <1>2, <1>7 DEF RunStates
    <2> QED
      BY <1>2, <1>8, <2>1 DEF RunStates, Places
  <1>10. /\ r.pc = "apply" /\ r.left = q.left /\ r.lost = lost /\ r.id = q.id
         /\ r.from = q.from /\ r.blocked = q.blocked /\ r.unread = q.unread
         /\ r.accepted = q.accepted /\ r.approved = q.approved /\ r.impact = q.impact
         /\ r.grew = q.grew /\ r.before = q.before /\ r.rollbackVersion = q.rollbackVersion
    BY <1>2, <1>8 DEF RunStates
  <1>11. run' = [run EXCEPT ![e] = r] /\ faults' \in Nat
    <2>1. [[q EXCEPT !.pc = "apply"] EXCEPT !.lost = @ \/ raised] = r
      BY <1>2, <1>7, <1>8 DEF RunStates
    <2>2. run' = [run EXCEPT ![e] = r]
      BY <1>6, <2>1 DEF Advance
    <2> QED
      BY <1>2, <1>6, <2>2 DEF MayRaise
  <1>12. CASE raised
    <2>1. log' = log
      BY <1>6, <1>12
    <2>2. r.lost
      BY <1>7, <1>10, <1>12, Zenon
    <2>3. /\ UNCHANGED <<bound, protocol, history, log, runs, service, handed>>
          /\ q.pc = "record" /\ r.pc = "apply" /\ r.left = <<>>
      BY <1>2, <1>3, <1>10, <2>1
    <2> QED
      BY <1>1, <1>2, <1>9, <1>10, <1>11, <2>2, <2>3, LostWrite
  <1>13. CASE ~raised
    <2>1. log' = Append(log, x)
      BY <1>6, <1>13
    <2>2. PICK n : n = Len(log) + 1
      OBVIOUS
    <2>3. /\ Len(log') = n /\ n \in Nat \ {0} /\ Len(log) \in Nat /\ log'[n] = x
          /\ \A i \in 1..Len(log) : log'[i] = log[i] /\ i \in 1..n /\ i < n
          /\ n \in 1..n
      BY <1>5, <2>1, <2>2, LogGrows, RecordsHaveIds
    <2>4. \A i : i \in Recorded' <=> (i \in Recorded \/ i = n)
      BY <1>5, <2>1, <2>2, RecordsGrow
    <2>5. q.from \in Nat /\ q.from <= Len(log) /\ q.id \in 1..runs /\ q.version >= 1
          /\ \A i \in Recorded : log[i].id # q.id
      <3>1. q.from <= Len(log) /\ q.id \in 1..runs /\ q.version >= 1
            /\ \A i \in Recorded : log[i].id # q.id
        BY <1>2 DEF RunOK, IdOK, BuildOK
      <3>2. q.from \in Nat
        BY <1>2 DEF RunStates
      <3> QED
        BY <3>1, <3>2
    <2>6. /\ CooldownRead(q) => CooldownRead(q)'
          /\ Betters(q) => Betters(q)'
          /\ \A c \in 1..Len(log) : CooldownAt(q, c) => CooldownAt(q, c)'
      BY <1>2, <1>5, <2>1, <2>5, FactsStay
    <2>7. \A v : Numbered(v, q.from) => Numbered(v, q.from)'
      BY <1>5, <2>1, <2>5, FirstsStay
    <2>8. Sound(q) /\ CooldownRead(q)
      BY <1>2 DEF RunOK, EarnedOK, BuildOK
    <2>9. RecordOK(n)'
      <3>1. log'[n].of = q /\ log'[n].id = q.id
        BY <1>5, <2>3
      <3>2. q.from < n /\ Sound(q)'
        BY <2>3, <2>5, <2>2, <2>8, <1>2 DEF Sound
      <3>3. q.blocked /\ ~q.lost => \E c \in 1..n : c < n /\ CooldownAt(q, c)'
        <4>1. q.blocked /\ ~q.lost => \E c \in 1..Len(log) : CooldownAt(q, c)
          <5>1. ~(\E k \in 1..Len(q.left) : q.left[k] = "cooldown")
            BY <1>3
          <5> QED
            BY <1>2, <5>1 DEF RunOK, BlockedOK
        <4> QED
          BY <2>3, <2>6, <4>1
      <3>4. Undisturbed(n)' => Alone(q)
        <4> SUFFICES ASSUME Undisturbed(n)'
                     PROVE  Alone(q)
          OBVIOUS
        <4>1. ~q.unread /\ \A j \in (q.from + 1)..n : log'[j].id \in {0, q.id}
          BY <3>1 DEF Undisturbed
        <4>2. ASSUME NEW j \in 1..Len(log), j > q.from
              PROVE  log[j].id \in {0, q.id}
          <5>1. j \in (q.from + 1)..n /\ log'[j] = log[j]
            BY <2>3, <2>5, <4>2
          <5> QED
            BY <4>1, <5>1
        <4> QED
          BY <4>1, <4>2 DEF Alone
      <3>5. protocol = "store" /\ Alone(q) =>
               /\ Numbered(q.rollbackVersion, q.from) /\ Numbered(q.version, q.from)
               /\ q.accepted => Betters(q)
        BY <1>2 DEF RunOK, BuildOK
      <3>6. protocol' = protocol /\ Len(log') = n
        BY <1>2, <2>3
      <3> QED
        BY <2>5, <2>6, <2>7, <2>8, <3>1, <3>2, <3>3, <3>4, <3>5, <3>6 DEF RecordOK
    <2>10. RunOK(r)'
      <3>1. IdOK(r)'
        <4>1. r.from <= n /\ runs' = runs
          BY <1>2, <1>10, <2>2, <2>3, <2>5
        <4> QED
          BY <1>10, <2>3, <2>5, <4>1 DEF IdOK
      <3>2. AnnounceOK(r)'
        <4>1. Announced(r.id)' = Announced(r.id)
          BY <1>5, <2>1, AnnouncementsGrow
        <4>2. Applied(r) = Applied(q)
          BY <1>10 DEF Applied
        <4>3. ~r.lost => ~q.lost
          BY <1>7, <1>10
        <4>4. OnRecord(r)'
          <5>1. n \in Recorded' /\ log'[n].of = q
            BY <1>5, <2>3, <2>4
          <5> QED
            BY <1>10, <5>1 DEF OnRecord
        <4>5. ~r.lost => Cardinality(Announced(r.id)) + Cardinality(Unannounced(r.left))
                         = Cardinality(Applied(r))
          BY <1>2, <1>10, <4>2, <4>3 DEF RunOK, AnnounceOK
        <4> QED
          BY <1>3, <1>10, <4>1, <4>4, <4>5 DEF AnnounceOK
      <3>3. BlockedOK(r)'
        <4> SUFFICES ASSUME r.blocked, ~r.lost
                     PROVE  \E c \in 1..n : CooldownAt(r, c)'
          BY <2>3 DEF BlockedOK
        <4>1. q.blocked /\ ~q.lost
          BY <1>7, <1>10
        <4>2. ~(\E k \in 1..Len(q.left) : q.left[k] = "cooldown")
          BY <1>3
        <4>3. PICK c \in 1..Len(log) : CooldownAt(q, c)
          BY <1>2, <4>1, <4>2 DEF RunOK, BlockedOK
        <4>4. CooldownAt(q, c)' /\ c \in 1..n
          BY <2>3, <2>6, <4>3
        <4>5. CooldownAt(r, c)'
          BY <1>10, <4>4 DEF CooldownAt
        <4> QED
          BY <4>4, <4>5
      <3>4. EarnedOK(r)'
        <4>1. Sound(r)'
          BY <1>2, <1>10, <2>8 DEF Sound, Applied
        <4> QED
          BY <1>10, <4>1 DEF EarnedOK
      <3>5. BuildOK(r)'
        <4>1. CooldownRead(r)
          BY <1>10, <2>8 DEF CooldownRead
        <4>2. CooldownRead(r)'
          BY <1>2, <1>5, <1>9, <1>10, <2>1, <2>5, <4>1, FactsStay
        <4> QED
          BY <1>10, <4>2 DEF BuildOK
      <3> QED
        BY <3>1, <3>2, <3>3, <3>4, <3>5 DEF RunOK
    <2> QED
      BY <1>1, <1>2, <1>5, <1>9, <1>10, <1>11, <2>1, <2>2, <2>5, <2>9, <2>10, OutsideEvents,
         RunWrites
  <1> QED
    BY <1>12, <1>13

\* What a controller or a service writes belongs to no run.
LEMMA OthersWrite ==
    ASSUME EngineInv, NEW x \in Entries, log' = Append(log, x), x.id = 0,
           x.event \in Outside, ServiceInv', service' \in [Services -> {"idle", "save"}],
           UNCHANGED <<bound, protocol, history, run, runs, handed>>, faults' \in Nat
    PROVE  EngineInv'
  <1>1. EngineTypeOK'
    <2>1. log' \in Seq(Entries)
      <3> PICK n : n = Len(log) + 1
        OBVIOUS
      <3> QED
        BY LogGrows
    <2> QED
      BY <2>1 DEF EngineInv, EngineTypeOK
  <1>2. runs \in Nat /\ \A e \in Engines : run[e].pc # "idle" => run[e].id # 0
    <2>1. \A e \in Engines : run[e].pc # "idle" => run[e].id \in 1..runs
      BY RunsAreOK DEF RunOK, IdOK
    <2> QED
      BY <2>1, RecordsHaveIds
  <1>3. RunsInv'
    <2>1. ASSUME NEW e \in Engines, NEW s, s = run'[e]
          PROVE  RunOK(s)'
      <3>1. s \in RunStates /\ RunOK(s) /\ (s.pc = "idle" \/ s.id # x.id)
        BY <1>2, <2>1, RunsAreOK
      <3> QED
        BY <3>1, OthersGoOn
    <2> QED
      BY <2>1 DEF EngineInv, RunsInv
  <1>4. LogInv'
    <2>1. x.id <= runs /\ (x.id = 0 <=> x.event \in Outside) /\ x.event # "record"
      BY <1>2, OutsideEvents
    <2> PICK n : n = Len(log) + 1
      OBVIOUS
    <2> QED
      BY <2>1, LogInvGrows
  <1>5. HandedInv'
    <2>1. \A h \in handed : h.of.id # x.id
      <3>1. \A h \in handed : h.of.id \in 1..runs
        BY DEF EngineInv, HandedInv, HandedOK
      <3> QED
        BY <1>2, <3>1
    <2> QED
      BY <2>1, HandedStay
  <1> QED
    BY <1>1, <1>3, <1>4, <1>5 DEF EngineInv

LEMMA OutsideEntries ==
    ASSUME EngineInv, NEW event \in Outside
    PROVE  /\ Entry(event, Idle) \in Entries
           /\ Entry(event, Idle).id = 0 /\ Entry(event, Idle).event = event
  <1>1. Idle \in RunStates /\ Idle.id = 0
    BY IdleIsOK DEF EngineInv, Idle
  <1> QED
    BY <1>1 DEF Entry, Entries, Events

LEMMA ObserveKeepsInv ==
    ASSUME EngineInv, Observe
    PROVE  EngineInv'
  <1>1. CASE protocol = "file"
    <2>1. PICK x : x = Entry("loop", Idle)
      OBVIOUS
    <2>2. x \in Entries /\ x.id = 0 /\ x.event = "loop" /\ x.event \in Outside
      BY <2>1, OutsideEntries, OutsideEvents
    <2>3. /\ log' = Append(log, x)
          /\ UNCHANGED <<bound, protocol, history, run, runs, service, handed, faults>>
      BY <1>1, <2>1 DEF Observe
    <2>4. ServiceInv' /\ service' \in [Services -> {"idle", "save"}] /\ faults' \in Nat
      BY <2>2, <2>3, OutsideEvents, ServiceWaits DEF EngineInv, EngineTypeOK
    <2> QED
      BY <2>2, <2>3, <2>4, OthersWrite
  <1>2. CASE protocol # "file"
    <2>1. /\ \E x \in Observed : history' = [history EXCEPT ![x] = @ + 1]
          /\ run' = [e \in Engines |->
                        IF run[e].pc = "events" THEN [run[e] EXCEPT !.grew = TRUE] ELSE run[e]]
          /\ UNCHANGED <<bound, protocol, log, runs, service, handed, faults>>
      BY <1>2 DEF Observe
    <2>2. history' \in Histories
      <3>1. history \in [Observed -> Nat]
        BY DEF EngineInv, EngineTypeOK, Histories
      <3> QED
        BY <2>1, <3>1 DEF Histories
    <2>3. protocol = "store" /\ protocol' = "store" /\ runs \in Nat
      BY <1>2, <2>1 DEF EngineInv, EngineTypeOK
    <2>4. ASSUME NEW e \in Engines, NEW q, q = run[e], NEW s, s = run'[e]
          PROVE  s \in RunStates /\ s.id = q.id /\ s.pc = q.pc /\ RunOK(s)'
      <3>1. q \in RunStates /\ RunOK(q)
        BY <2>4, RunsAreOK
      <3>2. s = IF q.pc = "events" THEN [q EXCEPT !.grew = TRUE] ELSE q
        BY <2>1, <2>4
      <3>3. /\ s \in RunStates /\ s.id = q.id /\ s.pc = q.pc
            /\ s.left = q.left /\ s.lost = q.lost
            /\ s.from = q.from /\ s.blocked = q.blocked /\ s.unread = q.unread
            /\ s.accepted = q.accepted /\ s.approved = q.approved /\ s.impact = q.impact
            /\ s.before = q.before /\ s.rollbackVersion = q.rollbackVersion
            /\ s.version = q.version
            /\ q.pc = "events" => s.grew = TRUE
            /\ q.pc # "events" => s = q
        <4>1. CASE q.pc = "events"
          <5>1. s = [q EXCEPT !.grew = TRUE]
            BY <3>2, <4>1
          <5> QED
            BY <3>1, <4>1, <5>1 DEF RunStates
        <4>2. CASE q.pc # "events"
          BY <3>1, <3>2, <4>2
        <4> QED
          BY <4>1, <4>2
      <3>4. IdOK(s)
        <4>1. q.pc = "idle" => s = q
          BY <3>3
        <4> QED
          BY <3>1, <3>3, <4>1 DEF RunOK, IdOK
      <3>5. AnnounceOK(s)
        BY <3>1, <3>3 DEF RunOK, AnnounceOK, Applied, OnRecord
      <3>6. BlockedOK(s)
        BY <3>1, <3>3 DEF RunOK, BlockedOK, CooldownAt
      <3>7. BuildOK(s)
        <4>1. q.pc # "events" => s = q
          BY <3>3
        <4>2. CASE q.pc = "events"
          <5>1. ~s.accepted /\ CooldownRead(s)
            BY <3>1, <3>3, <4>2 DEF RunOK, EarnedOK, BuildOK, CooldownRead
          <5> QED
            BY <3>3, <4>2, <5>1 DEF BuildOK
        <4>3. CASE q.pc # "events"
          BY <3>1, <4>1, <4>3 DEF RunOK
        <4> QED
          BY <4>2, <4>3
      <3>8. IdOK(s)' /\ AnnounceOK(s)' /\ BlockedOK(s)' /\ BuildOK(s)'
        BY <2>1, <2>3, <3>4, <3>5, <3>6, <3>7, NothingChanges
      <3>9. EarnedOK(s)'
        <4>1. CASE q.pc = "events"
          <5>1. s.grew /\ ~s.accepted /\ s.pc = "events"
            BY <3>1, <3>3, <4>1 DEF RunOK, EarnedOK
          <5> QED
            BY <2>3, <5>1 DEF EarnedOK
        <4>2. CASE q.pc # "events"
          <5>1. EarnedOK(s) /\ s.pc # "events"
            BY <3>1, <3>3, <4>2 DEF RunOK
          <5>2. Sound(s)' = Sound(s)
            BY <2>3 DEF Sound
          <5> QED
            BY <5>1, <5>2 DEF EarnedOK
        <4> QED
          BY <4>1, <4>2
      <3> QED
        BY <3>3, <3>8, <3>9 DEF RunOK
    <2>5. EngineTypeOK'
      <3>1. \A e \in Engines : run'[e] \in RunStates
        BY <2>4
      <3>2. run' \in [Engines -> RunStates]
        BY <2>1, <3>1
      <3> QED
        BY <2>1, <2>2, <3>2 DEF EngineInv, EngineTypeOK
    <2>6. \A e \in Engines : run'[e].id = run[e].id /\ run'[e].pc = run[e].pc
      BY <2>4
    <2>7. RunsInv'
      <3>1. \A e \in Engines : \A s : s = run'[e] => RunOK(s)'
        BY <2>4
      <3> QED
        BY <2>6, <3>1 DEF EngineInv, RunsInv
    <2>8. LogInv'
      <3>1. ServiceInv'
        BY <2>1, <2>3, NothingChanges DEF EngineInv, LogInv, ServiceInv, Late
      <3>2. \A i \in 1..Len(log) : log[i].id \in Nat
        <4>1. \A y \in Entries : y.id \in Nat
          BY DEF Entries
        <4> QED
          BY <4>1, RecordsHaveIds
      <3> QED
        BY <2>1, <2>3, <3>1, <3>2, NothingChanges DEF EngineInv, LogInv
    <2>9. HandedInv'
      BY <2>1, <2>3, <2>6, NothingChanges DEF EngineInv, HandedInv
    <2> QED
      BY <2>5, <2>7, <2>8, <2>9 DEF EngineInv
  <1> QED
    BY <1>1, <1>2

\* A caller of MemoryService reads, or fails to save: nothing happens to the log.
LEMMA ServiceGoesOn ==
    ASSUME EngineInv, service' \in [Services -> {"idle", "save"}], faults' \in Nat, ServiceInv',
           UNCHANGED <<bound, protocol, history, log, run, runs, handed>>
    PROVE  EngineInv'
  <1>1. UNCHANGED <<bound, protocol, history, log, run, runs, handed>>
    OBVIOUS
  <1>2. runs \in Nat /\ runs' = runs /\ runs' \in Nat /\ runs <= runs'
    BY <1>1, RecordsHaveIds
  <1>3. EngineTypeOK'
    BY <1>1 DEF EngineInv, EngineTypeOK
  <1>4. RunsInv'
    <2>1. ASSUME NEW e \in Engines, NEW s, s = run'[e]
          PROVE  RunOK(s)'
      <3>1. RunOK(s)
        BY <1>1, <2>1, RunsAreOK
      <3> QED
        BY <1>1, <1>2, <3>1, NothingChanges
    <2> QED
      BY <1>1, <2>1 DEF EngineInv, RunsInv
  <1>5. LogInv'
    <2>1. \A i \in 1..Len(log) : log[i].id \in Nat
      <3>1. \A y \in Entries : y.id \in Nat
        BY DEF Entries
      <3> QED
        BY <3>1, RecordsHaveIds
    <2> QED
      BY <1>1, <1>2, <2>1, NothingChanges DEF EngineInv, LogInv
  <1>6. HandedInv'
    BY <1>1, <1>2, NothingChanges DEF EngineInv, HandedInv
  <1> QED
    BY <1>3, <1>4, <1>5, <1>6 DEF EngineInv

LEMMA ServiceReadsKeepsInv ==
    ASSUME EngineInv, NEW s \in Services, ServiceReads(s)
    PROVE  EngineInv'
  <1>1. /\ Untyped = {} /\ service' = [service EXCEPT ![s] = "save"]
        /\ UNCHANGED <<bound, protocol, history, log, run, runs, handed, faults>>
    BY DEF ServiceReads
  <1>2. service' \in [Services -> {"idle", "save"}] /\ faults' \in Nat
    BY <1>1 DEF EngineInv, EngineTypeOK
  <1>3. ServiceInv'
    BY <1>1 DEF ServiceInv, Untyped
  <1> QED
    BY <1>1, <1>2, <1>3, ServiceGoesOn

\* A service that has read the stream in time saves one record, and no more.
LEMMA ServiceSavesKeepsInv ==
    ASSUME EngineInv, NEW s \in Services, ServiceSaves(s)
    PROVE  EngineInv'
  <1>1. PICK x : x = Entry(s, Idle)
    OBVIOUS
  <1>2. x \in Entries /\ x.id = 0 /\ x.event = s /\ s \in Outside
    BY <1>1, OutsideEntries, OutsideEvents
  <1>3. /\ service[s] = "save" /\ service' = [service EXCEPT ![s] = "idle"]
        /\ log' = log \/ log' = Append(log, x)
        /\ UNCHANGED <<bound, protocol, history, run, runs, handed>> /\ faults' \in Nat
    BY <1>1 DEF ServiceSaves, MayRaise, EngineInv, EngineTypeOK
  <1>4. /\ service' \in [Services -> {"idle", "save"}] /\ service'[s] = "idle"
        /\ \A t \in Services : t # s => service'[t] = service[t]
    BY <1>3 DEF EngineInv, EngineTypeOK
  <1>5. CASE log' = log
    <2>1. ServiceInv'
      <3>1. Untyped' = Untyped /\ Serviced' = Serviced
        BY <1>5 DEF Untyped, Serviced
      <3>2. \A u, t : Late(u, t)' = Late(u, t)
        BY <1>5, <3>1 DEF Late
      <3>3. \A t \in Services : service'[t] = "save" => service[t] = "save"
        BY <1>4
      <3> QED
        BY <3>1, <3>2, <3>3 DEF EngineInv, LogInv, ServiceInv
    <2> QED
      BY <1>3, <1>4, <1>5, <2>1, ServiceGoesOn
  <1>6. CASE log' = Append(log, x)
    <2>1. ServiceInv'
      <3> PICK n : n = Len(log) + 1
        OBVIOUS
      <3>1. /\ n \in Nat \ {0} /\ Len(log) \in Nat /\ log'[n] = x
            /\ \A i \in 1..Len(log) : i < n /\ log'[i] = log[i]
        BY <1>2, <1>6, LogGrows, RecordsHaveIds
      <3>2. /\ \A i : i \in Untyped' <=> i \in Untyped
            /\ \A i : i \in Serviced' <=> (i \in Serviced \/ i = n)
            /\ \A i \in Serviced : i \in 1..Len(log)
        BY <1>2, <1>6, RecordsGrow DEF Serviced
      <3>3. SUFFICES ASSUME Untyped # {}
                     PROVE  ServiceInv'
        BY <3>2 DEF ServiceInv
      <3>4. PICK u \in Untyped :
               /\ \A v \in Untyped : u <= v
               /\ \A t \in Services :
                     /\ service[t] = "save" => Late(u, t) = {}
                     /\ Late(u, t) = {} \/ \E i \in Late(u, t) : Late(u, t) = {i}
        BY <3>3 DEF EngineInv, LogInv, ServiceInv
      <3>5. n > u
        BY <3>1, <3>4 DEF Untyped
      <3>6. Late(u, s)' = {n}
        <4>1. Late(u, s) = {}
          BY <1>3, <3>4
        <4> QED
          BY <1>2, <3>1, <3>2, <3>5, <4>1 DEF Late
      <3>7. ASSUME NEW t \in Services, t # s
            PROVE  Late(u, t)' = Late(u, t)
        BY <1>2, <3>1, <3>2, <3>7 DEF Late
      <3>8. u \in Untyped' /\ \A v \in Untyped' : u <= v
        BY <3>2, <3>4
      <3>9. ASSUME NEW t \in Services
            PROVE  /\ service'[t] = "save" => Late(u, t)' = {}
                   /\ Late(u, t)' = {} \/ \E i \in Late(u, t)' : Late(u, t)' = {i}
        <4>1. CASE t = s
          BY <1>4, <3>6, <4>1
        <4>2. CASE t # s
          BY <1>4, <3>4, <3>7, <4>2
        <4> QED
          BY <4>1, <4>2
      <3> QED
        BY <3>8, <3>9 DEF ServiceInv
    <2> QED
      BY <1>2, <1>3, <1>4, <1>6, <2>1, OthersWrite
  <1> QED
    BY <1>3, <1>5, <1>6

LEMMA NextKeepsInv == EngineInv /\ [Next]_vars => EngineInv'
  <1> SUFFICES ASSUME EngineInv, [Next]_vars
               PROVE  EngineInv'
    OBVIOUS
  <1>1. CASE UNCHANGED vars
    <2>1. /\ UNCHANGED <<bound, protocol, history, log, run, runs, service, handed, faults>>
          /\ runs \in Nat /\ runs' \in Nat /\ runs <= runs'
      BY <1>1, RecordsHaveIds DEF vars
    <2>2. EngineTypeOK'
      BY <2>1 DEF EngineInv, EngineTypeOK
    <2>3. RunsInv'
      <3>1. ASSUME NEW e \in Engines, NEW s, s = run'[e]
            PROVE  RunOK(s)'
        <4>1. RunOK(s)
          BY <2>1, <3>1, RunsAreOK
        <4> QED
          BY <2>1, <4>1, NothingChanges
      <3> QED
        BY <2>1, <3>1 DEF EngineInv, RunsInv
    <2>4. LogInv'
      <3>1. ServiceInv'
        BY <2>1, NothingChanges DEF EngineInv, LogInv, ServiceInv, Late
      <3>2. \A i \in 1..Len(log) : log[i].id \in Nat
        <4>1. \A y \in Entries : y.id \in Nat
          BY DEF Entries
        <4> QED
          BY <4>1, RecordsHaveIds
      <3> QED
        BY <2>1, <3>1, <3>2, NothingChanges DEF EngineInv, LogInv
    <2>5. HandedInv'
      BY <2>1, NothingChanges DEF EngineInv, HandedInv
    <2> QED
      BY <2>2, <2>3, <2>4, <2>5 DEF EngineInv
  <1>2. ASSUME NEW e \in Engines, EngineStep(e)
        PROVE  EngineInv'
    <2>1. CASE CheckCooldown(e)
      BY <2>1, CheckCooldownKeepsInv
    <2>2. CASE ReadBefore(e)
      BY <2>2, ReadBeforeKeepsInv
    <2>3. CASE WriteEvent(e)
      BY <2>3, WriteEventKeepsInv
    <2>4. CASE ReadAfter(e)
      BY <2>4, ReadAfterKeepsInv
    <2>5. CASE Gate(e)
      BY <2>5, GateKeepsInv
    <2>6. CASE ReadRollbackVersion(e)
      BY <2>6, ReadRollbackVersionKeepsInv
    <2>7. CASE ReadVersion(e)
      BY <2>7, ReadVersionKeepsInv
    <2>8. CASE WriteRecord(e)
      BY <2>8, WriteRecordKeepsInv
    <2>9. CASE Apply(e)
      BY <2>9, ApplyKeepsInv
    <2> QED
      BY <1>2, <2>1, <2>2, <2>3, <2>4, <2>5, <2>6, <2>7, <2>8, <2>9 DEF EngineStep
  <1>3. CASE Observe
    BY <1>3, ObserveKeepsInv
  <1>4. ASSUME NEW s \in Services, ServiceReads(s)
        PROVE  EngineInv'
    BY <1>4, ServiceReadsKeepsInv
  <1>5. ASSUME NEW s \in Services, ServiceSaves(s)
        PROVE  EngineInv'
    BY <1>5, ServiceSavesKeepsInv
  <1>6. CASE Rest
    BY <1>1, <1>6 DEF Rest
  <1> QED
    BY <1>1, <1>2, <1>3, <1>4, <1>5, <1>6 DEF Next, ServiceStep

\* In every state of every behaviour a run, its record and what it handed over tell of
\* what it read and wrote.
THEOREM EngineInvHolds == Spec => []EngineInv
  <1>1. Init => EngineInv
    BY InitEngineInv
  <1>2. EngineInv /\ [Next]_vars => EngineInv'
    BY NextKeepsInv
  <1> QED
    BY <1>1, <1>2, PTL DEF Spec

-----------------------------------------------------------------------------
(***************************************************************************)
(* The properties.                                                         *)
(***************************************************************************)
\* The types of ImprovementEngine.
THEOREM EngineTypeCorrect == Spec => []EngineTypeOK
  <1>1. EngineInv => EngineTypeOK
    BY DEF EngineInv
  <1> QED
    BY <1>1, EngineInvHolds, PTL

\* An improvement that counts, or is rolled back, is of actions that were applied, and
\* of a history that others changed or that could not be read.
THEOREM AcceptedIsEarnedHolds == Spec => []AcceptedIsEarned
  <1>1. EngineInv => AcceptedIsEarned
    <2> SUFFICES ASSUME EngineInv, NEW r \in Runs
                 PROVE  /\ r.accepted \/ RolledBack(r) =>
                              protocol = "store" /\ Applied(r) # {} /\ (r.grew \/ r.unread)
                        /\ r.accepted => r.impact >= 500
      BY DEF AcceptedIsEarned
    <2>1. Sound(r) /\ r \in RunStates
      <3>1. CASE r \in Records
        BY <3>1, RecordsHaveIds DEF Records, RecordOK
      <3>2. CASE r \in {h.of : h \in handed}
        <4>1. PICK h \in handed : r = h.of
          BY <3>2
        <4>2. HandedOK(h) /\ h.of \in RunStates
          BY DEF EngineInv, EngineTypeOK, HandedInv
        <4> QED
          BY <4>1, <4>2 DEF HandedOK
      <3> QED
        BY <3>1, <3>2 DEF Runs
    <2>2. r.approved = {} => Applied(r) = {}
      BY DEF Applied
    <2>3. r.impact \in Int /\ protocol \in {"store", "file"}
      BY <2>1 DEF RunStates, EngineInv, EngineTypeOK
    <2>4. r.accepted \/ RolledBack(r) => Applied(r) # {} /\ r.impact # 0
      BY <2>1, <2>3 DEF Sound, RolledBack
    <2> QED
      BY <2>1, <2>2, <2>3, <2>4 DEF Sound
  <1> QED
    BY <1>1, EngineInvHolds, PTL

\* What the applier is given has been announced, and its run has its record.
THEOREM HandedIsOnRecordHolds == Spec => []HandedIsOnRecord
  <1>1. EngineInv => HandedIsOnRecord
    <2> SUFFICES ASSUME EngineInv, NEW h \in handed
                 PROVE  /\ h.of.blocked \/ protocol = "file" => h.actions = {}
                        /\ ~h.of.lost => /\ Cardinality(Announced(h.of.id)) = Cardinality(h.actions)
                                         /\ \E r \in Records : r.id = h.of.id /\ Applied(r) = h.actions
      BY DEF HandedIsOnRecord, Announced
    <2>1. HandedOK(h)
      BY DEF EngineInv, HandedInv
    <2>2. h.of.blocked \/ protocol = "file" => h.actions = {}
      BY <2>1 DEF HandedOK, Sound, Applied
    <2>3. ASSUME OnRecord(h.of)
          PROVE  \E r \in Records : r.id = h.of.id /\ Applied(r) = h.actions
      <3>1. PICK i \in Recorded : /\ log[i].of.id = h.of.id /\ log[i].of.blocked = h.of.blocked
                                  /\ log[i].of.approved = h.of.approved
        BY <2>3 DEF OnRecord
      <3>2. log[i].of \in Records /\ Applied(log[i].of) = h.actions
        BY <2>1, <3>1 DEF Records, Applied, HandedOK
      <3> QED
        BY <3>1, <3>2
    <2> QED
      BY <2>1, <2>2, <2>3 DEF HandedOK
  <1> QED
    BY <1>1, EngineInvHolds, PTL

\* Of each caller of MemoryService at most one call, which had read before, succeeds
\* behind a record that has no type.
THEOREM ServiceIsLockedOutHolds == Spec => []ServiceIsLockedOut
  <1>1. EngineInv => ServiceIsLockedOut
    <2> SUFFICES ASSUME EngineInv, Untyped # {}, NEW s \in Services
                 PROVE  Cardinality({i \in Serviced : i > Min(Untyped) /\ log[i].event = s}) <= 1
      BY DEF ServiceIsLockedOut
    <2>1. PICK u \in Untyped :
             /\ \A v \in Untyped : u <= v
             /\ Late(u, s) = {} \/ \E i \in Late(u, s) : Late(u, s) = {i}
      BY DEF EngineInv, LogInv, ServiceInv
    <2> DEFINE least(x) == \A y \in Untyped : x =< y
    <2>2. Untyped \subseteq Nat
      BY RecordsHaveIds DEF Untyped
    <2>3. least(u)
      BY <2>1
    <2>4. Min(Untyped) = CHOOSE x \in Untyped : least(x)
      BY DEF Min
    <2> HIDE DEF least
    <2>5. Min(Untyped) \in Untyped /\ least(Min(Untyped))
      BY <2>3, <2>4
    <2>6. Min(Untyped) = u
      <3> PICK m : m = Min(Untyped)
        OBVIOUS
      <3>1. m \in Untyped /\ m <= u
        BY <2>5 DEF least
      <3>2. m \in Nat /\ u \in Nat /\ u <= m
        BY <2>1, <2>2, <3>1
      <3> QED
        BY <3>1, <3>2
    <2>7. Cardinality(Late(u, s)) <= 1
      <3>1. CASE Late(u, s) = {}
        BY <3>1, FS_EmptySet
      <3>2. ASSUME NEW i \in Late(u, s), Late(u, s) = {i}
            PROVE  Cardinality(Late(u, s)) <= 1
        <4>1. Cardinality({i}) = 1
          BY FS_Singleton
        <4> QED
          BY <3>2, <4>1
      <3> QED
        BY <2>1, <3>1, <3>2
    <2> QED
      BY <2>6, <2>7 DEF Late
  <1> QED
    BY <1>1, EngineInvHolds, PTL

\* An undisturbed run has seen all the records before its own.
LEMMA EarlierIsSeen ==
    ASSUME EngineInv, NEW i \in Recorded, NEW j \in Recorded, i < j, Undisturbed(j)
    PROVE  /\ i <= log[j].of.from /\ log[j].of.from \in Nat /\ log[j].of.from < j
           /\ i \in 1..Len(log) /\ j \in 1..Len(log)
  <1>1. /\ i \in 1..Len(log) /\ j \in 1..Len(log) /\ log[i].id # 0
        /\ log[j].of.from < j /\ log[j].of \in RunStates
    BY RecordsHaveIds DEF RecordOK
  <1>2. log[j].of.from \in Nat
    BY <1>1 DEF RunStates
  <1>3. log[i].id # log[j].id
    BY <1>1 DEF EngineInv, LogInv
  <1>4. \A k \in (log[j].of.from + 1)..j : log[k].id \in {0, log[j].id}
    BY DEF Undisturbed
  <1>5. i \notin (log[j].of.from + 1)..j
    BY <1>1, <1>3, <1>4
  <1> QED
    BY <1>1, <1>2, <1>5

\* Undisturbed runs number upwards, and each acceptance betters the one before.
THEOREM RunsBuildOnEachOtherHolds == Spec => []RunsBuildOnEachOther
  <1>1. EngineInv => RunsBuildOnEachOther
    <2> SUFFICES ASSUME EngineInv, NEW i \in Recorded, NEW j \in Recorded,
                        i < j, Undisturbed(j), protocol = "store"
                 PROVE  /\ log[i].of.version < log[j].of.version
                        /\ log[j].of.rollbackVersion = log[j].of.version
                        /\ i \in AcceptedAt /\ j \in AcceptedAt
                           /\ (\A k \in AcceptedAt : ~(i < k /\ k < j))
                           => log[i].of.impact < log[j].of.impact
      BY DEF RunsBuildOnEachOther
    <2> PICK r : r = log[j].of
      OBVIOUS
    <2>1. i <= r.from /\ r.from \in Nat /\ r.from < j /\ i \in Nat /\ j \in Nat
      BY EarlierIsSeen
    <2>2. /\ Numbered(r.rollbackVersion, r.from) /\ Numbered(r.version, r.from)
          /\ r.accepted => Betters(r)
      BY RecordsHaveIds DEF RecordOK
    <2>3. log[i].of.version < r.version
      BY <2>1, <2>2 DEF Numbered
    <2>4. r.rollbackVersion = r.version
      <3>1. \A a \in Recorded : log[a].of.version \in Nat
        <4>1. \A x \in RunStates : x.version \in Nat
          BY DEF RunStates
        <4> QED
          BY <4>1, RecordsHaveIds
      <3>2. r.version \in Nat /\ r.rollbackVersion \in Nat
        BY RecordsHaveIds DEF RunStates
      <3>3. ASSUME NEW v \in Nat, NEW w \in Nat, Numbered(v, r.from), Numbered(w, r.from)
            PROVE  v <= w
        <4>1. CASE v = 1
          BY <3>3, <4>1 DEF Numbered
        <4>2. CASE v # 1
          <5>1. PICK a \in Recorded : a <= r.from /\ v = log[a].of.version + 1
            BY <3>3, <4>2 DEF Numbered
          <5>2. log[a].of.version < w /\ log[a].of.version \in Nat
            BY <3>1, <3>3, <5>1 DEF Numbered
          <5> QED
            BY <5>1, <5>2
        <4> QED
          BY <4>1, <4>2
      <3>4. r.version <= r.rollbackVersion /\ r.rollbackVersion <= r.version
        BY <2>2, <3>2, <3>3
      <3> QED
        BY <3>2, <3>4
    <2>5. ASSUME i \in AcceptedAt, j \in AcceptedAt, \A k \in AcceptedAt : ~(i < k /\ k < j)
          PROVE  log[i].of.impact < r.impact
      <3>1. r.accepted
        BY <2>5 DEF AcceptedAt
      <3>2. AcceptedAt \subseteq Nat
        BY RecordsHaveIds
      <3>3. LastAccepted(i, r.from)
        BY <2>1, <2>5, <3>2 DEF LastAccepted
      <3> QED
        BY <2>2, <2>5, <3>1, <3>3 DEF Betters
    <2> QED
      BY <2>3, <2>4, <2>5
  <1> QED
    BY <1>1, EngineInvHolds, PTL

\* A set of positions that is not empty has a last one.
LEMMA LastPosition ==
    ASSUME NEW n \in Nat, NEW B \in SUBSET (1..n), B # {}
    PROVE  \E m \in B : \A j \in B : j <= m
  <1> DEFINE T == {n - j : j \in B}
  <1>1. T \subseteq Nat /\ T # {}
    OBVIOUS
  <1>2. PICK R : IsWellFoundedOn(R, Nat) /\ \A x, y \in Nat : x < y => <<x, y>> \in R
    <2>1. \A x, y \in Nat : x < y => <<x, y>> \in OpToRel(<, Nat)
      BY Zenon DEF OpToRel
    <2> QED
      BY <2>1, NatLessThanWellFounded, Zenon
  <1> HIDE DEF T
  <1>3. PICK t \in T : \A y \in T : ~(<<y, t>> \in R)
    <2>1. IsWellFoundedOn(R, Nat) /\ T \subseteq Nat /\ T # {}
      BY <1>1, <1>2
    <2> QED
      BY <2>1, WFMin, Zenon
  <1>4. t \in Nat /\ \A y \in T : y \in Nat /\ ~(y < t)
    BY <1>1, <1>2, <1>3
  <1>5. PICK m \in B : t = n - m
    BY DEF T
  <1>6. \A j \in B : n - j \in T
    BY DEF T
  <1>7. ASSUME NEW j \in B
        PROVE  j <= m
    <2> PICK y : y = n - j
      OBVIOUS
    <2>1. y \in Nat /\ ~(y < t)
      BY <1>4, <1>6
    <2> QED
      BY <1>5, <2>1
  <1> QED
    BY <1>7

\* Who applies something after an acceptance has waited for the cooldown.
LEMMA CooldownBeforeApplying ==
    ASSUME EngineInv, NEW i \in AcceptedAt, NEW j \in Recorded, i < j, Undisturbed(j),
           Applied(log[j].of) # {}
    PROVE  log[j].of.from - i >= CooldownCycles
  <1> PICK r : r = log[j].of
    OBVIOUS
  <1>1. i \in Recorded /\ CooldownRead(r) /\ Sound(r)
    BY RecordsHaveIds DEF RecordOK
  <1>2. i <= r.from
    BY <1>1, EarlierIsSeen
  <1>3. ~r.unread /\ ~r.blocked /\ r.approved # {}
    BY DEF Undisturbed, Applied
  <1>4. protocol = "store"
    BY <1>1, <1>3 DEF Sound, EngineInv, EngineTypeOK
  <1> QED
    BY <1>1, <1>2, <1>3, <1>4 DEF CooldownRead

\* The runs that an acceptance blocks.
Blocked(i) ==
    {j \in Recorded : log[j].of.blocked /\ log[j].of.from >= i
                      /\ \A k \in AcceptedAt : k > i => log[j].of.from < k}

\* Such a run starts within the cooldown, and writes one event at least before its record.
LEMMA BlockedRuns ==
    ASSUME EngineInv, NEW i \in AcceptedAt, NEW j \in Blocked(i), ~log[j].of.lost
    PROVE  /\ log[j].of.from \in Nat /\ log[j].of.from - i < CooldownCycles
           /\ log[j].of.from >= i /\ log[j].of.from < j /\ j \in 1..Len(log) /\ i \in Nat
           /\ \E c \in 1..Len(log) : /\ log[j].of.from < c /\ c < j
                                     /\ log[c].event = "cooldown" /\ log[c].id = log[j].id
  <1> PICK r : r = log[j].of
    OBVIOUS
  <1>1. j \in Recorded /\ r.blocked /\ r.from >= i /\ \A k \in AcceptedAt : k > i => r.from < k
    BY DEF Blocked
  <1>2. RecordOK(j) /\ r \in RunStates /\ j \in 1..Len(log) /\ AcceptedAt \subseteq Nat /\ i \in Nat
    BY <1>1, RecordsHaveIds
  <1>3. r.from \in Nat
    BY <1>2 DEF RunStates
  <1>4. CooldownRead(r) /\ r.from < j /\ r.id = log[j].id
        /\ \E c \in 1..Len(log) : c < j /\ CooldownAt(r, c)
    BY <1>1, <1>2 DEF RecordOK
  <1>5. PICK m \in 1..Len(log) : LastAccepted(m, r.from) /\ r.from - m < CooldownCycles
    BY <1>1, <1>4 DEF CooldownRead
  <1>6. m = i
    <2>1. m \in AcceptedAt /\ m <= r.from /\ (i <= r.from => i <= m)
      BY <1>5 DEF LastAccepted
    <2>2. ~(m > i)
      BY <1>1, <1>2, <1>3, <2>1
    <2> QED
      BY <1>1, <1>2, <1>3, <2>1, <2>2
  <1>7. \E c \in 1..Len(log) : /\ r.from < c /\ c < j
                               /\ log[c].event = "cooldown" /\ log[c].id = log[j].id
    BY <1>3, <1>4 DEF CooldownAt
  <1> QED
    BY <1>1, <1>2, <1>3, <1>4, <1>5, <1>6, <1>7

\* The last of them starts within the cooldown, behind the records of the others and
\* behind the events they wrote, two entries for each.
LEMMA BlockedAreFew ==
    ASSUME EngineInv, NEW i \in AcceptedAt,
           \A j \in Blocked(i) : Undisturbed(j) /\ ~log[j].of.lost
    PROVE  2 * Cardinality(Blocked(i)) <= CooldownCycles + 1
  <1> DEFINE B == Blocked(i)
             L == Len(log)
             Mark(j, c) == /\ log[j].of.from < c /\ c < j
                           /\ log[c].event = "cooldown" /\ log[c].id = log[j].id
  <1>1. B \in SUBSET (1..L) /\ B \in SUBSET Recorded /\ L \in Nat /\ IsFiniteSet(B) /\ i \in Nat
    <2>1. B \in SUBSET (1..L) /\ B \in SUBSET Recorded /\ L \in Nat /\ i \in Nat
      BY RecordsHaveIds DEF Blocked
    <2>2. IsFiniteSet(1..L)
      BY <2>1, FS_Interval
    <2> QED
      BY <2>1, <2>2, FS_Subset
  <1>2. CASE B = {}
    <2>1. Cardinality(B) = 0
      BY <1>2, FS_EmptySet
    <2> QED
      BY <2>1, EngineAssumption
  <1>3. CASE B # {}
    <2>1. PICK m \in B : \A j \in B : j <= m
      BY <1>1, <1>3, LastPosition
    <2> DEFINE C == B \ {m}
               f == [j \in C |-> CHOOSE c \in 1..L : Mark(j, c)]
               F == {f[j] : j \in C}
    <2> PICK last : last = log[m].of.from
      OBVIOUS
    <2>2. last \in Nat /\ last - i < CooldownCycles /\ last >= i
      BY <2>1, BlockedRuns
    <2>3. \A j \in C : /\ j \in 1..L /\ j \in Recorded /\ j < m
                       /\ log[j].of.from \in Nat /\ log[j].of.from >= i /\ log[j].of.from < j
                       /\ \E c \in 1..L : Mark(j, c)
      BY <1>1, <2>1, BlockedRuns
    <2>4. \A j \in C : j <= last
      <3> SUFFICES ASSUME NEW j \in C
                   PROVE  j <= last
        OBVIOUS
      <3>1. j \in Recorded /\ m \in Recorded /\ j < m /\ Undisturbed(m)
        BY <1>1, <2>1, <2>3
      <3> QED
        BY <3>1, EarlierIsSeen
    <2>5. \A j \in C : f[j] \in 1..L /\ Mark(j, f[j])
      <3> HIDE DEF Mark, C
      <3> QED
        BY <2>3
    <2> HIDE DEF f
    <2>6. C \in SUBSET ((i + 1)..last) /\ F \in SUBSET ((i + 1)..last)
      <3>1. ASSUME NEW j \in C
            PROVE  j \in (i + 1)..last /\ f[j] \in (i + 1)..last
        <4>1. /\ j \in 1..L /\ log[j].of.from \in Nat /\ log[j].of.from >= i /\ j <= last
              /\ log[j].of.from < j
          BY <2>3, <2>4
        <4>2. f[j] \in 1..L /\ log[j].of.from < f[j] /\ f[j] < j
          BY <2>5
        <4> QED
          BY <1>1, <2>2, <4>1, <4>2
      <3> QED
        BY <3>1
    <2>7. IsFiniteSet(C) /\ IsFiniteSet(F) /\ IsFiniteSet((i + 1)..last)
      <3>1. IsFiniteSet((i + 1)..last)
        <4>1. i + 1 \in Int /\ last \in Int
          BY <1>1, <2>2
        <4> QED
          BY <4>1, FS_Interval
      <3> HIDE DEF C, F
      <3> QED
        BY <2>6, <3>1, FS_Subset
    <2>8. C \cap F = {}
      <3> SUFFICES ASSUME NEW j \in C, NEW k \in C, j = f[k]
                   PROVE  FALSE
        OBVIOUS
      <3>1. log[j].event = "record"
        BY <2>3 DEF Recorded
      <3>2. log[f[k]].event = "cooldown"
        BY <2>5
      <3> QED
        BY <3>1, <3>2
    <2>9. Cardinality(F) = Cardinality(C)
      <3>1. f \in [C -> F]
        BY DEF f
      <3>2. \A a, b \in C : f[a] = f[b] => a = b
        <4> SUFFICES ASSUME NEW a \in C, NEW b \in C, f[a] = f[b]
                     PROVE  a = b
          OBVIOUS
        <4>1. log[a].id = log[b].id
          BY <2>5
        <4>2. a \in Recorded /\ b \in Recorded
          BY <2>3
        <4> QED
          BY <4>1, <4>2 DEF EngineInv, LogInv
      <3>3. \A y \in F : \E a \in C : f[a] = y
        OBVIOUS
      <3> HIDE DEF C, F
      <3>4. f \in Bijection(C, F)
        BY <3>1, <3>2, <3>3 DEF Bijection, Injection, Surjection, IsInjective
      <3>5. ExistsBijection(C, F)
        BY <3>4 DEF ExistsBijection
      <3> QED
        BY <2>7, <3>5, FS_Bijection
    <2>10. Cardinality(C) + Cardinality(F) <= last - i
      <3> HIDE DEF C, F
      <3>1. Cardinality(C \cup F) = Cardinality(C) + Cardinality(F) - Cardinality(C \cap F)
        BY <2>7, FS_Union
      <3>2. Cardinality(C \cap F) = 0
        BY <2>8, FS_EmptySet
      <3>3. C \cup F \in SUBSET ((i + 1)..last)
        BY <2>6
      <3>4. Cardinality(C \cup F) <= Cardinality((i + 1)..last)
        BY <2>7, <3>3, FS_Subset
      <3>5. Cardinality((i + 1)..last) = IF i + 1 > last THEN 0 ELSE last - (i + 1) + 1
        <4>1. i + 1 \in Int /\ last \in Int
          BY <1>1, <2>2
        <4> QED
          BY <4>1, FS_Interval
      <3>6. Cardinality((i + 1)..last) = last - i
        BY <1>1, <2>2, <3>5
      <3>7. Cardinality(C) \in Nat /\ Cardinality(F) \in Nat
        BY <2>7, FS_CardinalityType
      <3> QED
        BY <1>1, <2>2, <3>1, <3>2, <3>4, <3>6, <3>7
    <2>11. Cardinality(C) = Cardinality(B) - 1 /\ Cardinality(B) \in Nat
      BY <1>1, <2>1, FS_RemoveElement, FS_CardinalityType
    <2> PICK b, c : b = Cardinality(B) /\ c = Cardinality(C)
      OBVIOUS
    <2>12. c + c <= last - i /\ c = b - 1 /\ b \in Nat
      BY <2>9, <2>10, <2>11
    <2>13. CooldownCycles \in Nat
      BY EngineAssumption
    <2>14. \A x, y, k, n \in Nat :
              k - x < n /\ x <= k /\ y + y <= k - x => 2 * (y + 1) <= n + 1
      OBVIOUS
    <2>15. i \in Nat /\ c \in Nat /\ b = c + 1
      <3> HIDE DEF C
      <3>1. c \in Nat
        BY <2>7, FS_CardinalityType
      <3> QED
        BY <1>1, <2>12, <3>1
    <2>16. 2 * b <= CooldownCycles + 1
      BY <2>2, <2>12, <2>13, <2>14, <2>15
    <2> QED
      BY <2>16
  <1> QED
    BY <1>2, <1>3

\* An acceptance keeps undisturbed runs from applying anything for CooldownCycles
\* records, which half as many runs, rounded up, use up.
THEOREM CooldownIsKeptHolds == Spec => []CooldownIsKept
  <1>1. EngineInv => CooldownIsKept
    <2> SUFFICES ASSUME EngineInv
                 PROVE  CooldownIsKept
      OBVIOUS
    <2>1. \A i \in AcceptedAt, j \in Recorded :
             i < j /\ Undisturbed(j) /\ Applied(log[j].of) # {}
             => log[j].of.from - i >= CooldownCycles
      BY CooldownBeforeApplying
    <2>2. \A i \in AcceptedAt :
             (\A j \in Blocked(i) : Undisturbed(j) /\ ~log[j].of.lost)
             => 2 * Cardinality(Blocked(i)) <= CooldownCycles + 1
      BY BlockedAreFew
    <2> QED
      BY <2>1, <2>2, Zenon DEF CooldownIsKept, Blocked
  <1> QED
    BY <1>1, EngineInvHolds, PTL
=============================================================================
